---------------------------- MODULE MCTelegramBot ----------------------------
EXTENDS TelegramBot
=============================================================================
