---------------------------- MODULE FirewallProofs ----------------------------
(***************************************************************************)
(* Proofs about FirewallApply for any number of processes, any allow list  *)
(* and any set of faults.                                                  *)
(***************************************************************************)
EXTENDS FirewallApply, TLAPS

(* Init and every action preserve the types. *)
LEMMA TypeInit == Init => TypeOK
<1> SUFFICES ASSUME Init PROVE TypeOK
  OBVIOUS
<1>1. 0 \in 0..MaxFaults BY ConstantsAssumption
<1> QED BY <1>1 DEF Init, TypeOK, Labels

(* A fault stays within the bound. *)
LEMMA FaultCount ==
  ASSUME TypeOK, NEW k, FaultHappens(k)
  PROVE  faults' \in 0..MaxFaults
BY ConstantsAssumption DEF TypeOK, FaultHappens

(* Each step of each process keeps the types. *)
LEMMA TypeStep == TypeOK /\ [Next]_vars => TypeOK'
<1> SUFFICES ASSUME TypeOK, [Next]_vars PROVE TypeOK'
  OBVIOUS
<1> USE ConstantsAssumption DEF TypeOK, Labels, db, kernel, local, history,
        Goto, Start, Rest, Unlock, DriftBecomes
<1>1. ASSUME NEW w \in Worker, Step(w) PROVE TypeOK'
  <2>1. CASE CheckMode(w)
    <3>1. CASE Rest(w) BY <2>1, <3>1 DEF CheckMode
    <3>2. CASE Goto(w, "lock") /\ UNCHANGED <<job, arg, seen, text>>
      BY <2>1, <3>2 DEF CheckMode
    <3>3. CASE Goto(w, "read") /\ UNCHANGED <<job, arg, seen, text>>
      BY <2>1, <3>3 DEF CheckMode
    <3> QED BY <2>1, <3>1, <3>2, <3>3 DEF CheckMode
  <2>2. CASE ReadExisting(w)
    <3>1. seen' \in [Worker -> BOOLEAN] BY <2>2 DEF ReadExisting
    <3> QED BY <2>2, <3>1 DEF ReadExisting
  <2>3. CASE Upsert(w)
    <3>1. arg[w] \in Entry BY <2>3 DEF Upsert
    <3> QED BY <2>3, <3>1 DEF Upsert
  <2>4. CASE MarkPending(w) BY <2>4 DEF MarkPending
  <2>5. CASE Acquire(w) BY <2>5 DEF Acquire
  <2>6. CASE Render(w) BY <2>6 DEF Render
  <2>7. CASE Install(w) BY <2>7 DEF Install
  <2>8. CASE WriteConf(w) BY <2>8 DEF WriteConf
  <2>9. CASE Finish(w) BY <2>9 DEF Finish
  <2>10. CASE Fail(w) BY <2>10 DEF Fail
  <2> QED BY <1>1, <2>1, <2>2, <2>3, <2>4, <2>5, <2>6, <2>7, <2>8, <2>9, <2>10 DEF Step
<1>2. ASSUME NEW w \in Worker, Command(w) PROVE TypeOK'
  <2> USE DEF Op
  <2>1. ASSUME NEW e \in Entry, StartIngest(w, e) PROVE TypeOK' BY <2>1 DEF StartIngest
  <2>2. ASSUME NEW e \in Entry, StartAllow(w, e) PROVE TypeOK' BY <2>2 DEF StartAllow
  <2>3. ASSUME NEW e \in Entry, Remove(w, e) PROVE TypeOK' BY <2>3 DEF Remove
  <2>4. ASSUME NEW e \in Entry, Repair(w, e) PROVE TypeOK' BY <2>4 DEF Repair
  <2>5. CASE Apply(w) BY <2>5 DEF Apply
  <2>6. CASE Retry(w) BY <2>6 DEF Retry
  <2>7. ASSUME NEW m \in {"regular", "attack"}, SetMode(w, m) PROVE TypeOK'
    BY <2>7 DEF SetMode
  <2> QED BY <1>2, <2>1, <2>2, <2>3, <2>4, <2>5, <2>6, <2>7 DEF Command
<1>3. ASSUME NEW w \in Worker, Failure(w) PROVE TypeOK'
  <2> USE FaultCount DEF LeftBy
  <2>1. CASE InstallFails(w)
    <3>1. faults' \in 0..MaxFaults BY <2>1 DEF InstallFails
    <3>2. live' \subseteq Entry BY <2>1 DEF InstallFails
    <3>3. torn' \in BOOLEAN BY <2>1 DEF InstallFails
    <3> QED BY <2>1, <3>1, <3>2, <3>3 DEF InstallFails
  <2>2. CASE WriteConfFails(w) BY <2>2 DEF WriteConfFails
  <2>3. CASE Kill(w)
    <3>1. torn' \in BOOLEAN BY <2>3 DEF Kill
    <3> QED BY <2>3, <3>1 DEF Kill
  <2> QED BY <1>3, <2>1, <2>2, <2>3 DEF Failure
<1>4. CASE ThrottleOver BY <1>4 DEF ThrottleOver
<1>5. CASE Reboot BY <1>5, FaultCount DEF Reboot
<1>6. ASSUME NEW e \in Entry, Expire(e) PROVE TypeOK' BY <1>6, FaultCount DEF Expire
<1>7. CASE UNCHANGED vars BY <1>7 DEF vars
<1> QED BY <1>1, <1>2, <1>3, <1>4, <1>5, <1>6, <1>7 DEF Next

(* Every variable keeps its type in every behaviour. *)
THEOREM TypeCorrect == Spec => []TypeOK
BY TypeInit, TypeStep, PTL DEF Spec
-----------------------------------------------------------------------------
(* At first nobody holds the lock. *)
LEMMA LockInit == Init => LockInv
BY ConstantsAssumption DEF Init, LockInv, Critical

(* A process enters the critical section only by taking the lock. *)
LEMMA LockStep == TypeOK /\ LockInv /\ [Next]_vars => LockInv'
<1> SUFFICES ASSUME TypeOK, LockInv, [Next]_vars PROVE LockInv'
  OBVIOUS
<1> USE ConstantsAssumption DEF TypeOK, LockInv, Critical,
        db, kernel, local, history, Goto, Start, Rest, Unlock
<1>1. ASSUME NEW w \in Worker, Step(w) PROVE LockInv'
  <2>1. CASE CheckMode(w) BY <2>1 DEF CheckMode
  <2>2. CASE ReadExisting(w) BY <2>2 DEF ReadExisting
  <2>3. CASE Upsert(w) BY <2>3 DEF Upsert
  <2>4. CASE MarkPending(w) BY <2>4 DEF MarkPending
  <2>5. CASE Acquire(w) BY <2>5 DEF Acquire
  <2>6. CASE Render(w) BY <2>6 DEF Render
  <2>7. CASE Install(w) BY <2>7 DEF Install
  <2>8. CASE WriteConf(w) BY <2>8 DEF WriteConf
  <2>9. CASE Finish(w) BY <2>9 DEF Finish
  <2>10. CASE Fail(w) BY <2>10 DEF Fail
  <2> QED BY <1>1, <2>1, <2>2, <2>3, <2>4, <2>5, <2>6, <2>7, <2>8, <2>9, <2>10 DEF Step
<1>2. ASSUME NEW w \in Worker, Command(w) PROVE LockInv'
  <2>1. ASSUME NEW e \in Entry, StartIngest(w, e) PROVE LockInv' BY <2>1 DEF StartIngest
  <2>2. ASSUME NEW e \in Entry, StartAllow(w, e) PROVE LockInv' BY <2>2 DEF StartAllow
  <2>3. ASSUME NEW e \in Entry, Remove(w, e) PROVE LockInv' BY <2>3 DEF Remove
  <2>4. ASSUME NEW e \in Entry, Repair(w, e) PROVE LockInv' BY <2>4 DEF Repair
  <2>5. CASE Apply(w) BY <2>5 DEF Apply
  <2>6. CASE Retry(w) BY <2>6 DEF Retry
  <2>7. ASSUME NEW m \in {"regular", "attack"}, SetMode(w, m) PROVE LockInv'
    BY <2>7 DEF SetMode
  <2> QED BY <1>2, <2>1, <2>2, <2>3, <2>4, <2>5, <2>6, <2>7 DEF Command
<1>3. ASSUME NEW w \in Worker, Failure(w) PROVE LockInv'
  <2>1. CASE InstallFails(w) BY <2>1 DEF InstallFails
  <2>2. CASE WriteConfFails(w) BY <2>2 DEF WriteConfFails
  <2>3. CASE Kill(w) BY <2>3 DEF Kill
  <2> QED BY <1>3, <2>1, <2>2, <2>3 DEF Failure
<1>4. CASE ThrottleOver BY <1>4 DEF ThrottleOver
<1>5. CASE Reboot BY <1>5 DEF Reboot
<1>6. ASSUME NEW e \in Entry, Expire(e) PROVE LockInv' BY <1>6 DEF Expire
<1>7. CASE UNCHANGED vars BY <1>7 DEF vars
<1> QED BY <1>1, <1>2, <1>3, <1>4, <1>5, <1>6, <1>7 DEF Next

(* Only the holder of apply.lock renders, installs and persists a table,   *)
(* through failures, kills and reboots.                                    *)
THEOREM LockSafe == Spec => []LockInv
BY LockInit, LockStep, TypeCorrect, PTL DEF Spec
-----------------------------------------------------------------------------
(* At first the table is the allow list. *)
LEMMA ExplainedInit == Init => DivergenceExplained
BY DEF Init, DivergenceExplained, Stale

(* A step that makes a row stale has a cause, or its process owes an apply. *)
LEMMA ExplainedStep ==
  TypeOK /\ LockInv /\ DivergenceExplained /\ [Next]_vars => DivergenceExplained'
<1> SUFFICES ASSUME TypeOK, LockInv, DivergenceExplained, [Next]_vars,
                    NEW r \in Entry, Stale(r)',
                    ~(r \in drift')
             PROVE  \E v \in Worker : Owes(v, r)'
  BY DEF DivergenceExplained
<1> USE ConstantsAssumption DEF TypeOK, DivergenceExplained, Stale, Owes,
        db, kernel, local, history, Goto, Start, Rest, Unlock, DriftBecomes
<1> DEFINE Goal == \E v \in Worker : Owes(v, r)'
<1>1. ASSUME NEW w \in Worker, Step(w) PROVE Goal
  <2>1. CASE CheckMode(w) BY <2>1 DEF CheckMode
  <2>2. CASE ReadExisting(w) BY <2>2 DEF ReadExisting
  <2>3. CASE Upsert(w) BY <2>3 DEF Upsert
  <2>4. CASE MarkPending(w) BY <2>4 DEF MarkPending
  <2>5. CASE Acquire(w) BY <2>5 DEF Acquire
  <2>6. CASE Render(w) BY <2>6 DEF Render
  <2>7. CASE Install(w) BY <2>7 DEF Install, LockInv, Critical
  <2>8. CASE WriteConf(w) BY <2>8 DEF WriteConf
  <2>9. CASE Finish(w) BY <2>9 DEF Finish
  <2>10. CASE Fail(w) BY <2>10 DEF Fail
  <2> QED BY <1>1, <2>1, <2>2, <2>3, <2>4, <2>5, <2>6, <2>7, <2>8, <2>9, <2>10 DEF Step
<1>2. ASSUME NEW w \in Worker, Command(w) PROVE Goal
  <2>1. ASSUME NEW e \in Entry, StartIngest(w, e) PROVE Goal BY <2>1 DEF StartIngest
  <2>2. ASSUME NEW e \in Entry, StartAllow(w, e) PROVE Goal BY <2>2 DEF StartAllow
  <2>3. ASSUME NEW e \in Entry, Remove(w, e) PROVE Goal BY <2>3 DEF Remove
  <2>4. ASSUME NEW e \in Entry, Repair(w, e) PROVE Goal BY <2>4 DEF Repair
  <2>5. CASE Apply(w) BY <2>5 DEF Apply
  <2>6. CASE Retry(w) BY <2>6 DEF Retry
  <2>7. ASSUME NEW m \in {"regular", "attack"}, SetMode(w, m) PROVE Goal
    BY <2>7 DEF SetMode
  <2> QED BY <1>2, <2>1, <2>2, <2>3, <2>4, <2>5, <2>6, <2>7 DEF Command
<1>3. ASSUME NEW w \in Worker, Failure(w) PROVE Goal
  <2>1. CASE InstallFails(w) BY <2>1 DEF InstallFails, LeftBy
  <2>2. CASE WriteConfFails(w) BY <2>2 DEF WriteConfFails
  <2>3. CASE Kill(w) BY <2>3 DEF Kill, LeftBy
  <2> QED BY <1>3, <2>1, <2>2, <2>3 DEF Failure
<1>4. CASE ThrottleOver BY <1>4 DEF ThrottleOver
<1>5. CASE Reboot BY <1>5 DEF Reboot
<1>6. ASSUME NEW e \in Entry, Expire(e) PROVE Goal BY <1>6 DEF Expire, FaultHappens
<1>7. CASE UNCHANGED vars BY <1>7 DEF vars
<1> QED BY <1>1, <1>2, <1>3, <1>4, <1>5, <1>6, <1>7 DEF Next

(* A row on which table and database disagree is always either about to be *)
(* put right by a process under way, or stale for a recorded cause.        *)
THEOREM AlwaysExplained == Spec => []DivergenceExplained
BY ExplainedInit, ExplainedStep, TypeCorrect, LockSafe, PTL DEF Spec
-----------------------------------------------------------------------------
(* Between installing and persisting, the table is still the text of the   *)
(* lock holder; with it BootMatchesLive is inductive.                      *)
BootInv ==
  /\ BootMatchesLive
  /\ \A w \in Worker : pc[w] = "conf" => live = text[w]

(* At first the file of the next boot is the table. *)
LEMMA BootInit == Init => BootInv
BY DEF Init, BootInv, BootMatchesLive

(* Who has installed persists the same text before it unlocks. *)
LEMMA BootStep == TypeOK /\ LockInv /\ BootInv /\ [Next]_vars => BootInv'
<1> SUFFICES ASSUME TypeOK, LockInv, BootInv, [Next]_vars PROVE BootInv'
  OBVIOUS
<1> USE ConstantsAssumption DEF TypeOK, LockInv, Critical, BootInv, BootMatchesLive,
        db, kernel, local, history, Goto, Start, Rest, Unlock
<1>1. ASSUME NEW w \in Worker, Step(w) PROVE BootInv'
  <2>1. CASE CheckMode(w) BY <2>1 DEF CheckMode
  <2>2. CASE ReadExisting(w) BY <2>2 DEF ReadExisting
  <2>3. CASE Upsert(w) BY <2>3 DEF Upsert
  <2>4. CASE MarkPending(w) BY <2>4 DEF MarkPending
  <2>5. CASE Acquire(w) BY <2>5 DEF Acquire
  <2>6. CASE Render(w) BY <2>6 DEF Render
  <2>7. CASE Install(w) BY <2>7 DEF Install
  <2>8. CASE WriteConf(w) BY <2>8 DEF WriteConf
  <2>9. CASE Finish(w) BY <2>9 DEF Finish
  <2>10. CASE Fail(w) BY <2>10 DEF Fail
  <2> QED BY <1>1, <2>1, <2>2, <2>3, <2>4, <2>5, <2>6, <2>7, <2>8, <2>9, <2>10 DEF Step
<1>2. ASSUME NEW w \in Worker, Command(w) PROVE BootInv'
  <2>1. ASSUME NEW e \in Entry, StartIngest(w, e) PROVE BootInv' BY <2>1 DEF StartIngest
  <2>2. ASSUME NEW e \in Entry, StartAllow(w, e) PROVE BootInv' BY <2>2 DEF StartAllow
  <2>3. ASSUME NEW e \in Entry, Remove(w, e) PROVE BootInv' BY <2>3 DEF Remove
  <2>4. ASSUME NEW e \in Entry, Repair(w, e) PROVE BootInv' BY <2>4 DEF Repair
  <2>5. CASE Apply(w) BY <2>5 DEF Apply
  <2>6. CASE Retry(w) BY <2>6 DEF Retry
  <2>7. ASSUME NEW m \in {"regular", "attack"}, SetMode(w, m) PROVE BootInv'
    BY <2>7 DEF SetMode
  <2> QED BY <1>2, <2>1, <2>2, <2>3, <2>4, <2>5, <2>6, <2>7 DEF Command
<1>3. ASSUME NEW w \in Worker, Failure(w) PROVE BootInv'
  <2>1. CASE InstallFails(w) BY <2>1 DEF InstallFails
  <2>2. CASE WriteConfFails(w) BY <2>2 DEF WriteConfFails
  <2>3. CASE Kill(w) BY <2>3 DEF Kill
  <2> QED BY <1>3, <2>1, <2>2, <2>3 DEF Failure
<1>4. CASE ThrottleOver BY <1>4 DEF ThrottleOver
<1>5. CASE Reboot BY <1>5 DEF Reboot
<1>6. ASSUME NEW e \in Entry, Expire(e) PROVE BootInv' BY <1>6 DEF Expire
<1>7. CASE UNCHANGED vars BY <1>7 DEF vars
<1> QED BY <1>1, <1>2, <1>3, <1>4, <1>5, <1>6, <1>7 DEF Next

(* The next boot loads the running table, or a process has been stopped    *)
(* between installing and persisting and nothing was applied since.        *)
THEOREM BootSafe == Spec => []BootMatchesLive
<1>1. Spec => []BootInv
  BY BootInit, BootStep, TypeCorrect, LockSafe, PTL DEF Spec
<1>2. BootInv => BootMatchesLive BY DEF BootInv
<1> QED BY <1>1, <1>2, PTL
-----------------------------------------------------------------------------
(* Rows admitted, or about to be, that the database no longer allows. *)
Leaks(e) ==
  \/ e \in live \ allow
  \/ \E w \in Worker : pc[w] = "install" /\ e \in text[w] \ allow

(* RevokedIsDropped looks at the installed table only; a rendered text may *)
(* be overtaken by a removal as well, and the invariant has to say so.     *)
RevokedInv ==
  faults = 0 =>
    \A e \in Entry : Leaks(e) => \E w \in Worker : Owes(w, e)

(* At first no row is admitted that the allow list lacks. *)
LEMMA RevokedInit == Init => RevokedInv
BY DEF Init, RevokedInv, Leaks

(* A removal is followed by the apply that its process owes. *)
LEMMA RevokedStep == TypeOK /\ LockInv /\ RevokedInv /\ [Next]_vars => RevokedInv'
<1> SUFFICES ASSUME TypeOK, LockInv, RevokedInv, [Next]_vars,
                    faults' = 0, NEW r \in Entry, Leaks(r)'
             PROVE  \E v \in Worker : Owes(v, r)'
  BY DEF RevokedInv
<1> USE ConstantsAssumption DEF TypeOK, RevokedInv, Leaks, Owes,
        db, kernel, local, history, Goto, Start, Rest, Unlock
<1> DEFINE Goal == \E v \in Worker : Owes(v, r)'
<1>1. ASSUME NEW w \in Worker, Step(w) PROVE Goal
  <2>1. CASE CheckMode(w) BY <2>1 DEF CheckMode
  <2>2. CASE ReadExisting(w) BY <2>2 DEF ReadExisting
  <2>3. CASE Upsert(w) BY <2>3 DEF Upsert
  <2>4. CASE MarkPending(w) BY <2>4 DEF MarkPending
  <2>5. CASE Acquire(w) BY <2>5 DEF Acquire
  <2>6. CASE Render(w) BY <2>6 DEF Render
  <2>7. CASE Install(w) BY <2>7 DEF Install, LockInv, Critical
  <2>8. CASE WriteConf(w) BY <2>8 DEF WriteConf
  <2>9. CASE Finish(w) BY <2>9 DEF Finish
  <2>10. CASE Fail(w) BY <2>10 DEF Fail
  <2> QED BY <1>1, <2>1, <2>2, <2>3, <2>4, <2>5, <2>6, <2>7, <2>8, <2>9, <2>10 DEF Step
<1>2. ASSUME NEW w \in Worker, Command(w) PROVE Goal
  <2>1. ASSUME NEW e \in Entry, StartIngest(w, e) PROVE Goal BY <2>1 DEF StartIngest
  <2>2. ASSUME NEW e \in Entry, StartAllow(w, e) PROVE Goal BY <2>2 DEF StartAllow
  <2>3. ASSUME NEW e \in Entry, Remove(w, e) PROVE Goal BY <2>3 DEF Remove
  <2>4. ASSUME NEW e \in Entry, Repair(w, e) PROVE Goal BY <2>4 DEF Repair
  <2>5. CASE Apply(w) BY <2>5 DEF Apply
  <2>6. CASE Retry(w) BY <2>6 DEF Retry
  <2>7. ASSUME NEW m \in {"regular", "attack"}, SetMode(w, m) PROVE Goal
    BY <2>7 DEF SetMode
  <2> QED BY <1>2, <2>1, <2>2, <2>3, <2>4, <2>5, <2>6, <2>7 DEF Command
<1>3. ASSUME NEW w \in Worker, Failure(w) PROVE Goal
  <2>1. CASE InstallFails(w) BY <2>1 DEF InstallFails, FaultHappens
  <2>2. CASE WriteConfFails(w) BY <2>2 DEF WriteConfFails, FaultHappens
  <2>3. CASE Kill(w) BY <2>3 DEF Kill, FaultHappens
  <2> QED BY <1>3, <2>1, <2>2, <2>3 DEF Failure
<1>4. CASE ThrottleOver BY <1>4 DEF ThrottleOver
<1>5. CASE Reboot BY <1>5 DEF Reboot, FaultHappens
<1>6. ASSUME NEW e \in Entry, Expire(e) PROVE Goal BY <1>6 DEF Expire, FaultHappens
<1>7. CASE UNCHANGED vars BY <1>7 DEF vars
<1> QED BY <1>1, <1>2, <1>3, <1>4, <1>5, <1>6, <1>7 DEF Next

(* As long as nothing has failed or expired, a removed source stays        *)
(* admitted only while a process that will drop it is still under way.     *)
THEOREM RevokedSafe == Spec => []RevokedIsDropped
<1>1. Spec => []RevokedInv
  BY RevokedInit, RevokedStep, TypeCorrect, LockSafe, PTL DEF Spec
<1>2. TypeOK /\ RevokedInv => RevokedIsDropped
  BY DEF TypeOK, RevokedInv, Leaks, RevokedIsDropped
<1> QED BY <1>1, <1>2, TypeCorrect, PTL
-----------------------------------------------------------------------------
(* The relay starts as the mirror does. *)
LEMMA MirrorInit == Init => Mirror!Init
BY ConstantsAssumption DEF Init, Mirror!Init, OnItsWay

(* A step of the relay is one of the mirror, or leaves it alone. *)
LEMMA MirrorStep ==
  TypeOK /\ LockInv /\ BootInv /\ [Next]_vars => [Mirror!Next]_(Mirror!mirrorVars)
<1> SUFFICES ASSUME TypeOK, LockInv, BootInv, [Next]_vars,
                    ~ UNCHANGED Mirror!mirrorVars
             PROVE  Mirror!Next
  OBVIOUS
<1> USE ConstantsAssumption DEF TypeOK, LockInv, Critical, BootInv, OnItsWay,
        Mirror!mirrorVars, Mirror!Next, Mirror!Commit, Mirror!Shoot, Mirror!Publish,
        Mirror!Save, Mirror!Discard, Mirror!Boot,
        db, kernel, local, history, Goto, Start, Rest, Unlock
<1>1. ASSUME NEW w \in Worker, Step(w) PROVE Mirror!Next
  <2>1. CASE CheckMode(w) BY <2>1 DEF CheckMode
  <2>2. CASE ReadExisting(w) BY <2>2 DEF ReadExisting
  <2>3. CASE Upsert(w) BY <2>3 DEF Upsert
  <2>4. CASE MarkPending(w) BY <2>4 DEF MarkPending
  <2>5. CASE Acquire(w) BY <2>5 DEF Acquire
  <2>6. CASE Render(w) BY <2>6 DEF Render
  <2>7. CASE Install(w)
    <3>1. lock = w /\ OnItsWay = text[w] /\ text[w] # None BY <2>7 DEF Install
    <3>2. OnItsWay' = text[w] BY <2>7, <3>1 DEF Install
    <3>3. Mirror!Publish BY <2>7, <3>1, <3>2 DEF Install
    <3> QED BY <3>3
  <2>8. CASE WriteConf(w)
    <3>1. lock = w /\ OnItsWay = text[w] /\ text[w] # None BY <2>8 DEF WriteConf
    <3>2. OnItsWay' = None BY <2>8, <3>1 DEF WriteConf
    <3>3. Mirror!Save BY <2>8, <3>1, <3>2 DEF WriteConf
    <3> QED BY <3>3
  <2>9. CASE Finish(w) BY <2>9 DEF Finish
  <2>10. CASE Fail(w) BY <2>10 DEF Fail
  <2> QED BY <1>1, <2>1, <2>2, <2>3, <2>4, <2>5, <2>6, <2>7, <2>8, <2>9, <2>10 DEF Step
<1>2. ASSUME NEW w \in Worker, Command(w) PROVE Mirror!Next
  <2>1. ASSUME NEW e \in Entry, StartIngest(w, e) PROVE Mirror!Next BY <2>1 DEF StartIngest
  <2>2. ASSUME NEW e \in Entry, StartAllow(w, e) PROVE Mirror!Next BY <2>2 DEF StartAllow
  <2>3. ASSUME NEW e \in Entry, Remove(w, e) PROVE Mirror!Next BY <2>3 DEF Remove
  <2>4. ASSUME NEW e \in Entry, Repair(w, e) PROVE Mirror!Next BY <2>4 DEF Repair
  <2>5. CASE Apply(w) BY <2>5 DEF Apply
  <2>6. CASE Retry(w) BY <2>6 DEF Retry
  <2>7. ASSUME NEW m \in {"regular", "attack"}, SetMode(w, m) PROVE Mirror!Next
    BY <2>7 DEF SetMode
  <2> QED BY <1>2, <2>1, <2>2, <2>3, <2>4, <2>5, <2>6, <2>7 DEF Command
<1>3. ASSUME NEW w \in Worker, Failure(w) PROVE Mirror!Next
  <2>1. CASE InstallFails(w)
    <3>1. lock = w /\ OnItsWay = text[w] /\ text[w] # None BY <2>1 DEF InstallFails
    <3>2. OnItsWay' = None BY <2>1, <3>1 DEF InstallFails
    <3>3. CASE UNCHANGED <<live, torn>>
      BY <2>1, <3>2, <3>3 DEF InstallFails
    <3>4. CASE live' = text[w] /\ torn' = TRUE
      BY <2>1, <3>1, <3>2, <3>4 DEF InstallFails
    <3> QED BY <2>1, <3>3, <3>4 DEF InstallFails
  <2>2. CASE WriteConfFails(w) BY <2>2 DEF WriteConfFails
  <2>3. CASE Kill(w) BY <2>3 DEF Kill
  <2> QED BY <1>3, <2>1, <2>2, <2>3 DEF Failure
<1>4. CASE ThrottleOver BY <1>4 DEF ThrottleOver
<1>5. CASE Reboot BY <1>5 DEF Reboot
<1>6. ASSUME NEW e \in Entry, Expire(e) PROVE Mirror!Next BY <1>6 DEF Expire
<1>7. CASE UNCHANGED vars BY <1>7 DEF vars
<1> QED BY <1>1, <1>2, <1>3, <1>4, <1>5, <1>6, <1>7 DEF Next

(* The relay with all its processes and faults implements the lagging      *)
(* mirror: every table ever installed is the allow list of one instant, in *)
(* order, and the next boot loads one that was installed.                  *)
THEOREM MirrorImplemented == Spec => ImplementsMirror
<1>1. Spec => []BootInv
  BY BootInit, BootStep, TypeCorrect, LockSafe, PTL DEF Spec
<1> QED
  BY <1>1, MirrorInit, MirrorStep, TypeCorrect, LockSafe, PTL
     DEF Spec, ImplementsMirror, Mirror!Spec
=============================================================================
