------------------------- MODULE RefreshRotationProofs -------------------------
(***************************************************************************)
(* Machine-checked facts about RefreshRotation for any number of requests, *)
(* with every failure and expiry allowed.                                  *)
(*                                                                         *)
(* OnePairPerToken is not inductive: it depends on what the requests still *)
(* in flight have read.  IInv adds, for each value of pc, what its request *)
(* knows (Progress), and that snapshots name a committed generation.       *)
(***************************************************************************)
EXTENDS RefreshRotation, TLAPS

\* What a client holds was committed by a rotation.
HeldCommitted == \A t \in held : gen[t] # Unborn

\* A snapshot pairs a token with the generation it was committed at.
SnapFaithful ==
  \A r \in Request : snap[r] # NoSnap =>
    /\ snap[r].hash \in Token
    /\ gen[snap[r].hash] = snap[r].version

\* What each request has established when it reaches its next await.
Progress ==
  \A r \in Request :
    /\ pc[r] = "idle" => presented[r] = None
    /\ pc[r] # "idle" => presented[r] \in Token /\ gen[presented[r]] # Unborn
    /\ pc[r] \in {"idle", "read"} => snap[r] = NoSnap
    /\ pc[r] \in {"lookup", "revoke", "rotate", "remember"} => snap[r] # NoSnap
    /\ pc[r] \in {"rotate", "remember"} => presented[r] = snap[r].hash
    /\ pc[r] \in {"idle", "read", "lookup", "revoke", "rotate"} => gen[r] = Unborn
    /\ pc[r] = "remember" => gen[r] = snap[r].version + 1
    /\ given[r] # None => /\ pc[r] \in {"release", "done"}
                          /\ given[r] \in Token
                          /\ snap[r] # NoSnap

IInv ==
  /\ TypeOK
  /\ LineageLinear
  /\ ReplayFaithful
  /\ HeldCommitted
  /\ SnapFaithful
  /\ Progress
  /\ AnswersAreSuccessors
  /\ AnswersAreCurrent

\* A token is the first one of the session or the one some request signed, never both.
LEMMA TokensDistinct ==
  /\ None \notin Token
  /\ Root \in Token
  /\ Request \subseteq Token
  /\ None \notin Request
  /\ Root \notin Request
  BY RotationAssumption DEF Token

\* The initial states satisfy the inductive invariant.
LEMMA InitIInv == Init => IInv
<1> SUFFICES ASSUME Init PROVE IInv
  OBVIOUS
<1> USE TokensDistinct DEF Init, NoSnap, NoRecord, Unborn
<1>1. TypeOK
  BY DEF TypeOK, Outcome
<1>2. LineageLinear
  BY DEF LineageLinear
<1>3. ReplayFaithful
  BY DEF ReplayFaithful
<1>4. HeldCommitted
  BY DEF HeldCommitted
<1>5. SnapFaithful
  BY DEF SnapFaithful
<1>6. Progress
  BY DEF Progress
<1>7. AnswersAreSuccessors
  BY DEF AnswersAreSuccessors
<1>8. AnswersAreCurrent
  BY DEF AnswersAreCurrent
<1>9. QED
  BY <1>1, <1>2, <1>3, <1>4, <1>5, <1>6, <1>7, <1>8 DEF IInv

\* Acquire preserves the inductive invariant.
LEMMA AcquireIInv ==
  ASSUME IInv, NEW r \in Request, NEW t \in Token, Acquire(r, t)
  PROVE  IInv'
<1> USE TokensDistinct DEF IInv, Acquire, Goto, NoSnap, NoRecord, Unborn, history
<1>1. TypeOK'
  BY DEF TypeOK, Working, Outcome
<1>2. LineageLinear'
  BY DEF LineageLinear
<1>3. ReplayFaithful'
  BY DEF ReplayFaithful
<1>4. HeldCommitted'
  BY DEF HeldCommitted
<1>5. SnapFaithful'
  BY DEF SnapFaithful
<1>6. Progress'
  BY DEF TypeOK, HeldCommitted, Progress
<1>7. AnswersAreSuccessors'
  BY DEF Progress, AnswersAreSuccessors
<1>8. AnswersAreCurrent'
  BY DEF Progress, AnswersAreCurrent
<1>9. QED
  BY <1>1, <1>2, <1>3, <1>4, <1>5, <1>6, <1>7, <1>8

\* Read preserves the inductive invariant.
LEMMA ReadIInv ==
  ASSUME IInv, NEW r \in Request, Read(r)
  PROVE  IInv'
<1> USE TokensDistinct DEF IInv, Read, Goto, Decide, NoSnap, NoRecord, Unborn, history
<1>1. TypeOK'
  <2>0. [hash |-> row.hash, version |-> row.version]
          \in [hash : Token \cup {None}, version : Nat]
    BY DEF TypeOK
  <2>1. CASE SessionActive
    <3>1. snap' \in [Request -> [hash : Token \cup {None}, version : Nat]]
      BY <2>0, <2>1 DEF TypeOK
    <3>2. pc' \in [Request -> Working \cup {"idle", "release", "done"}]
      BY <2>1 DEF TypeOK, Working
    <3>3. QED
      BY <2>1, <3>1, <3>2 DEF TypeOK
  <2>2. CASE ~SessionActive
    BY <2>2 DEF TypeOK, Outcome
  <2>3. QED
    BY <2>1, <2>2
<1>2. LineageLinear'
  BY DEF LineageLinear
<1>3. ReplayFaithful'
  BY DEF ReplayFaithful
<1>4. HeldCommitted'
  BY DEF HeldCommitted
<1>5. SnapFaithful'
  BY DEF TypeOK, LineageLinear, SnapFaithful
<1>6. Progress'
  BY DEF TypeOK, Progress
<1>7. AnswersAreSuccessors'
  BY DEF TypeOK, Progress, AnswersAreSuccessors
<1>8. AnswersAreCurrent'
  BY DEF TypeOK, Progress, AnswersAreCurrent
<1>9. QED
  BY <1>1, <1>2, <1>3, <1>4, <1>5, <1>6, <1>7, <1>8

\* Lookup preserves the inductive invariant.
LEMMA LookupIInv ==
  ASSUME IInv, NEW r \in Request, Lookup(r)
  PROVE  IInv'
<1> USE TokensDistinct DEF IInv, Lookup, Raced, Goto, Decide, NoSnap, NoRecord, Unborn, history
<1>0. Raced(r) =>
        /\ replay[presented[r]].token \in Token
        /\ gen[presented[r]] # Unborn
        /\ gen[replay[presented[r]].token] = gen[presented[r]] + 1
        /\ gen[replay[presented[r]].token] = snap[r].version
  BY DEF TypeOK, ReplayFaithful, Progress
<1>1. TypeOK'
  BY <1>0 DEF TypeOK, Working, Outcome
<1>2. LineageLinear'
  BY DEF LineageLinear
<1>3. ReplayFaithful'
  BY DEF ReplayFaithful
<1>4. HeldCommitted'
  BY DEF HeldCommitted
<1>5. SnapFaithful'
  BY DEF SnapFaithful
<1>6. Progress'
  BY <1>0 DEF TypeOK, Progress
<1>7. AnswersAreSuccessors'
  BY <1>0 DEF TypeOK, AnswersAreSuccessors
<1>8. AnswersAreCurrent'
  BY <1>0 DEF TypeOK, AnswersAreCurrent
<1>9. QED
  BY <1>1, <1>2, <1>3, <1>4, <1>5, <1>6, <1>7, <1>8

\* RevokeReused preserves the inductive invariant.
LEMMA RevokeReusedIInv ==
  ASSUME IInv, NEW r \in Request, RevokeReused(r)
  PROVE  IInv'
<1> USE TokensDistinct DEF IInv, RevokeReused, Decide, Goto, NoSnap, NoRecord, Unborn, history
<1>1. TypeOK'
  BY DEF TypeOK, Working, Outcome
<1>2. LineageLinear'
  BY DEF LineageLinear
<1>3. ReplayFaithful'
  BY DEF ReplayFaithful
<1>4. HeldCommitted'
  BY DEF HeldCommitted
<1>5. SnapFaithful'
  BY DEF SnapFaithful
<1>6. Progress'
  BY DEF Progress
<1>7. AnswersAreSuccessors'
  BY DEF AnswersAreSuccessors
<1>8. AnswersAreCurrent'
  BY DEF AnswersAreCurrent
<1>9. QED
  BY <1>1, <1>2, <1>3, <1>4, <1>5, <1>6, <1>7, <1>8

\* Rotate preserves the inductive invariant.
LEMMA RotateIInv ==
  ASSUME IInv, NEW r \in Request, Rotate(r)
  PROVE  IInv'
<1> USE TokensDistinct DEF IInv, Rotate, Goto, Decide, NoSnap, NoRecord, Unborn, history
<1>a. CASE ~RotationMatches(r)
  <2> USE <1>a
  <2>1. TypeOK'
    BY DEF TypeOK, Working, Outcome
  <2>2. LineageLinear'
    BY DEF LineageLinear
  <2>3. ReplayFaithful'
    BY DEF ReplayFaithful
  <2>4. HeldCommitted'
    BY DEF HeldCommitted
  <2>5. SnapFaithful'
    BY DEF SnapFaithful
  <2>6. Progress'
    BY DEF TypeOK, Progress
  <2>7. AnswersAreSuccessors'
    BY DEF TypeOK, AnswersAreSuccessors
  <2>8. AnswersAreCurrent'
    BY DEF TypeOK, AnswersAreCurrent
  <2>9. QED
    BY <2>1, <2>2, <2>3, <2>4, <2>5, <2>6, <2>7, <2>8
<1>b. CASE RotationMatches(r)
  <2> USE <1>b
  <2>a. /\ row' = Rotated(r)
        /\ gen' = [gen EXCEPT ![r] = row.version + 1]
        /\ pc' = [pc EXCEPT ![r] = "remember"]
        /\ UNCHANGED <<lock, replay, presented, snap, outcome, given, held>>
    OBVIOUS
  <2>b. /\ row'.hash = r
        /\ row'.version = row.version + 1
        /\ row'.revoked = row.revoked
        /\ row' \in [hash : Token, version : Nat, revoked : BOOLEAN, expired : BOOLEAN]
    <3> HIDE DEF IInv, Rotate
    <3>1. row \in [hash : Token, version : Nat, revoked : BOOLEAN, expired : BOOLEAN]
      BY DEF IInv, TypeOK
    <3>2. row' = [row EXCEPT !.hash = r, !.version = row.version + 1, !.expired = FALSE]
      BY <2>a DEF Rotated
    <3>3. row.version + 1 \in Nat /\ r \in Token
      BY <3>1
    <3>4. QED
      BY <3>1, <3>2, <3>3
  <2>c. /\ gen[r] = Unborn
        /\ presented[r] = snap[r].hash
        /\ snap[r] # NoSnap
        /\ row.version = snap[r].version
    BY DEF Progress, RotationMatches
  <2>d. /\ row.version \in Nat
        /\ gen'[r] = row.version + 1
        /\ \A t \in Token \ {r} : gen'[t] = gen[t]
        /\ \A t \in Token : gen[t] # Unborn => gen'[t] = gen[t]
    BY <2>a, <2>c DEF TypeOK
  <2>1. TypeOK'
    BY <2>a, <2>b, <2>d DEF TypeOK, Working
  <2>2. LineageLinear'
    <3>1. /\ gen \in [Token -> Nat \cup {Unborn}]
          /\ \A t \in Token : gen[t] <= row.version
          /\ \A t, u \in Token : gen[t] = gen[u] /\ gen[t] # Unborn => t = u
      BY DEF TypeOK, LineageLinear
    <3> HIDE DEF IInv, Rotate, NoSnap, NoRecord
    <3>2. \A t \in Token \ {r} : gen'[t] # gen'[r] /\ gen'[t] <= row'.version
      BY <2>b, <2>d, <3>1
    <3>3. gen'[row'.hash] = row'.version
      BY <2>b, <2>d
    <3>4. QED
      BY <2>b, <2>d, <3>1, <3>2, <3>3 DEF LineageLinear
  <2>3. ReplayFaithful'
    BY <2>a, <2>d DEF TypeOK, ReplayFaithful
  <2>4. HeldCommitted'
    BY <2>a, <2>d DEF TypeOK, HeldCommitted
  <2>5. SnapFaithful'
    BY <2>a, <2>d DEF TypeOK, SnapFaithful
  <2>6. Progress'
    BY <2>a, <2>c, <2>d DEF TypeOK, Progress
  <2>7. AnswersAreSuccessors'
    BY <2>a, <2>d DEF TypeOK, AnswersAreSuccessors, Progress
  <2>8. AnswersAreCurrent'
    BY <2>a, <2>d DEF TypeOK, AnswersAreCurrent, Progress
  <2>9. QED
    BY <2>1, <2>2, <2>3, <2>4, <2>5, <2>6, <2>7, <2>8
<1>c. QED
  BY <1>a, <1>b

\* Remember preserves the inductive invariant.
LEMMA RememberIInv ==
  ASSUME IInv, NEW r \in Request, Remember(r)
  PROVE  IInv'
<1> USE TokensDistinct DEF IInv, Remember, ReplayRecord, Goto, Decide, NoSnap, NoRecord, Unborn,
history
<1>0. /\ snap[r].version \in Nat
      /\ gen[presented[r]] = snap[r].version
      /\ gen[r] = snap[r].version + 1
      /\ presented[r] \in Token
  BY DEF TypeOK, SnapFaithful, Progress
<1>1. TypeOK'
  BY <1>0 DEF TypeOK, Outcome
<1>2. LineageLinear'
  BY DEF LineageLinear
<1>3. ReplayFaithful'
  BY <1>0 DEF TypeOK, ReplayFaithful
<1>4. HeldCommitted'
  BY DEF HeldCommitted
<1>5. SnapFaithful'
  BY DEF SnapFaithful
<1>6. Progress'
  BY <1>0 DEF TypeOK, Progress
<1>7. AnswersAreSuccessors'
  BY <1>0 DEF TypeOK, AnswersAreSuccessors
<1>8. AnswersAreCurrent'
  BY <1>0 DEF TypeOK, AnswersAreCurrent
<1>9. QED
  BY <1>1, <1>2, <1>3, <1>4, <1>5, <1>6, <1>7, <1>8

\* Release preserves the inductive invariant.
LEMMA ReleaseIInv ==
  ASSUME IInv, NEW r \in Request, Release(r)
  PROVE  IInv'
<1> USE TokensDistinct DEF IInv, Release, LockReleased, Goto, NoSnap, NoRecord, Unborn, history
<1>1. TypeOK'
  BY DEF TypeOK, Working, Outcome
<1>2. LineageLinear'
  BY DEF LineageLinear
<1>3. ReplayFaithful'
  BY DEF ReplayFaithful
<1>4. HeldCommitted'
  BY DEF TypeOK, HeldCommitted, Progress, AnswersAreSuccessors
<1>5. SnapFaithful'
  BY DEF SnapFaithful
<1>6. Progress'
  BY DEF Progress
<1>7. AnswersAreSuccessors'
  BY DEF AnswersAreSuccessors
<1>8. AnswersAreCurrent'
  BY DEF AnswersAreCurrent
<1>9. QED
  BY <1>1, <1>2, <1>3, <1>4, <1>5, <1>6, <1>7, <1>8

\* Fail preserves the inductive invariant.
LEMMA FailIInv ==
  ASSUME IInv, NEW r \in Request, Fail(r)
  PROVE  IInv'
<1> USE TokensDistinct DEF IInv, Fail, Decide, Goto, Working, NoSnap, NoRecord, Unborn, history
<1>1. TypeOK'
  BY DEF TypeOK, Working, Outcome
<1>2. LineageLinear'
  BY DEF LineageLinear
<1>3. ReplayFaithful'
  BY DEF ReplayFaithful
<1>4. HeldCommitted'
  BY DEF HeldCommitted
<1>5. SnapFaithful'
  BY DEF SnapFaithful
<1>6. Progress'
  BY DEF Progress
<1>7. AnswersAreSuccessors'
  BY DEF AnswersAreSuccessors
<1>8. AnswersAreCurrent'
  BY DEF AnswersAreCurrent
<1>9. QED
  BY <1>1, <1>2, <1>3, <1>4, <1>5, <1>6, <1>7, <1>8

\* Crash preserves the inductive invariant.
LEMMA CrashIInv ==
  ASSUME IInv, NEW r \in Request, Crash(r)
  PROVE  IInv'
<1> USE TokensDistinct DEF IInv, Crash, Goto, Working, NoSnap, NoRecord, Unborn, history
<1>1. TypeOK'
  BY DEF TypeOK, Working, Outcome
<1>2. LineageLinear'
  BY DEF LineageLinear
<1>3. ReplayFaithful'
  BY DEF ReplayFaithful
<1>4. HeldCommitted'
  BY DEF HeldCommitted
<1>5. SnapFaithful'
  BY DEF SnapFaithful
<1>6. Progress'
  BY DEF Progress
<1>7. AnswersAreSuccessors'
  BY DEF AnswersAreSuccessors
<1>8. AnswersAreCurrent'
  BY DEF AnswersAreCurrent
<1>9. QED
  BY <1>1, <1>2, <1>3, <1>4, <1>5, <1>6, <1>7, <1>8

\* LockExpires preserves the inductive invariant.
LEMMA LockExpiresIInv ==
  ASSUME IInv, LockExpires
  PROVE  IInv'
<1> USE TokensDistinct DEF IInv, LockExpires, NoSnap, NoRecord, Unborn, history
<1>1. TypeOK'
  BY DEF TypeOK, Working, Outcome
<1>2. LineageLinear'
  BY DEF LineageLinear
<1>3. ReplayFaithful'
  BY DEF ReplayFaithful
<1>4. HeldCommitted'
  BY DEF HeldCommitted
<1>5. SnapFaithful'
  BY DEF SnapFaithful
<1>6. Progress'
  BY DEF Progress
<1>7. AnswersAreSuccessors'
  BY DEF AnswersAreSuccessors
<1>8. AnswersAreCurrent'
  BY DEF AnswersAreCurrent
<1>9. QED
  BY <1>1, <1>2, <1>3, <1>4, <1>5, <1>6, <1>7, <1>8

\* GraceExpires preserves the inductive invariant.
LEMMA GraceExpiresIInv ==
  ASSUME IInv, NEW t \in Token, GraceExpires(t)
  PROVE  IInv'
<1> USE TokensDistinct DEF IInv, GraceExpires, NoSnap, NoRecord, Unborn, history
<1>1. TypeOK'
  BY DEF TypeOK, Working, Outcome
<1>2. LineageLinear'
  BY DEF LineageLinear
<1>3. ReplayFaithful'
  BY DEF ReplayFaithful
<1>4. HeldCommitted'
  BY DEF HeldCommitted
<1>5. SnapFaithful'
  BY DEF SnapFaithful
<1>6. Progress'
  BY DEF Progress
<1>7. AnswersAreSuccessors'
  BY DEF AnswersAreSuccessors
<1>8. AnswersAreCurrent'
  BY DEF AnswersAreCurrent
<1>9. QED
  BY <1>1, <1>2, <1>3, <1>4, <1>5, <1>6, <1>7, <1>8

\* RevokedElsewhere preserves the inductive invariant.
LEMMA RevokedElsewhereIInv ==
  ASSUME IInv, RevokedElsewhere
  PROVE  IInv'
<1> USE TokensDistinct DEF IInv, RevokedElsewhere, NoSnap, NoRecord, Unborn, history
<1>1. TypeOK'
  BY DEF TypeOK, Working, Outcome
<1>2. LineageLinear'
  BY DEF LineageLinear
<1>3. ReplayFaithful'
  BY DEF ReplayFaithful
<1>4. HeldCommitted'
  BY DEF HeldCommitted
<1>5. SnapFaithful'
  BY DEF SnapFaithful
<1>6. Progress'
  BY DEF Progress
<1>7. AnswersAreSuccessors'
  BY DEF AnswersAreSuccessors
<1>8. AnswersAreCurrent'
  BY DEF AnswersAreCurrent
<1>9. QED
  BY <1>1, <1>2, <1>3, <1>4, <1>5, <1>6, <1>7, <1>8

\* SessionExpires preserves the inductive invariant.
LEMMA SessionExpiresIInv ==
  ASSUME IInv, SessionExpires
  PROVE  IInv'
<1> USE TokensDistinct DEF IInv, SessionExpires, NoSnap, NoRecord, Unborn, history
<1>1. TypeOK'
  BY DEF TypeOK, Working, Outcome
<1>2. LineageLinear'
  BY DEF LineageLinear
<1>3. ReplayFaithful'
  BY DEF ReplayFaithful
<1>4. HeldCommitted'
  BY DEF HeldCommitted
<1>5. SnapFaithful'
  BY DEF SnapFaithful
<1>6. Progress'
  BY DEF Progress
<1>7. AnswersAreSuccessors'
  BY DEF AnswersAreSuccessors
<1>8. AnswersAreCurrent'
  BY DEF AnswersAreCurrent
<1>9. QED
  BY <1>1, <1>2, <1>3, <1>4, <1>5, <1>6, <1>7, <1>8

\* Every step preserves the inductive invariant.
LEMMA NextIInv == IInv /\ [Next]_vars => IInv'
<1> SUFFICES ASSUME IInv, [Next]_vars PROVE IInv'
  OBVIOUS
<1>1. CASE Next
  BY <1>1, AcquireIInv, ReadIInv, LookupIInv, RevokeReusedIInv, RotateIInv, RememberIInv,
       ReleaseIInv, FailIInv, CrashIInv, LockExpiresIInv, GraceExpiresIInv, RevokedElsewhereIInv,
       SessionExpiresIInv DEF Next, Step
<1>2. CASE UNCHANGED vars
  BY <1>2 DEF vars, IInv, TypeOK, LineageLinear, ReplayFaithful, HeldCommitted,
              SnapFaithful, Progress, AnswersAreSuccessors, AnswersAreCurrent
<1>3. QED
  BY <1>1, <1>2

\* The inductive invariant holds throughout.
THEOREM Invariance == Spec => []IInv
<1>1. Init => IInv
  BY InitIInv
<1>2. IInv /\ [Next]_vars => IInv'
  BY NextIInv
<1>3. QED
  BY <1>1, <1>2, PTL DEF Spec

\* Every variable keeps its type, and the version column stays a natural number.
THEOREM TypeCorrect == Spec => []TypeOK
<1>1. IInv => TypeOK
  BY DEF IInv
<1>2. QED
  BY <1>1, Invariance, PTL

\* Committed tokens form one line, one per version of the row; and however many
\* requests race with one token, however slow they are and whatever fails, those
\* that succeed are answered with one and the same pair.
THEOREM SingleLine == Spec => []OneLine
<1>1. IInv => OnePairPerToken
  <2> SUFFICES ASSUME IInv, NEW r \in Request, NEW q \in Request,
                      presented[r] = presented[q], given[r] # None, given[q] # None
               PROVE  given[r] = given[q]
    BY DEF OnePairPerToken
  <2>1. gen[given[r]] = gen[given[q]]
    BY DEF IInv, AnswersAreSuccessors
  <2>2. gen[given[r]] # Unborn
    BY DEF IInv, AnswersAreSuccessors, TypeOK, Progress, Unborn
  <2>3. given[r] \in Token /\ given[q] \in Token
    BY DEF IInv, Progress
  <2>4. QED
    BY <2>1, <2>2, <2>3 DEF IInv, LineageLinear
<1>2. IInv => OneLine
  BY <1>1 DEF IInv, OneLine
<1>3. QED
  BY <1>2, Invariance, PTL

\* Grace records and answers name the immediate successor of a consumed token,
\* no answered pair is older than the session its request read, and the committed
\* tokens form one line.
THEOREM SoundAnswers == Spec => []AnswersSound
<1>1. IInv /\ OneLine => AnswersSound
  BY DEF IInv, AnswersSound
<1>2. QED
  BY <1>1, Invariance, SingleLine, PTL

\* Revocation is final: no rotation undoes it, and a request that had not read the
\* session by then reads it as inactive and is never given tokens.
THEOREM RevocationStands == Spec => RevocationIsFinal
<1> DEFINE Final == row.revoked =>
                      /\ row'.revoked
                      /\ \A r \in Request : snap[r] = NoSnap => snap'[r] = NoSnap /\ given'[r] = None
<1>1. IInv /\ [Next]_vars => [Final]_vars
  <2> SUFFICES ASSUME IInv, Next, row.revoked PROVE Final
    BY DEF IInv
  <2> USE DEF IInv, TypeOK
  <2>1. ASSUME NEW r \in Request, snap[r] = NoSnap
        PROVE  pc[r] \in {"idle", "read", "release", "done"} /\ given[r] = None
    BY <2>1 DEF Progress, Working
  <2>2. ASSUME NEW q \in Request, NEW t \in Token, Acquire(q, t) PROVE Final
    BY <2>1, <2>2 DEF Acquire
  <2>3. ASSUME NEW q \in Request, Read(q) PROVE Final
    BY <2>1, <2>3 DEF Read, SessionActive, Decide
  <2>4. ASSUME NEW q \in Request, Lookup(q) PROVE Final
    BY <2>1, <2>4 DEF Lookup, Decide
  <2>5. ASSUME NEW q \in Request, RevokeReused(q) PROVE Final
    BY <2>1, <2>5 DEF RevokeReused, Decide
  <2>6. ASSUME NEW q \in Request, Rotate(q) PROVE Final
    BY <2>1, <2>6 DEF Rotate, Rotated, Decide
  <2>7. ASSUME NEW q \in Request, Remember(q) PROVE Final
    BY <2>1, <2>7 DEF Remember, Decide
  <2>8. ASSUME NEW q \in Request, Release(q) PROVE Final
    BY <2>1, <2>8 DEF Release
  <2>9. ASSUME NEW q \in Request, Fail(q) PROVE Final
    BY <2>1, <2>9 DEF Fail, Decide
  <2>10. ASSUME NEW q \in Request, Crash(q) PROVE Final
    BY <2>1, <2>10 DEF Crash
  <2>11. ASSUME LockExpires \/ (\E t \in Token : GraceExpires(t)) PROVE Final
    BY <2>1, <2>11 DEF LockExpires, GraceExpires
  <2>12. ASSUME RevokedElsewhere \/ SessionExpires PROVE Final
    BY <2>1, <2>12 DEF RevokedElsewhere, SessionExpires
  <2>13. QED
    BY <2>2, <2>3, <2>4, <2>5, <2>6, <2>7, <2>8, <2>9, <2>10, <2>11, <2>12 DEF Next, Step
<1>2. QED
  BY <1>1, Invariance, PTL DEF Spec, RevocationIsFinal

-----------------------------------------------------------------------------
(* The grace window, while nothing is disturbed *)

\* Whoever works holds the lock, so what it has read is still the row.
Serialised ==
  \A r \in Request :
    /\ pc[r] \in Working \cup {"release"} => lock = r
    /\ pc[r] \in {"lookup", "revoke", "rotate"} =>
         snap[r].hash = row.hash /\ snap[r].version = row.version
    /\ pc[r] \in {"lookup", "revoke"} => presented[r] # row.hash
    /\ pc[r] = "remember" => row.hash = r
    /\ pc[r] = "revoke" => ~Raced(r)

\* Every consumed token has its grace record, or the request that is storing it.
Remembered ==
  \A t \in Token : gen[t] # Unborn /\ t # row.hash =>
    replay[t] # NoRecord \/ \E r \in Request : pc[r] = "remember" /\ presented[r] = t

Reused ==
  \A r \in Request : outcome[r] = "reuse" =>
    /\ pc[r] \in {"release", "done"}
    /\ gen[presented[r]] + 2 <= snap[r].version

Calm == ~disturbed => Serialised /\ Remembered /\ Reused

\* Acquire preserves the facts about undisturbed rotation.
LEMMA AcquireCalm ==
  ASSUME IInv, Calm, NEW r \in Request, NEW t \in Token, Acquire(r, t)
  PROVE  Calm'
<1> SUFFICES ASSUME ~disturbed PROVE (Serialised /\ Remembered /\ Reused)'
  BY DEF Calm, Acquire, Goto, history
<1> USE TokensDistinct DEF Acquire, Goto, NoSnap, NoRecord, Unborn, history
<1>1. Serialised'
  BY DEF IInv, TypeOK, Calm, Progress, Serialised, Working, Raced
<1>2. Remembered'
  BY DEF IInv, TypeOK, Calm, Progress, Serialised, Remembered, Working
<1>3. Reused'
  BY DEF IInv, TypeOK, Calm, Progress, Reused, Working
<1>4. QED
  BY <1>1, <1>2, <1>3

\* Read preserves the facts about undisturbed rotation.
LEMMA ReadCalm ==
  ASSUME IInv, Calm, NEW r \in Request, Read(r)
  PROVE  Calm'
<1> SUFFICES ASSUME ~disturbed PROVE (Serialised /\ Remembered /\ Reused)'
  BY DEF Calm, Read, SessionActive, Decide, Goto, history
<1> USE TokensDistinct DEF Read, SessionActive, Decide, Goto, NoSnap, NoRecord, Unborn, history
<1>1. Serialised'
  BY DEF IInv, TypeOK, Calm, Progress, Serialised, Working, Raced
<1>2. Remembered'
  BY DEF IInv, TypeOK, Calm, Progress, Serialised, Remembered, Working
<1>3. Reused'
  BY DEF IInv, TypeOK, Calm, Progress, Reused, Working
<1>4. QED
  BY <1>1, <1>2, <1>3

\* Lookup preserves the facts about undisturbed rotation.
LEMMA LookupCalm ==
  ASSUME IInv, Calm, NEW r \in Request, Lookup(r)
  PROVE  Calm'
<1> SUFFICES ASSUME ~disturbed PROVE (Serialised /\ Remembered /\ Reused)'
  BY DEF Calm, Lookup, Decide, Goto, history
<1> USE TokensDistinct DEF Lookup, Decide, Goto, NoSnap, NoRecord, Unborn, history
<1>1. Serialised'
  BY DEF IInv, TypeOK, Calm, Progress, Serialised, Working, Raced
<1>2. Remembered'
  BY DEF IInv, TypeOK, Calm, Progress, Serialised, Remembered, Working
<1>3. Reused'
  BY DEF IInv, TypeOK, Calm, Progress, Reused, Working
<1>4. QED
  BY <1>1, <1>2, <1>3

\* RevokeReused preserves the facts about undisturbed rotation.
LEMMA RevokeReusedCalm ==
  ASSUME IInv, Calm, NEW r \in Request, RevokeReused(r)
  PROVE  Calm'
<1> SUFFICES ASSUME ~disturbed PROVE (Serialised /\ Remembered /\ Reused)'
  BY DEF Calm, RevokeReused, Decide, Goto, history
<1> USE TokensDistinct DEF RevokeReused, Decide, Goto, NoSnap, NoRecord, Unborn, history
<1>1. Serialised'
  BY DEF IInv, TypeOK, Calm, Progress, Serialised, Working, Raced
<1>2. Remembered'
  BY DEF IInv, TypeOK, Calm, Progress, Serialised, Remembered, Working
<1>3. Reused'
  <2> DEFINE t == presented[r]
  <2>1. /\ t \in Token /\ gen[t] # Unborn /\ t # row.hash /\ ~Raced(r)
        /\ snap[r].version = row.version
    BY DEF IInv, Progress, Calm, Serialised
  <2>2. replay[t] # NoRecord
    BY <2>1 DEF Calm, Remembered, Serialised, Working
  <2>3. gen[t] = replay[t].version /\ gen[t] # snap[r].version - 1
    BY <2>1, <2>2 DEF IInv, ReplayFaithful, Raced
  <2>4. gen[t] <= row.version /\ gen[t] # row.version
    BY <2>1 DEF IInv, TypeOK, LineageLinear
  <2>5. gen[t] \in Nat /\ row.version \in Nat
    BY <2>1 DEF IInv, TypeOK
  <2>6. gen[t] + 2 <= snap[r].version
    BY <2>1, <2>3, <2>4, <2>5
  <2>7. QED
    BY <2>6 DEF IInv, TypeOK, Calm, Reused
<1>4. QED
  BY <1>1, <1>2, <1>3

\* Rotate preserves the facts about undisturbed rotation.
LEMMA RotateCalm ==
  ASSUME IInv, Calm, NEW r \in Request, Rotate(r)
  PROVE  Calm'
<1> SUFFICES ASSUME ~disturbed PROVE (Serialised /\ Remembered /\ Reused)'
  BY DEF Calm, Rotate, Decide, Goto
<1> USE TokensDistinct DEF Unborn
<1>1. /\ pc[r] = "rotate" /\ lock = r
      /\ snap[r].hash = row.hash /\ snap[r].version = row.version
      /\ presented[r] = row.hash
  BY DEF Rotate, IInv, Progress, Calm, Serialised, Working
<1>2. /\ row' = Rotated(r)
      /\ gen' = [gen EXCEPT ![r] = row.version + 1]
      /\ pc' = [pc EXCEPT ![r] = "remember"]
      /\ UNCHANGED <<lock, replay, presented, snap, outcome>>
  BY <1>1 DEF Rotate, RotationMatches, Goto
<1>3. row'.hash = r
  BY <1>2 DEF Rotated, IInv, TypeOK
<1>4. \A q \in Request : q # r => pc'[q] = pc[q] /\ pc'[q] \notin Working \cup {"release"}
  BY <1>1, <1>2 DEF IInv, TypeOK, Calm, Serialised
<1>5. pc'[r] = "remember"
  BY <1>2 DEF IInv, TypeOK
<1>6. Serialised'
  BY <1>1, <1>2, <1>3, <1>4, <1>5 DEF Serialised, Working
<1>7. Remembered'
  <2> SUFFICES ASSUME NEW t \in Token, gen'[t] # Unborn, t # r, replay[t] = NoRecord
               PROVE  presented[r] = t
    BY <1>2, <1>3, <1>5 DEF Remembered
  <2>1. gen[t] = gen'[t]
    BY <1>2 DEF IInv, TypeOK
  <2>2. \A q \in Request : pc[q] # "remember"
    BY <1>1, <1>4 DEF Working
  <2>3. QED
    BY <1>1, <2>1, <2>2 DEF Calm, Remembered
<1>8. Reused'
  <2> SUFFICES ASSUME NEW q \in Request, outcome[q] = "reuse"
               PROVE  /\ pc'[q] \in {"release", "done"}
                      /\ gen'[presented[q]] + 2 <= snap[q].version
    BY <1>2 DEF Reused
  <2>1. /\ pc[q] \in {"release", "done"} /\ q # r
        /\ gen[presented[q]] + 2 <= snap[q].version
    BY <1>1 DEF Calm, Reused
  <2>2. presented[q] # r
    BY <1>1, <2>1 DEF IInv, Progress
  <2>3. QED
    BY <1>2, <1>4, <2>1, <2>2 DEF IInv, TypeOK
<1>9. QED
  BY <1>6, <1>7, <1>8

\* Remember preserves the facts about undisturbed rotation.
LEMMA RememberCalm ==
  ASSUME IInv, Calm, NEW r \in Request, Remember(r)
  PROVE  Calm'
<1> SUFFICES ASSUME ~disturbed PROVE (Serialised /\ Remembered /\ Reused)'
  BY DEF Calm, Remember, ReplayRecord, Decide, Goto, history
<1> USE TokensDistinct DEF Remember, ReplayRecord, Decide, Goto, NoSnap, NoRecord, Unborn, history
<1>1. Serialised'
  BY DEF IInv, TypeOK, Calm, Progress, Serialised, Working, Raced
<1>2. Remembered'
  BY DEF IInv, TypeOK, Calm, Progress, Serialised, Remembered, Working
<1>3. Reused'
  BY DEF IInv, TypeOK, Calm, Progress, Reused, Working
<1>4. QED
  BY <1>1, <1>2, <1>3

\* Release preserves the facts about undisturbed rotation.
LEMMA ReleaseCalm ==
  ASSUME IInv, Calm, NEW r \in Request, Release(r)
  PROVE  Calm'
<1> SUFFICES ASSUME ~disturbed PROVE (Serialised /\ Remembered /\ Reused)'
  BY DEF Calm, Release, LockReleased, Goto, history
<1> USE TokensDistinct DEF Release, LockReleased, Goto, NoSnap, NoRecord, Unborn, history
<1>1. Serialised'
  BY DEF IInv, TypeOK, Calm, Progress, Serialised, Working, Raced
<1>2. Remembered'
  BY DEF IInv, TypeOK, Calm, Progress, Serialised, Remembered, Working
<1>3. Reused'
  BY DEF IInv, TypeOK, Calm, Progress, Reused, Working
<1>4. QED
  BY <1>1, <1>2, <1>3

\* RevokedOrExpired preserves the facts about undisturbed rotation.
LEMMA RevokedOrExpiredCalm ==
  ASSUME IInv, Calm, RevokedElsewhere \/ SessionExpires
  PROVE  Calm'
<1> USE DEF RevokedElsewhere, SessionExpires, history
<1>1. row'.hash = row.hash /\ row'.version = row.version
  BY DEF IInv, TypeOK
<1>2. QED
  BY <1>1 DEF Calm, Serialised, Remembered, Reused, Raced

\* Every step preserves the facts about undisturbed rotation.
LEMMA NextCalm == IInv /\ Calm /\ [Next]_vars => Calm'
<1> SUFFICES ASSUME IInv, Calm, [Next]_vars PROVE Calm'
  OBVIOUS
<1>1. ASSUME NEW r \in Request, Fail(r) \/ Crash(r) PROVE Calm'
  BY <1>1 DEF Fail, Crash, Calm
<1>2. CASE LockExpires \/ \E t \in Token : GraceExpires(t)
  BY <1>2 DEF LockExpires, GraceExpires, Calm
<1>3. CASE UNCHANGED vars
  BY <1>3 DEF vars, Calm, Serialised, Remembered, Reused, Raced
<1>4. QED
  BY <1>1, <1>2, <1>3, AcquireCalm, ReadCalm, LookupCalm, RevokeReusedCalm, RotateCalm,
     RememberCalm, ReleaseCalm, RevokedOrExpiredCalm DEF Next, Step

\* While nothing fails and no deadline passes, any number of clients may race with
\* one token: a session is revoked for reuse only by a token two generations old.
THEOREM RacersStayLoggedIn == Spec => []GraceWindowSound
<1>1. Init => Calm
  BY TokensDistinct DEF Init, Calm, Serialised, Remembered, Reused, Working, Unborn
<1>2. IInv /\ Calm /\ [Next]_vars => Calm'
  BY NextCalm
<1>3. Calm => GraceWindowSound
  BY DEF Calm, Reused, GraceWindowSound
<1>4. QED
  BY <1>1, <1>2, <1>3, Invariance, PTL DEF Spec

-----------------------------------------------------------------------------
(* Refinement: every step of the protocol is a step of the token family or *)
(* leaves it unchanged.                                                    *)

\* Every step is a step of TokenLineage or leaves its variables unchanged.
LEMMA StepRefines == IInv /\ IInv' /\ [Next]_vars => [Lineage!Next]_(Lineage!lineageVars)
<1> SUFFICES ASSUME IInv, IInv', [Next]_vars
             PROVE  Lineage!Next \/ UNCHANGED Lineage!lineageVars
  OBVIOUS
<1> DEFINE asked == [r \in Request |-> IF snap[r] = NoSnap THEN None ELSE presented[r]]
           answered == [r \in Request |-> IF pc[r] = "done" THEN given[r] ELSE None]
           Same == UNCHANGED <<gen, row.hash, row.revoked, asked, answered>>
<1> USE TokensDistinct DEF history
<1>0. Same => UNCHANGED Lineage!lineageVars
  BY DEF Lineage!lineageVars
<1>1. ASSUME NEW r \in Request, NEW t \in Token, Acquire(r, t) PROVE Same
  BY <1>1 DEF Acquire, Goto, IInv, TypeOK, Progress
<1>2. ASSUME NEW r \in Request, Read(r) 
      PROVE  Same \/ \E t \in Token : Lineage!Ask(r, t)
  <2>1. CASE SessionActive
    <3>1. /\ snap' = [snap EXCEPT ![r] = [hash |-> row.hash, version |-> row.version]]
          /\ UNCHANGED <<row, presented, gen, given>>
          /\ pc[r] = "read" /\ pc' \in [Request -> Working \cup {"idle", "release", "done"}]
          /\ pc'[r] # "done"
          /\ \A q \in Request \ {r} : pc'[q] = pc[q]
      BY <1>2, <2>1 DEF Read, Goto, IInv, TypeOK
    <3>2. snap[r] = NoSnap /\ snap'[r] # NoSnap
      BY <1>2, <3>1 DEF IInv, TypeOK, Progress, NoSnap
    <3>3. asked' = [asked EXCEPT ![r] = presented[r]]
      BY <3>1, <3>2 DEF IInv, TypeOK
    <3>4. answered' = answered
      BY <3>1
    <3>5. asked[r] = None /\ presented[r] \in Token /\ gen[presented[r]] # Unborn
      BY <3>1, <3>2 DEF IInv, Progress
    <3>6. QED
      BY <2>1, <3>1, <3>3, <3>4, <3>5 DEF SessionActive, Lineage!Ask, Unborn, Lineage!Unborn
  <2>2. CASE ~SessionActive
    BY <1>2, <2>2 DEF Read, Decide, Goto, IInv, TypeOK
  <2>3. QED
    BY <2>1, <2>2
<1>3. ASSUME NEW r \in Request, Lookup(r) PROVE Same
  BY <1>3 DEF Lookup, Decide, Goto, IInv, TypeOK
<1>4. ASSUME NEW r \in Request, RevokeReused(r) PROVE Same \/ Lineage!Revoke
  <2>1. row'.hash = row.hash /\ row'.revoked = TRUE
    BY <1>4 DEF RevokeReused, IInv, TypeOK
  <2>2. UNCHANGED <<gen, asked, answered>>
    BY <1>4 DEF RevokeReused, Decide, Goto, IInv, TypeOK
  <2>3. QED
    BY <2>1, <2>2 DEF Lineage!Revoke
<1>5. ASSUME NEW r \in Request, Rotate(r) PROVE Same \/ Lineage!Consume(r)
  <2>1. CASE RotationMatches(r)
    <3>1. /\ row' = Rotated(r)
          /\ gen' = [gen EXCEPT ![r] = row.version + 1]
          /\ UNCHANGED <<presented, snap, given>>
          /\ pc[r] = "rotate" /\ pc' = [pc EXCEPT ![r] = "remember"]
      BY <1>5, <2>1 DEF Rotate, Goto
    <3>2. row'.hash = r /\ row'.revoked = row.revoked
      BY <3>1 DEF Rotated, IInv, TypeOK
    <3>3. asked[r] = row.hash /\ gen[r] = Unborn
      BY <2>1, <3>1 DEF RotationMatches, IInv, Progress
    <3>4. gen[row.hash] = row.version
      BY DEF IInv, LineageLinear
    <3>5. UNCHANGED <<asked, answered>>
      BY <3>1 DEF IInv, TypeOK
    <3>6. QED
      BY <3>1, <3>2, <3>3, <3>4, <3>5 DEF Lineage!Consume, Unborn, Lineage!Unborn
  <2>2. CASE ~RotationMatches(r)
    BY <1>5, <2>2 DEF Rotate, Decide, Goto, IInv, TypeOK
  <2>3. QED
    BY <2>1, <2>2
<1>6. ASSUME NEW r \in Request, Remember(r) PROVE Same
  BY <1>6 DEF Remember, Decide, Goto, IInv, TypeOK
<1>7. ASSUME NEW r \in Request, Release(r)
      PROVE  Same \/ \E n \in Token : Lineage!Answer(r, n)
  <2>1. /\ pc[r] = "release" /\ pc' = [pc EXCEPT ![r] = "done"]
        /\ UNCHANGED <<row, presented, snap, given, gen>>
    BY <1>7 DEF Release, Goto
  <2>2. answered' = [answered EXCEPT ![r] = given[r]] /\ answered[r] = None
    <3>1. answered[r] = None
      BY <2>1
    <3>2. pc \in [Request -> Working \cup {"idle", "release", "done"}]
      BY DEF IInv, TypeOK
    <3>3. pc' = [q \in Request |-> IF q = r THEN "done" ELSE pc[q]]
      BY <2>1, <3>2
    <3>4. given' = given
      BY <2>1
    <3>5. QED
      BY <3>1, <3>3, <3>4
  <2>3. CASE given[r] = None
    BY <2>1, <2>2, <2>3
  <2>4. CASE given[r] # None
    <3>1. asked[r] = presented[r] /\ presented[r] \in Token /\ given[r] \in Token
      BY <2>1, <2>4 DEF IInv, Progress
    <3>2. gen[given[r]] = gen[asked[r]] + 1
      BY <2>4, <3>1 DEF IInv, AnswersAreSuccessors
    <3>3. QED
      BY <2>1, <2>2, <2>4, <3>1, <3>2 DEF Lineage!Answer
  <2>5. QED
    BY <2>3, <2>4
<1>8. ASSUME NEW r \in Request, Fail(r) PROVE Same
  BY <1>8 DEF Fail, Decide, Goto, Working, IInv, TypeOK
<1>9. ASSUME NEW r \in Request, Crash(r) PROVE Same
  BY <1>9 DEF Crash, Goto, Working, IInv, TypeOK
<1>10. CASE LockExpires \/ \E t \in Token : GraceExpires(t)
  BY <1>0, <1>10 DEF LockExpires, GraceExpires
<1>11. CASE RevokedElsewhere
  <2>1. row'.hash = row.hash /\ row'.revoked = TRUE /\ UNCHANGED <<gen, asked, answered>>
    BY <1>11 DEF RevokedElsewhere, IInv, TypeOK
  <2>2. QED
    BY <2>1 DEF Lineage!Revoke, Lineage!Next
<1>12. CASE SessionExpires
  <2>1. row'.hash = row.hash /\ row'.revoked = row.revoked /\ UNCHANGED <<gen, asked, answered>>
    BY <1>12 DEF SessionExpires, IInv, TypeOK
  <2>2. QED
    BY <1>0, <2>1
<1>13. CASE UNCHANGED vars
  BY <1>0, <1>13 DEF vars
<1> HIDE DEF Same, asked, answered
<1>14. Lineage!Token = Token
  BY DEF Token, Lineage!Token
<1>15. CASE Next
  BY <1>15, <1>0, <1>1, <1>2, <1>3, <1>4, <1>5, <1>6, <1>7, <1>8, <1>9, <1>10, <1>11, <1>12, <1>14
     DEF Next, Step, Lineage!Next
<1>16. QED
  BY <1>13, <1>15 DEF vars

\* Rotation with its lock, its cache and its failures implements the family of
\* single-use tokens that TokenLineage describes.
THEOREM Refinement == Spec => ImplementsLineage
<1>1. Init => Lineage!Init
  BY TokensDistinct DEF Init, Lineage!Init, NoSnap, Token, Lineage!Token, Unborn, Lineage!Unborn
<1>2. IInv /\ IInv' /\ [Next]_vars => [Lineage!Next]_(Lineage!lineageVars)
  BY StepRefines
<1>3. QED
  BY <1>1, <1>2, Invariance, PTL DEF Spec, ImplementsLineage, Lineage!Spec
=============================================================================
