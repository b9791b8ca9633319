------------------------- MODULE RegistrationProofs -------------------------
(***************************************************************************)
(* Machine-checked facts about Registration for any number of requests,    *)
(* codes and limits.                                                       *)
(*                                                                         *)
(* That one code is open follows from mutual exclusion: while the cooldown *)
(* runs, the resend that armed it is alone between invalidating the old    *)
(* codes and storing the new one (ResendsExclusive, StoresAlone).          *)
(***************************************************************************)
EXTENDS Registration, FiniteSetTheorems, TLAPS

\* A resend publishes a code it has stored.
StoresFirst == \A r \in Resender : resend[r] = "publish" => stored[r] \in Code

\* A verification about to commit submitted the code of the row it read.
CommitMatches == \A v \in Verifier : verify[v] = "commit" => typed[v] = row[v]

Undisturbed == ~overrun /\ ~degraded

\* Resends between the cooldown and the store of the new code.
Inside == {r \in Resender : resend[r] \in {"invalidate", "clear", "store"}}

\* One resend at a time is inside, and the cooldown it armed is running.
ResendsExclusive == Undisturbed => \A r \in Inside : cooling /\ \A q \in Inside : q = r

\* No code is open when a resend is about to store one.
StoresAlone ==
  Undisturbed =>
    \A r \in Inside : resend[r] \in {"clear", "store"} =>
      \A c \in Code : code[c] # "open"

OpenUnique == Undisturbed => \A c, d \in Open : c = d

\* Every resend admitted in this hour was counted, and the limit was not passed.
HourBudget == ~degraded => Cardinality(thisHour) <= hourly /\ Cardinality(thisHour) <= HourlyLimit

IInv ==
  /\ TypeOK
  /\ StoresFirst
  /\ CommitMatches
  /\ ActiveIsProven
  /\ ResendsExclusive
  /\ StoresAlone
  /\ OpenUnique
  /\ HourBudget
  /\ LimitInvalidates

\* A Redis call, answered or failed, leaves the history flag a Boolean.
LEMMA RedisCall == TypeOK /\ (RedisWorks \/ RedisFails) => degraded' \in BOOLEAN
  BY DEF TypeOK, RedisWorks, RedisFails

\* Admitting a resend adds at most one to those of the hour.
LEMMA OneMore ==
  ASSUME TypeOK, NEW r \in Resender
  PROVE  /\ Cardinality(thisHour) \in Nat
         /\ Cardinality(thisHour \cup {r}) \in Nat
         /\ Cardinality(thisHour \cup {r}) <= Cardinality(thisHour) + 1
<1>1. IsFiniteSet(thisHour)
  BY RegistrationAssumption, FS_Subset DEF TypeOK
<1>2. Cardinality(thisHour) \in Nat
  BY <1>1, FS_CardinalityType
<1>3. Cardinality(thisHour \cup {r}) =
        IF r \in thisHour THEN Cardinality(thisHour) ELSE Cardinality(thisHour) + 1
  BY <1>1, FS_AddElement
<1>4. QED
  BY <1>2, <1>3

\* The initial states satisfy the inductive invariant.
LEMMA InitIInv == Init => IInv
<1> SUFFICES ASSUME Init PROVE IInv
  OBVIOUS
<1> USE RegistrationAssumption DEF Init, AllSpent, RedisFails, RedisWorks, codeVars,
         counterVars, verifyVars, history
<1>1. TypeOK
  BY DEF TypeOK, Status, Pending, Code, NoCode, VerifyStage, ResendStage
<1>2. StoresFirst
  BY DEF StoresFirst
<1>3. CommitMatches
  BY DEF CommitMatches
<1>4. ActiveIsProven
  BY DEF ActiveIsProven, Pending
<1>5. ResendsExclusive
  BY DEF ResendsExclusive, Undisturbed, Inside
<1>6. StoresAlone
  BY DEF StoresAlone, Undisturbed, Inside
<1>7. OpenUnique
  BY DEF OpenUnique, Undisturbed, Open
<1>8. HourBudget
  BY FS_EmptySet DEF HourBudget
<1>9. LimitInvalidates
  BY DEF LimitInvalidates
<1>10. QED
  BY <1>1, <1>2, <1>3, <1>4, <1>5, <1>6, <1>7, <1>8, <1>9 DEF IInv

\* PublishFirst preserves the inductive invariant.
LEMMA PublishFirstIInv ==
  ASSUME IInv, PublishFirst
  PROVE  IInv'
<1> USE RegistrationAssumption DEF IInv, PublishFirst, AllSpent, RedisFails, RedisWorks,
         codeVars, counterVars, verifyVars, history
<1>1. TypeOK'
  BY DEF TypeOK, Status, Pending, Code, NoCode, VerifyStage, ResendStage
<1>2. StoresFirst'
  BY DEF StoresFirst, TypeOK
<1>3. CommitMatches'
  BY DEF CommitMatches, TypeOK
<1>4. ActiveIsProven'
  BY DEF ActiveIsProven, TypeOK
<1>5. ResendsExclusive'
  BY DEF ResendsExclusive, Undisturbed, Inside, TypeOK
<1>6. StoresAlone'
  BY DEF StoresAlone, Undisturbed, Inside, TypeOK
<1>7. OpenUnique'
  BY DEF OpenUnique, Undisturbed, Open, TypeOK
<1>8. HourBudget'
  BY DEF HourBudget, TypeOK
<1>9. LimitInvalidates'
  BY DEF LimitInvalidates, TypeOK
<1>10. QED
  BY <1>1, <1>2, <1>3, <1>4, <1>5, <1>6, <1>7, <1>8, <1>9

\* VerifyStart preserves the inductive invariant.
LEMMA VerifyStartIInv ==
  ASSUME IInv, NEW v \in Verifier, NEW c \in Code \cup {NoCode}, VerifyStart(v, c)
  PROVE  IInv'
<1> USE RegistrationAssumption DEF IInv, VerifyStart, At, AllSpent, RedisFails,
         RedisWorks, codeVars, counterVars, verifyVars, history
<1>1. TypeOK'
  BY DEF TypeOK, Status, Pending, Code, NoCode, VerifyStage, ResendStage
<1>2. StoresFirst'
  BY DEF StoresFirst, TypeOK
<1>3. CommitMatches'
  BY DEF CommitMatches, TypeOK
<1>4. ActiveIsProven'
  BY DEF ActiveIsProven, TypeOK
<1>5. ResendsExclusive'
  BY DEF ResendsExclusive, Undisturbed, Inside, TypeOK
<1>6. StoresAlone'
  BY DEF StoresAlone, Undisturbed, Inside, TypeOK
<1>7. OpenUnique'
  BY DEF OpenUnique, Undisturbed, Open, TypeOK
<1>8. HourBudget'
  BY DEF HourBudget, TypeOK
<1>9. LimitInvalidates'
  BY DEF LimitInvalidates, TypeOK
<1>10. QED
  BY <1>1, <1>2, <1>3, <1>4, <1>5, <1>6, <1>7, <1>8, <1>9

\* VerifyRead preserves the inductive invariant.
LEMMA VerifyReadIInv ==
  ASSUME IInv, NEW v \in Verifier, VerifyRead(v)
  PROVE  IInv'
<1> USE RegistrationAssumption DEF IInv, VerifyRead, At, Matches, Open, AllSpent,
         RedisFails, RedisWorks, codeVars, counterVars, verifyVars, history
<1>1. TypeOK'
  <2>1. row' \in [Verifier -> Code \cup {NoCode}]
    BY DEF TypeOK, Open
  <2>2. verify' \in [Verifier -> VerifyStage]
    BY DEF TypeOK, VerifyStage
  <2>3. QED
    BY <2>1, <2>2 DEF TypeOK
<1>2. StoresFirst'
  BY DEF StoresFirst, TypeOK
<1>3. CommitMatches'
  BY DEF CommitMatches, TypeOK
<1>4. ActiveIsProven'
  BY DEF ActiveIsProven, TypeOK
<1>5. ResendsExclusive'
  BY DEF ResendsExclusive, Undisturbed, Inside, TypeOK
<1>6. StoresAlone'
  BY DEF StoresAlone, Undisturbed, Inside, TypeOK
<1>7. OpenUnique'
  BY DEF OpenUnique, Undisturbed, Open, TypeOK
<1>8. HourBudget'
  BY DEF HourBudget, TypeOK
<1>9. LimitInvalidates'
  BY DEF LimitInvalidates, TypeOK
<1>10. QED
  BY <1>1, <1>2, <1>3, <1>4, <1>5, <1>6, <1>7, <1>8, <1>9

\* VerifyMiss preserves the inductive invariant.
LEMMA VerifyMissIInv ==
  ASSUME IInv, NEW v \in Verifier, VerifyMiss(v)
  PROVE  IInv'
<1> USE RegistrationAssumption DEF IInv, VerifyMiss, At, Exhausted, AllSpent, RedisFails,
         RedisWorks, codeVars, counterVars, verifyVars, history
<1>1. TypeOK'
  <2>1. degraded' \in BOOLEAN
    <3>1. RedisWorks \/ RedisFails
      OBVIOUS
    <3>2. QED
      BY <3>1, RedisCall
  <2>2. attempts' \in Nat
    BY DEF TypeOK
  <2>3. verify' \in [Verifier -> VerifyStage]
    BY DEF TypeOK, VerifyStage
  <2>4. QED
    BY <2>1, <2>2, <2>3 DEF TypeOK
<1>2. StoresFirst'
  BY DEF StoresFirst, TypeOK
<1>3. CommitMatches'
  BY DEF CommitMatches, TypeOK
<1>4. ActiveIsProven'
  BY DEF ActiveIsProven, TypeOK
<1>5. ResendsExclusive'
  BY DEF ResendsExclusive, Undisturbed, Inside, TypeOK
<1>6. StoresAlone'
  BY DEF StoresAlone, Undisturbed, Inside, TypeOK
<1>7. OpenUnique'
  BY DEF OpenUnique, Undisturbed, Open, TypeOK
<1>8. HourBudget'
  BY DEF HourBudget, TypeOK
<1>9. LimitInvalidates'
  BY DEF LimitInvalidates, TypeOK
<1>10. QED
  BY <1>1, <1>2, <1>3, <1>4, <1>5, <1>6, <1>7, <1>8, <1>9

\* VerifyVoid preserves the inductive invariant.
LEMMA VerifyVoidIInv ==
  ASSUME IInv, NEW v \in Verifier, VerifyVoid(v)
  PROVE  IInv'
<1> USE RegistrationAssumption DEF IInv, VerifyVoid, At, AllSpent, RedisFails,
         RedisWorks, codeVars, counterVars, verifyVars, history
<1>1. TypeOK'
  BY DEF TypeOK, Status, Pending, Code, NoCode, VerifyStage, ResendStage
<1>2. StoresFirst'
  BY DEF StoresFirst, TypeOK
<1>3. CommitMatches'
  BY DEF CommitMatches, TypeOK
<1>4. ActiveIsProven'
  BY DEF ActiveIsProven, TypeOK
<1>5. ResendsExclusive'
  BY DEF ResendsExclusive, Undisturbed, Inside, TypeOK
<1>6. StoresAlone'
  BY DEF StoresAlone, Undisturbed, Inside, TypeOK
<1>7. OpenUnique'
  BY DEF OpenUnique, Undisturbed, Open, TypeOK
<1>8. HourBudget'
  BY DEF HourBudget, TypeOK
<1>9. LimitInvalidates'
  BY DEF LimitInvalidates, TypeOK
<1>10. QED
  BY <1>1, <1>2, <1>3, <1>4, <1>5, <1>6, <1>7, <1>8, <1>9

\* VerifyCommit preserves the inductive invariant.
LEMMA VerifyCommitIInv ==
  ASSUME IInv, NEW v \in Verifier, VerifyCommit(v)
  PROVE  IInv'
<1> USE RegistrationAssumption DEF IInv, VerifyCommit, At, VerifiedStatus, AllSpent,
         RedisFails, RedisWorks, codeVars, counterVars, verifyVars, history
<1>1. TypeOK'
  BY DEF TypeOK, Status, Pending, Code, NoCode, VerifyStage, ResendStage
<1>2. StoresFirst'
  BY DEF StoresFirst, TypeOK
<1>3. CommitMatches'
  BY DEF CommitMatches, TypeOK
<1>4. ActiveIsProven'
  BY DEF ActiveIsProven, CommitMatches, TypeOK
<1>5. ResendsExclusive'
  BY DEF ResendsExclusive, Undisturbed, Inside, TypeOK
<1>6. StoresAlone'
  BY DEF StoresAlone, Undisturbed, Inside, TypeOK
<1>7. OpenUnique'
  BY DEF OpenUnique, Undisturbed, Open, TypeOK
<1>8. HourBudget'
  BY DEF HourBudget, TypeOK
<1>9. LimitInvalidates'
  BY DEF LimitInvalidates, TypeOK
<1>10. QED
  BY <1>1, <1>2, <1>3, <1>4, <1>5, <1>6, <1>7, <1>8, <1>9

\* VerifyClear preserves the inductive invariant.
LEMMA VerifyClearIInv ==
  ASSUME IInv, NEW v \in Verifier, VerifyClear(v)
  PROVE  IInv'
<1> USE RegistrationAssumption DEF IInv, VerifyClear, At, AllSpent, RedisFails,
         RedisWorks, codeVars, counterVars, verifyVars, history
<1>1. TypeOK'
  <2>1. degraded' \in BOOLEAN
    <3>1. RedisWorks \/ RedisFails
      OBVIOUS
    <3>2. QED
      BY <3>1, RedisCall
  <2>2. attempts' \in Nat
    BY DEF TypeOK
  <2>3. verify' \in [Verifier -> VerifyStage]
    BY DEF TypeOK, VerifyStage
  <2>4. QED
    BY <2>1, <2>2, <2>3 DEF TypeOK
<1>2. StoresFirst'
  BY DEF StoresFirst, TypeOK
<1>3. CommitMatches'
  BY DEF CommitMatches, TypeOK
<1>4. ActiveIsProven'
  BY DEF ActiveIsProven, TypeOK
<1>5. ResendsExclusive'
  BY DEF ResendsExclusive, Undisturbed, Inside, TypeOK
<1>6. StoresAlone'
  BY DEF StoresAlone, Undisturbed, Inside, TypeOK
<1>7. OpenUnique'
  BY DEF OpenUnique, Undisturbed, Open, TypeOK
<1>8. HourBudget'
  BY DEF HourBudget, TypeOK
<1>9. LimitInvalidates'
  BY DEF LimitInvalidates, TypeOK
<1>10. QED
  BY <1>1, <1>2, <1>3, <1>4, <1>5, <1>6, <1>7, <1>8, <1>9

\* ResendStart preserves the inductive invariant.
LEMMA ResendStartIInv ==
  ASSUME IInv, NEW r \in Resender, ResendStart(r)
  PROVE  IInv'
<1> USE RegistrationAssumption DEF IInv, ResendStart, Go, AllSpent, RedisFails,
         RedisWorks, codeVars, counterVars, verifyVars, history
<1>1. TypeOK'
  BY DEF TypeOK, Status, Pending, Code, NoCode, VerifyStage, ResendStage
<1>2. StoresFirst'
  BY DEF StoresFirst, TypeOK
<1>3. CommitMatches'
  BY DEF CommitMatches, TypeOK
<1>4. ActiveIsProven'
  BY DEF ActiveIsProven, TypeOK
<1>5. ResendsExclusive'
  BY DEF ResendsExclusive, Undisturbed, Inside, TypeOK
<1>6. StoresAlone'
  BY DEF StoresAlone, Undisturbed, Inside, TypeOK
<1>7. OpenUnique'
  BY DEF OpenUnique, Undisturbed, Open, TypeOK
<1>8. HourBudget'
  BY DEF HourBudget, TypeOK
<1>9. LimitInvalidates'
  BY DEF LimitInvalidates, TypeOK
<1>10. QED
  BY <1>1, <1>2, <1>3, <1>4, <1>5, <1>6, <1>7, <1>8, <1>9

\* ResendHourly preserves the inductive invariant.
LEMMA ResendHourlyIInv ==
  ASSUME IInv, NEW r \in Resender, ResendHourly(r)
  PROVE  IInv'
<1> USE RegistrationAssumption DEF IInv, ResendHourly, Go, HourlyAllows, AllSpent,
         RedisFails, RedisWorks, codeVars, counterVars, verifyVars, history
<1>1. TypeOK'
  <2>1. degraded' \in BOOLEAN
    <3>1. RedisWorks \/ RedisFails
      OBVIOUS
    <3>2. QED
      BY <3>1, RedisCall
  <2>2. hourly' \in Nat /\ thisHour' \subseteq Resender
    BY DEF TypeOK
  <2>3. resend' \in [Resender -> ResendStage]
    BY DEF TypeOK, ResendStage
  <2>4. QED
    BY <2>1, <2>2, <2>3 DEF TypeOK
<1>2. StoresFirst'
  BY DEF StoresFirst, TypeOK
<1>3. CommitMatches'
  BY DEF CommitMatches, TypeOK
<1>4. ActiveIsProven'
  BY DEF ActiveIsProven, TypeOK
<1>5. ResendsExclusive'
  BY DEF ResendsExclusive, Undisturbed, Inside, TypeOK
<1>6. StoresAlone'
  BY DEF StoresAlone, Undisturbed, Inside, TypeOK
<1>7. OpenUnique'
  BY DEF OpenUnique, Undisturbed, Open, TypeOK
<1>8. HourBudget'
  <2>1. CASE degraded' = TRUE
    BY <2>1 DEF HourBudget
  <2>2. CASE degraded' # TRUE
    <3>1. /\ hourly' = hourly + 1
          /\ (thisHour' = thisHour \/ (thisHour' = thisHour \cup {r} /\ hourly + 1 <= HourlyLimit))
      BY <2>2
    <3>2. hourly \in Nat
      BY DEF TypeOK
    <3>3. Cardinality(thisHour) <= hourly /\ Cardinality(thisHour) <= HourlyLimit
      BY <2>2 DEF TypeOK, HourBudget
    <3>4. /\ Cardinality(thisHour) \in Nat
          /\ Cardinality(thisHour \cup {r}) \in Nat
          /\ Cardinality(thisHour \cup {r}) <= Cardinality(thisHour) + 1
      BY OneMore
    <3>5. CASE thisHour' = thisHour
      <4>1. Cardinality(thisHour) <= hourly'
        BY <3>1, <3>2, <3>3, <3>4
      <4>2. QED
        BY <3>3, <3>5, <4>1 DEF HourBudget
    <3>6. CASE thisHour' = thisHour \cup {r} /\ hourly + 1 <= HourlyLimit
      <4>1. Cardinality(thisHour \cup {r}) <= hourly + 1 /\ Cardinality(thisHour \cup {r}) <= HourlyLimit
        BY <3>2, <3>3, <3>4, <3>6
      <4>2. QED
        BY <3>1, <3>6, <4>1 DEF HourBudget
    <3>7. QED
      BY <3>1, <3>5, <3>6
  <2>3. QED
    BY <2>1, <2>2
<1>9. LimitInvalidates'
  BY DEF LimitInvalidates, TypeOK
<1>10. QED
  BY <1>1, <1>2, <1>3, <1>4, <1>5, <1>6, <1>7, <1>8, <1>9

\* ResendCooldown preserves the inductive invariant.
LEMMA ResendCooldownIInv ==
  ASSUME IInv, NEW r \in Resender, ResendCooldown(r)
  PROVE  IInv'
<1> USE RegistrationAssumption DEF IInv, ResendCooldown, Go, CooldownAllows, AllSpent,
         RedisFails, RedisWorks, codeVars, counterVars, verifyVars, history
<1>1. TypeOK'
  BY DEF TypeOK, Status, Pending, Code, NoCode, VerifyStage, ResendStage
<1>2. StoresFirst'
  BY DEF StoresFirst, TypeOK
<1>3. CommitMatches'
  BY DEF CommitMatches, TypeOK
<1>4. ActiveIsProven'
  BY DEF ActiveIsProven, TypeOK
<1>5. ResendsExclusive'
  BY DEF ResendsExclusive, Undisturbed, Inside, TypeOK
<1>6. StoresAlone'
  BY DEF StoresAlone, Undisturbed, Inside, ResendsExclusive, TypeOK
<1>7. OpenUnique'
  BY DEF OpenUnique, Undisturbed, Open, TypeOK
<1>8. HourBudget'
  BY DEF HourBudget, TypeOK
<1>9. LimitInvalidates'
  BY DEF LimitInvalidates, TypeOK
<1>10. QED
  BY <1>1, <1>2, <1>3, <1>4, <1>5, <1>6, <1>7, <1>8, <1>9

\* ResendInvalidate preserves the inductive invariant.
LEMMA ResendInvalidateIInv ==
  ASSUME IInv, NEW r \in Resender, ResendInvalidate(r)
  PROVE  IInv'
<1> USE RegistrationAssumption DEF IInv, ResendInvalidate, Go, AllSpent, RedisFails,
         RedisWorks, codeVars, counterVars, verifyVars, history
<1>1. TypeOK'
  BY DEF TypeOK, Status, Pending, Code, NoCode, VerifyStage, ResendStage
<1>2. StoresFirst'
  BY DEF StoresFirst, TypeOK
<1>3. CommitMatches'
  BY DEF CommitMatches, TypeOK
<1>4. ActiveIsProven'
  BY DEF ActiveIsProven, TypeOK
<1>5. ResendsExclusive'
  BY DEF ResendsExclusive, Undisturbed, Inside, TypeOK
<1>6. StoresAlone'
  BY DEF StoresAlone, Undisturbed, Inside, ResendsExclusive, TypeOK
<1>7. OpenUnique'
  BY DEF OpenUnique, Undisturbed, Open, TypeOK
<1>8. HourBudget'
  BY DEF HourBudget, TypeOK
<1>9. LimitInvalidates'
  BY DEF LimitInvalidates, TypeOK
<1>10. QED
  BY <1>1, <1>2, <1>3, <1>4, <1>5, <1>6, <1>7, <1>8, <1>9

\* ResendClear preserves the inductive invariant.
LEMMA ResendClearIInv ==
  ASSUME IInv, NEW r \in Resender, ResendClear(r)
  PROVE  IInv'
<1> USE RegistrationAssumption DEF IInv, ResendClear, Go, AllSpent, RedisFails,
         RedisWorks, codeVars, counterVars, verifyVars, history
<1>1. TypeOK'
  <2>1. degraded' \in BOOLEAN
    <3>1. RedisWorks \/ RedisFails
      OBVIOUS
    <3>2. QED
      BY <3>1, RedisCall
  <2>2. attempts' \in Nat
    BY DEF TypeOK
  <2>3. resend' \in [Resender -> ResendStage]
    BY DEF TypeOK, ResendStage
  <2>4. QED
    BY <2>1, <2>2, <2>3 DEF TypeOK
<1>2. StoresFirst'
  BY DEF StoresFirst, TypeOK
<1>3. CommitMatches'
  BY DEF CommitMatches, TypeOK
<1>4. ActiveIsProven'
  BY DEF ActiveIsProven, TypeOK
<1>5. ResendsExclusive'
  BY DEF ResendsExclusive, Undisturbed, Inside, TypeOK
<1>6. StoresAlone'
  BY DEF StoresAlone, Undisturbed, Inside, TypeOK
<1>7. OpenUnique'
  BY DEF OpenUnique, Undisturbed, Open, TypeOK
<1>8. HourBudget'
  BY DEF HourBudget, TypeOK
<1>9. LimitInvalidates'
  BY DEF LimitInvalidates, TypeOK
<1>10. QED
  BY <1>1, <1>2, <1>3, <1>4, <1>5, <1>6, <1>7, <1>8, <1>9

\* ResendStore preserves the inductive invariant.
LEMMA ResendStoreIInv ==
  ASSUME IInv, NEW r \in Resender, NEW c \in Code, ResendStore(r, c)
  PROVE  IInv'
<1> USE RegistrationAssumption DEF IInv, ResendStore, Go, AllSpent, RedisFails,
         RedisWorks, codeVars, counterVars, verifyVars, history
<1>1. TypeOK'
  BY DEF TypeOK, Status, Pending, Code, NoCode, VerifyStage, ResendStage
<1>2. StoresFirst'
  BY DEF StoresFirst, TypeOK
<1>3. CommitMatches'
  BY DEF CommitMatches, TypeOK
<1>4. ActiveIsProven'
  BY DEF ActiveIsProven, TypeOK
<1>5. ResendsExclusive'
  BY DEF ResendsExclusive, Undisturbed, Inside, TypeOK
<1>6. StoresAlone'
  BY DEF StoresAlone, Undisturbed, Inside, ResendsExclusive, TypeOK
<1>7. OpenUnique'
  BY DEF OpenUnique, Undisturbed, Open, ResendsExclusive, StoresAlone, Inside, TypeOK
<1>8. HourBudget'
  BY DEF HourBudget, TypeOK
<1>9. LimitInvalidates'
  BY DEF LimitInvalidates, TypeOK
<1>10. QED
  BY <1>1, <1>2, <1>3, <1>4, <1>5, <1>6, <1>7, <1>8, <1>9

\* ResendPublish preserves the inductive invariant.
LEMMA ResendPublishIInv ==
  ASSUME IInv, NEW r \in Resender, ResendPublish(r)
  PROVE  IInv'
<1> USE RegistrationAssumption DEF IInv, ResendPublish, Go, AllSpent, RedisFails,
         RedisWorks, codeVars, counterVars, verifyVars, history
<1>1. TypeOK'
  BY DEF TypeOK, Status, Pending, Code, NoCode, VerifyStage, ResendStage, StoresFirst
<1>2. StoresFirst'
  BY DEF StoresFirst, TypeOK
<1>3. CommitMatches'
  BY DEF CommitMatches, TypeOK
<1>4. ActiveIsProven'
  BY DEF ActiveIsProven, TypeOK
<1>5. ResendsExclusive'
  BY DEF ResendsExclusive, Undisturbed, Inside, TypeOK
<1>6. StoresAlone'
  BY DEF StoresAlone, Undisturbed, Inside, TypeOK
<1>7. OpenUnique'
  BY DEF OpenUnique, Undisturbed, Open, TypeOK
<1>8. HourBudget'
  BY DEF HourBudget, TypeOK
<1>9. LimitInvalidates'
  BY DEF LimitInvalidates, TypeOK
<1>10. QED
  BY <1>1, <1>2, <1>3, <1>4, <1>5, <1>6, <1>7, <1>8, <1>9

\* LoginTooLate preserves the inductive invariant.
LEMMA LoginTooLateIInv ==
  ASSUME IInv, NEW r \in Resender, LoginTooLate(r)
  PROVE  IInv'
<1> USE RegistrationAssumption DEF IInv, LoginTooLate, Go, AllSpent, RedisFails,
         RedisWorks, codeVars, counterVars, verifyVars, history
<1>1. TypeOK'
  BY DEF TypeOK, Status, Pending, Code, NoCode, VerifyStage, ResendStage
<1>2. StoresFirst'
  BY DEF StoresFirst, TypeOK
<1>3. CommitMatches'
  BY DEF CommitMatches, TypeOK
<1>4. ActiveIsProven'
  BY DEF ActiveIsProven, TypeOK
<1>5. ResendsExclusive'
  BY DEF ResendsExclusive, Undisturbed, Inside, TypeOK
<1>6. StoresAlone'
  BY DEF StoresAlone, Undisturbed, Inside, TypeOK
<1>7. OpenUnique'
  BY DEF OpenUnique, Undisturbed, Open, TypeOK
<1>8. HourBudget'
  BY DEF HourBudget, TypeOK
<1>9. LimitInvalidates'
  BY DEF LimitInvalidates, TypeOK
<1>10. QED
  BY <1>1, <1>2, <1>3, <1>4, <1>5, <1>6, <1>7, <1>8, <1>9

\* LoginDeactivate preserves the inductive invariant.
LEMMA LoginDeactivateIInv ==
  ASSUME IInv, NEW r \in Resender, LoginDeactivate(r)
  PROVE  IInv'
<1> USE RegistrationAssumption DEF IInv, LoginDeactivate, Go, AllSpent, RedisFails,
         RedisWorks, codeVars, counterVars, verifyVars, history
<1>1. TypeOK'
  BY DEF TypeOK, Status, Pending, Code, NoCode, VerifyStage, ResendStage
<1>2. StoresFirst'
  BY DEF StoresFirst, TypeOK
<1>3. CommitMatches'
  BY DEF CommitMatches, TypeOK
<1>4. ActiveIsProven'
  BY DEF ActiveIsProven, TypeOK
<1>5. ResendsExclusive'
  BY DEF ResendsExclusive, Undisturbed, Inside, TypeOK
<1>6. StoresAlone'
  BY DEF StoresAlone, Undisturbed, Inside, TypeOK
<1>7. OpenUnique'
  BY DEF OpenUnique, Undisturbed, Open, TypeOK
<1>8. HourBudget'
  BY DEF HourBudget, TypeOK
<1>9. LimitInvalidates'
  BY DEF LimitInvalidates, TypeOK
<1>10. QED
  BY <1>1, <1>2, <1>3, <1>4, <1>5, <1>6, <1>7, <1>8, <1>9

\* SweepSelect preserves the inductive invariant.
LEMMA SweepSelectIInv ==
  ASSUME IInv, SweepSelect
  PROVE  IInv'
<1> USE RegistrationAssumption DEF IInv, SweepSelect, AllSpent, RedisFails, RedisWorks,
         codeVars, counterVars, verifyVars, history
<1>1. TypeOK'
  BY DEF TypeOK, Status, Pending, Code, NoCode, VerifyStage, ResendStage
<1>2. StoresFirst'
  BY DEF StoresFirst, TypeOK
<1>3. CommitMatches'
  BY DEF CommitMatches, TypeOK
<1>4. ActiveIsProven'
  BY DEF ActiveIsProven, TypeOK
<1>5. ResendsExclusive'
  BY DEF ResendsExclusive, Undisturbed, Inside, TypeOK
<1>6. StoresAlone'
  BY DEF StoresAlone, Undisturbed, Inside, TypeOK
<1>7. OpenUnique'
  BY DEF OpenUnique, Undisturbed, Open, TypeOK
<1>8. HourBudget'
  BY DEF HourBudget, TypeOK
<1>9. LimitInvalidates'
  BY DEF LimitInvalidates, TypeOK
<1>10. QED
  BY <1>1, <1>2, <1>3, <1>4, <1>5, <1>6, <1>7, <1>8, <1>9

\* SweepVoid preserves the inductive invariant.
LEMMA SweepVoidIInv ==
  ASSUME IInv, SweepVoid
  PROVE  IInv'
<1> USE RegistrationAssumption DEF IInv, SweepVoid, AllSpent, RedisFails, RedisWorks,
         codeVars, counterVars, verifyVars, history
<1>1. TypeOK'
  BY DEF TypeOK, Status, Pending, Code, NoCode, VerifyStage, ResendStage
<1>2. StoresFirst'
  BY DEF StoresFirst, TypeOK
<1>3. CommitMatches'
  BY DEF CommitMatches, TypeOK
<1>4. ActiveIsProven'
  BY DEF ActiveIsProven, TypeOK
<1>5. ResendsExclusive'
  BY DEF ResendsExclusive, Undisturbed, Inside, TypeOK
<1>6. StoresAlone'
  BY DEF StoresAlone, Undisturbed, Inside, TypeOK
<1>7. OpenUnique'
  BY DEF OpenUnique, Undisturbed, Open, TypeOK
<1>8. HourBudget'
  BY DEF HourBudget, TypeOK
<1>9. LimitInvalidates'
  BY DEF LimitInvalidates, TypeOK
<1>10. QED
  BY <1>1, <1>2, <1>3, <1>4, <1>5, <1>6, <1>7, <1>8, <1>9

\* SweepDeactivate preserves the inductive invariant.
LEMMA SweepDeactivateIInv ==
  ASSUME IInv, SweepDeactivate
  PROVE  IInv'
<1> USE RegistrationAssumption DEF IInv, SweepDeactivate, AllSpent, RedisFails,
         RedisWorks, codeVars, counterVars, verifyVars, history
<1>1. TypeOK'
  BY DEF TypeOK, Status, Pending, Code, NoCode, VerifyStage, ResendStage
<1>2. StoresFirst'
  BY DEF StoresFirst, TypeOK
<1>3. CommitMatches'
  BY DEF CommitMatches, TypeOK
<1>4. ActiveIsProven'
  BY DEF ActiveIsProven, TypeOK
<1>5. ResendsExclusive'
  BY DEF ResendsExclusive, Undisturbed, Inside, TypeOK
<1>6. StoresAlone'
  BY DEF StoresAlone, Undisturbed, Inside, TypeOK
<1>7. OpenUnique'
  BY DEF OpenUnique, Undisturbed, Open, TypeOK
<1>8. HourBudget'
  BY DEF HourBudget, TypeOK
<1>9. LimitInvalidates'
  BY DEF LimitInvalidates, TypeOK
<1>10. QED
  BY <1>1, <1>2, <1>3, <1>4, <1>5, <1>6, <1>7, <1>8, <1>9

\* SweepFails preserves the inductive invariant.
LEMMA SweepFailsIInv ==
  ASSUME IInv, SweepFails
  PROVE  IInv'
<1> USE RegistrationAssumption DEF IInv, SweepFails, AllSpent, RedisFails, RedisWorks,
         codeVars, counterVars, verifyVars, history
<1>1. TypeOK'
  BY DEF TypeOK, Status, Pending, Code, NoCode, VerifyStage, ResendStage
<1>2. StoresFirst'
  BY DEF StoresFirst, TypeOK
<1>3. CommitMatches'
  BY DEF CommitMatches, TypeOK
<1>4. ActiveIsProven'
  BY DEF ActiveIsProven, TypeOK
<1>5. ResendsExclusive'
  BY DEF ResendsExclusive, Undisturbed, Inside, TypeOK
<1>6. StoresAlone'
  BY DEF StoresAlone, Undisturbed, Inside, TypeOK
<1>7. OpenUnique'
  BY DEF OpenUnique, Undisturbed, Open, TypeOK
<1>8. HourBudget'
  BY DEF HourBudget, TypeOK
<1>9. LimitInvalidates'
  BY DEF LimitInvalidates, TypeOK
<1>10. QED
  BY <1>1, <1>2, <1>3, <1>4, <1>5, <1>6, <1>7, <1>8, <1>9

\* SuspendRead preserves the inductive invariant.
LEMMA SuspendReadIInv ==
  ASSUME IInv, NEW a \in Admin, SuspendRead(a)
  PROVE  IInv'
<1> USE RegistrationAssumption DEF IInv, SuspendRead, AllSpent, RedisFails, RedisWorks,
         codeVars, counterVars, verifyVars, history
<1>1. TypeOK'
  BY DEF TypeOK, Status, Pending, Code, NoCode, VerifyStage, ResendStage
<1>2. StoresFirst'
  BY DEF StoresFirst, TypeOK
<1>3. CommitMatches'
  BY DEF CommitMatches, TypeOK
<1>4. ActiveIsProven'
  BY DEF ActiveIsProven, TypeOK
<1>5. ResendsExclusive'
  BY DEF ResendsExclusive, Undisturbed, Inside, TypeOK
<1>6. StoresAlone'
  BY DEF StoresAlone, Undisturbed, Inside, TypeOK
<1>7. OpenUnique'
  BY DEF OpenUnique, Undisturbed, Open, TypeOK
<1>8. HourBudget'
  BY DEF HourBudget, TypeOK
<1>9. LimitInvalidates'
  BY DEF LimitInvalidates, TypeOK
<1>10. QED
  BY <1>1, <1>2, <1>3, <1>4, <1>5, <1>6, <1>7, <1>8, <1>9

\* UnsuspendRead preserves the inductive invariant.
LEMMA UnsuspendReadIInv ==
  ASSUME IInv, NEW a \in Admin, UnsuspendRead(a)
  PROVE  IInv'
<1> USE RegistrationAssumption DEF IInv, UnsuspendRead, AllSpent, RedisFails, RedisWorks,
         codeVars, counterVars, verifyVars, history
<1>1. TypeOK'
  BY DEF TypeOK, Status, Pending, Code, NoCode, VerifyStage, ResendStage
<1>2. StoresFirst'
  BY DEF StoresFirst, TypeOK
<1>3. CommitMatches'
  BY DEF CommitMatches, TypeOK
<1>4. ActiveIsProven'
  BY DEF ActiveIsProven, TypeOK
<1>5. ResendsExclusive'
  BY DEF ResendsExclusive, Undisturbed, Inside, TypeOK
<1>6. StoresAlone'
  BY DEF StoresAlone, Undisturbed, Inside, TypeOK
<1>7. OpenUnique'
  BY DEF OpenUnique, Undisturbed, Open, TypeOK
<1>8. HourBudget'
  BY DEF HourBudget, TypeOK
<1>9. LimitInvalidates'
  BY DEF LimitInvalidates, TypeOK
<1>10. QED
  BY <1>1, <1>2, <1>3, <1>4, <1>5, <1>6, <1>7, <1>8, <1>9

\* Suspend preserves the inductive invariant.
LEMMA SuspendIInv ==
  ASSUME IInv, NEW a \in Admin, Suspend(a)
  PROVE  IInv'
<1> USE RegistrationAssumption DEF IInv, Suspend, AllSpent, RedisFails, RedisWorks,
         codeVars, counterVars, verifyVars, history
<1>1. TypeOK'
  BY DEF TypeOK, Status, Pending, Code, NoCode, VerifyStage, ResendStage
<1>2. StoresFirst'
  BY DEF StoresFirst, TypeOK
<1>3. CommitMatches'
  BY DEF CommitMatches, TypeOK
<1>4. ActiveIsProven'
  BY DEF ActiveIsProven, TypeOK
<1>5. ResendsExclusive'
  BY DEF ResendsExclusive, Undisturbed, Inside, TypeOK
<1>6. StoresAlone'
  BY DEF StoresAlone, Undisturbed, Inside, TypeOK
<1>7. OpenUnique'
  BY DEF OpenUnique, Undisturbed, Open, TypeOK
<1>8. HourBudget'
  BY DEF HourBudget, TypeOK
<1>9. LimitInvalidates'
  BY DEF LimitInvalidates, TypeOK
<1>10. QED
  BY <1>1, <1>2, <1>3, <1>4, <1>5, <1>6, <1>7, <1>8, <1>9

\* Unsuspend preserves the inductive invariant.
LEMMA UnsuspendIInv ==
  ASSUME IInv, NEW a \in Admin, Unsuspend(a)
  PROVE  IInv'
<1> USE RegistrationAssumption DEF IInv, Unsuspend, AllSpent, RedisFails, RedisWorks,
         codeVars, counterVars, verifyVars, history
<1>1. TypeOK'
  BY DEF TypeOK, Status, Pending, Code, NoCode, VerifyStage, ResendStage
<1>2. StoresFirst'
  BY DEF StoresFirst, TypeOK
<1>3. CommitMatches'
  BY DEF CommitMatches, TypeOK
<1>4. ActiveIsProven'
  BY DEF ActiveIsProven, TypeOK
<1>5. ResendsExclusive'
  BY DEF ResendsExclusive, Undisturbed, Inside, TypeOK
<1>6. StoresAlone'
  BY DEF StoresAlone, Undisturbed, Inside, TypeOK
<1>7. OpenUnique'
  BY DEF OpenUnique, Undisturbed, Open, TypeOK
<1>8. HourBudget'
  BY DEF HourBudget, TypeOK
<1>9. LimitInvalidates'
  BY DEF LimitInvalidates, TypeOK
<1>10. QED
  BY <1>1, <1>2, <1>3, <1>4, <1>5, <1>6, <1>7, <1>8, <1>9

\* DayPasses preserves the inductive invariant.
LEMMA DayPassesIInv ==
  ASSUME IInv, DayPasses
  PROVE  IInv'
<1> USE RegistrationAssumption DEF IInv, DayPasses, AllSpent, RedisFails, RedisWorks,
         codeVars, counterVars, verifyVars, history
<1>1. TypeOK'
  BY DEF TypeOK, Status, Pending, Code, NoCode, VerifyStage, ResendStage
<1>2. StoresFirst'
  BY DEF StoresFirst, TypeOK
<1>3. CommitMatches'
  BY DEF CommitMatches, TypeOK
<1>4. ActiveIsProven'
  BY DEF ActiveIsProven, TypeOK
<1>5. ResendsExclusive'
  BY DEF ResendsExclusive, Undisturbed, Inside, TypeOK
<1>6. StoresAlone'
  BY DEF StoresAlone, Undisturbed, Inside, TypeOK
<1>7. OpenUnique'
  BY DEF OpenUnique, Undisturbed, Open, TypeOK
<1>8. HourBudget'
  BY DEF HourBudget, TypeOK
<1>9. LimitInvalidates'
  BY DEF LimitInvalidates, TypeOK
<1>10. QED
  BY <1>1, <1>2, <1>3, <1>4, <1>5, <1>6, <1>7, <1>8, <1>9

\* CodeExpires preserves the inductive invariant.
LEMMA CodeExpiresIInv ==
  ASSUME IInv, NEW c \in Code, CodeExpires(c)
  PROVE  IInv'
<1> USE RegistrationAssumption DEF IInv, CodeExpires, AllSpent, RedisFails, RedisWorks,
         codeVars, counterVars, verifyVars, history
<1>1. TypeOK'
  BY DEF TypeOK, Status, Pending, Code, NoCode, VerifyStage, ResendStage
<1>2. StoresFirst'
  BY DEF StoresFirst, TypeOK
<1>3. CommitMatches'
  BY DEF CommitMatches, TypeOK
<1>4. ActiveIsProven'
  BY DEF ActiveIsProven, TypeOK
<1>5. ResendsExclusive'
  BY DEF ResendsExclusive, Undisturbed, Inside, TypeOK
<1>6. StoresAlone'
  BY DEF StoresAlone, Undisturbed, Inside, TypeOK
<1>7. OpenUnique'
  BY DEF OpenUnique, Undisturbed, Open, TypeOK
<1>8. HourBudget'
  BY DEF HourBudget, TypeOK
<1>9. LimitInvalidates'
  BY DEF LimitInvalidates, TypeOK
<1>10. QED
  BY <1>1, <1>2, <1>3, <1>4, <1>5, <1>6, <1>7, <1>8, <1>9

\* AttemptsExpire preserves the inductive invariant.
LEMMA AttemptsExpireIInv ==
  ASSUME IInv, AttemptsExpire
  PROVE  IInv'
<1> USE RegistrationAssumption DEF IInv, AttemptsExpire, AllSpent, RedisFails,
         RedisWorks, codeVars, counterVars, verifyVars, history
<1>1. TypeOK'
  BY DEF TypeOK, Status, Pending, Code, NoCode, VerifyStage, ResendStage
<1>2. StoresFirst'
  BY DEF StoresFirst, TypeOK
<1>3. CommitMatches'
  BY DEF CommitMatches, TypeOK
<1>4. ActiveIsProven'
  BY DEF ActiveIsProven, TypeOK
<1>5. ResendsExclusive'
  BY DEF ResendsExclusive, Undisturbed, Inside, TypeOK
<1>6. StoresAlone'
  BY DEF StoresAlone, Undisturbed, Inside, TypeOK
<1>7. OpenUnique'
  BY DEF OpenUnique, Undisturbed, Open, TypeOK
<1>8. HourBudget'
  BY DEF HourBudget, TypeOK
<1>9. LimitInvalidates'
  BY DEF LimitInvalidates, TypeOK
<1>10. QED
  BY <1>1, <1>2, <1>3, <1>4, <1>5, <1>6, <1>7, <1>8, <1>9

\* HourPasses preserves the inductive invariant.
LEMMA HourPassesIInv ==
  ASSUME IInv, HourPasses
  PROVE  IInv'
<1> USE RegistrationAssumption DEF IInv, HourPasses, AllSpent, RedisFails, RedisWorks,
         codeVars, counterVars, verifyVars, history
<1>1. TypeOK'
  BY DEF TypeOK, Status, Pending, Code, NoCode, VerifyStage, ResendStage
<1>2. StoresFirst'
  BY DEF StoresFirst, TypeOK
<1>3. CommitMatches'
  BY DEF CommitMatches, TypeOK
<1>4. ActiveIsProven'
  BY DEF ActiveIsProven, TypeOK
<1>5. ResendsExclusive'
  BY DEF ResendsExclusive, Undisturbed, Inside, TypeOK
<1>6. StoresAlone'
  BY DEF StoresAlone, Undisturbed, Inside, TypeOK
<1>7. OpenUnique'
  BY DEF OpenUnique, Undisturbed, Open, TypeOK
<1>8. HourBudget'
  BY FS_EmptySet DEF HourBudget, TypeOK
<1>9. LimitInvalidates'
  BY DEF LimitInvalidates, TypeOK
<1>10. QED
  BY <1>1, <1>2, <1>3, <1>4, <1>5, <1>6, <1>7, <1>8, <1>9

\* CooldownExpires preserves the inductive invariant.
LEMMA CooldownExpiresIInv ==
  ASSUME IInv, CooldownExpires
  PROVE  IInv'
<1> USE RegistrationAssumption DEF IInv, CooldownExpires, AllSpent, RedisFails,
         RedisWorks, codeVars, counterVars, verifyVars, history
<1>1. TypeOK'
  BY DEF TypeOK, Status, Pending, Code, NoCode, VerifyStage, ResendStage
<1>2. StoresFirst'
  BY DEF StoresFirst, TypeOK
<1>3. CommitMatches'
  BY DEF CommitMatches, TypeOK
<1>4. ActiveIsProven'
  BY DEF ActiveIsProven, TypeOK
<1>5. ResendsExclusive'
  BY DEF ResendsExclusive, Undisturbed, Inside, TypeOK
<1>6. StoresAlone'
  BY DEF StoresAlone, Undisturbed, Inside, TypeOK
<1>7. OpenUnique'
  BY DEF OpenUnique, Undisturbed, Open, TypeOK
<1>8. HourBudget'
  BY DEF HourBudget, TypeOK
<1>9. LimitInvalidates'
  BY DEF LimitInvalidates, TypeOK
<1>10. QED
  BY <1>1, <1>2, <1>3, <1>4, <1>5, <1>6, <1>7, <1>8, <1>9

\* Every step preserves the inductive invariant.
LEMMA NextIInv == IInv /\ [Next]_vars => IInv'
<1> SUFFICES ASSUME IInv, [Next]_vars PROVE IInv'
  OBVIOUS
<1>1. CASE Next
  BY <1>1, PublishFirstIInv, VerifyStartIInv, VerifyReadIInv, VerifyMissIInv,
     VerifyVoidIInv, VerifyCommitIInv, VerifyClearIInv, ResendStartIInv,
     ResendHourlyIInv, ResendCooldownIInv, ResendInvalidateIInv, ResendClearIInv,
     ResendStoreIInv, ResendPublishIInv, LoginTooLateIInv, LoginDeactivateIInv,
     SweepSelectIInv, SweepVoidIInv, SweepDeactivateIInv, SweepFailsIInv,
     SuspendReadIInv, UnsuspendReadIInv, SuspendIInv, UnsuspendIInv, DayPassesIInv,
     CodeExpiresIInv, AttemptsExpireIInv, HourPassesIInv, CooldownExpiresIInv DEF Next,
         VerifyNext, ResendNext, SweepNext, AdminNext,
         TimePasses
<1>2. CASE UNCHANGED vars
  BY <1>2 DEF vars, IInv, TypeOK, StoresFirst, CommitMatches, ActiveIsProven,
         ResendsExclusive, StoresAlone, OpenUnique, HourBudget, LimitInvalidates, Status,
         Pending, Code, NoCode, VerifyStage, ResendStage, Undisturbed, Inside, Open,
         codeVars, counterVars, verifyVars, history
<1>3. QED
  BY <1>1, <1>2

\* The inductive invariant holds throughout.
THEOREM Invariance == Spec => []IInv
<1>1. Init => IInv
  BY InitIInv
<1>2. IInv /\ [Next]_vars => IInv'
  BY NextIInv
<1>3. QED
  BY <1>1, <1>2, PTL DEF Spec

\* Every variable keeps its type.
THEOREM TypeCorrect == Spec => []TypeOK
<1>1. IInv => TypeOK
  BY DEF IInv
<1>2. QED
  BY <1>1, Invariance, PTL

\* An account becomes active only by its newest code or by an administrator.
THEOREM ActivationProven == Spec => []ActiveIsProven
<1>1. IInv => ActiveIsProven
  BY DEF IInv
<1>2. QED
  BY <1>1, Invariance, PTL

\* While Redis answers, the hourly limit bounds the resends admitted in an hour,
\* and overlapping resends leave one code open if the cooldown outlasts the
\* resend that armed it; a counter at its limit always has a request that voids
\* the code.
THEOREM CodesStaySound == Spec => []CodesSound
<1>1. IInv => OneOpenCode
  <2> SUFFICES ASSUME IInv, Undisturbed PROVE Cardinality(Open) <= 1
    BY DEF OneOpenCode, Undisturbed
  <2>1. CASE Open = {}
    BY <2>1, FS_EmptySet
  <2>2. CASE Open # {}
    <3>1. PICK c \in Open : Open = {c}
      BY <2>2 DEF IInv, OpenUnique
    <3>2. QED
      BY <3>1, FS_Singleton
  <2>3. QED
    BY <2>1, <2>2
<1>2. IInv => ResendBudget
  BY DEF IInv, HourBudget, ResendBudget
<1>3. IInv => LimitInvalidates
  BY DEF IInv
<1>4. IInv => CodesSound
  BY <1>1, <1>2, <1>3 DEF CodesSound
<1>5. QED
  BY <1>4, Invariance, PTL
==============================================================================
