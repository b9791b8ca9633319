--------------------------- MODULE EmailQueueProofs ---------------------------
(***************************************************************************)
(* Machine-checked facts about EmailQueue for any number of keys, callers, *)
(* slots, attempts and faults.                                             *)
(*                                                                         *)
(* The invariant keeps a ledger per key: what has been accepted, set off   *)
(* against what was lost, left unclear or forgotten (Balanced), what has   *)
(* been told (Told) and what can no longer happen to a job (Final).        *)
(***************************************************************************)
EXTENDS EmailQueue, FiniteSetTheorems, TLAPS

Stage == {"idle", "taken", "sending", "replied"}

Shaped ==
  /\ call \in [Caller -> [at : {"idle", "adding", "late"}, key : Key \cup {None}]]
  /\ \A c \in Caller : call[c].at # "idle" => call[c].key \in Key
  /\ job \in [Key -> JobRow]
  /\ wait \in Seq(Key)
  /\ kept \in [Ended -> Seq(Key)]
  /\ slot \in [Worker -> Slot]
  /\ \A w \in Worker : slot[w].at # "idle" => slot[w].key \in Key /\ slot[w].made < Attempts
  /\ \A w \in Worker : slot[w].at = "replied" => slot[w].outcome # None
  /\ published \in 0..MaxPublish
  /\ faults \in 0..MaxFaults
  /\ count \in [Key -> Count]

\* A job is in one line at most, and there once.
Within(s, k) == \E i \in 1..Len(s) : s[i] = k
Single(s)    == \A i, j \in 1..Len(s) : s[i] = s[j] => i = j

Lines == Single(wait) /\ \A e \in Ended : Single(kept[e])

Placed(k) ==
  /\ Within(wait, k) <=> job[k].state = "waiting"
  /\ \A e \in Ended : Within(kept[e], k) => job[k].state = e

Bounded(k) == job[k].state \in Pending => job[k].made < Attempts /\ job[k].stalled <= MaxStalled

\* A lock is held by a slot that works on a copy of the job that is not stale.
Works4(w, k) == slot[w].at # "idle" /\ slot[w].key = k
Locked(k) ==
  /\ job[k].owner # None => /\ job[k].state = "active" /\ Works4(job[k].owner, k)
                            /\ slot[job[k].owner].made = job[k].made
  /\ count[k].lost = 0 => \A w \in Worker : Works4(w, k) => job[k].owner = w

\* Attempts that may still be mailed: those that are under way, and one more
\* while the job can be taken again.
Open(k) == {w \in Worker : slot[w].key = k /\ slot[w].at \in {"taken", "sending"}}
Retriable(w) == slot[w].at = "replied" /\ slot[w].outcome = "transient"
Future(k) ==
  \/ job[k].state \in {"absent", "waiting", "delayed"}
  \/ job[k].state = "active" /\ (job[k].owner = None \/ Retriable(job[k].owner))

Balanced(k) ==
  /\ IsFiniteSet(Open(k))
  /\ count[k].accepted + Cardinality(Open(k)) + (IF Future(k) THEN 1 ELSE 0)
       <= 1 + count[k].lost + count[k].unclear + count[k].forgotten

\* What the holder of the lock has heard is on record.
Last(w) == slot[w].outcome = "permanent" \/ (slot[w].outcome = "transient" /\ slot[w].made + 1 >= Attempts)
Told(k) ==
  LET w == job[k].owner IN
  w # None /\ slot[w].at = "replied" =>
    /\ slot[w].outcome = "sent" => count[k].mailed
    /\ Last(w) => count[k].reported
    /\ count[k].lost = 0 /\ slot[w].outcome = "transient" => ~count[k].refused
    /\ count[k].lost = 0 /\ slot[w].outcome = "permanent" => count[k].refused

\* A failure that is on record as the last word is, unless a lock was lost.
Final(k) ==
  count[k].reported /\ count[k].lost = 0 =>
    /\ job[k].state \notin {"waiting", "delayed"}
    /\ job[k].state = "active" =>
         job[k].owner # None /\ slot[job[k].owner].at = "replied" /\ Last(job[k].owner)

KeySound(k) == Placed(k) /\ Bounded(k) /\ Locked(k) /\ Balanced(k) /\ Told(k) /\ Final(k)

Inv == Shaped /\ Lines /\ \A k \in Key : KeySound(k)

-----------------------------------------------------------------------------

LEMMA AppendIs ==
  ASSUME NEW S, NEW s \in Seq(S), NEW x \in S
  PROVE  /\ Append(s, x) \in Seq(S) /\ Append(s, x) # <<>>
         /\ \A y : Within(Append(s, x), y) <=> Within(s, y) \/ y = x
         /\ Single(s) /\ ~Within(s, x) => Single(Append(s, x))
<1> DEFINE t == Append(s, x)
<1>1. /\ t \in Seq(S) /\ Len(t) = Len(s) + 1 /\ t[Len(s) + 1] = x /\ t # <<>>
      /\ \A i \in 1..Len(s) : t[i] = s[i]
  OBVIOUS
<1>2. Len(s) \in Nat
  OBVIOUS
<1> HIDE DEF t
<1>3. \A y : Within(t, y) <=> Within(s, y) \/ y = x
  BY <1>1, <1>2 DEF Within
<1>4. Single(s) /\ ~Within(s, x) => Single(t)
  BY <1>1, <1>2 DEF Within, Single
<1>. QED BY <1>1, <1>3, <1>4 DEF t

LEMMA TailIs ==
  ASSUME NEW S, NEW s \in Seq(S), s # <<>>, Single(s)
  PROVE  /\ Tail(s) \in Seq(S) /\ Head(s) \in S /\ Within(s, Head(s)) /\ Single(Tail(s))
         /\ \A y : Within(Tail(s), y) <=> Within(s, y) /\ y # Head(s)
<1> DEFINE t == Tail(s)
<1>1. /\ t \in Seq(S) /\ Len(s) \in Nat \ {0} /\ Len(t) = Len(s) - 1 /\ Head(s) = s[1] /\ s[1] \in S
      /\ \A i \in 1..Len(t) : t[i] = s[i + 1]
  OBVIOUS
<1> HIDE DEF t
<1>2. Within(s, Head(s))
  BY <1>1 DEF Within
<1>3. Single(t)
  BY <1>1 DEF Single
<1>4. ASSUME NEW y, Within(t, y) PROVE Within(s, y) /\ y # Head(s)
  BY <1>1, <1>4 DEF Within, Single
<1>5. ASSUME NEW y, Within(s, y), y # Head(s) PROVE Within(t, y)
  <2>1. PICK i \in 1..Len(s) : s[i] = y
    BY <1>5 DEF Within
  <2>2. i # 1 /\ i - 1 \in 1..Len(t)
    BY <1>1, <1>5, <2>1
  <2>3. t[i - 1] = y
    BY <1>1, <2>1, <2>2
  <2>. QED BY <2>2, <2>3 DEF Within
<1>. QED BY <1>1, <1>2, <1>3, <1>4, <1>5 DEF t

LEMMA ConsIs ==
  ASSUME NEW S, NEW s \in Seq(S), NEW x \in S
  PROVE  /\ <<x>> \o s \in Seq(S)
         /\ \A y : Within(<<x>> \o s, y) <=> Within(s, y) \/ y = x
         /\ Single(s) /\ ~Within(s, x) => Single(<<x>> \o s)
<1> DEFINE t == <<x>> \o s
<1>1. /\ t \in Seq(S) /\ Len(s) \in Nat /\ Len(t) = Len(s) + 1 /\ t[1] = x
      /\ \A i \in 1..Len(s) : t[i + 1] = s[i]
  OBVIOUS
<1> HIDE DEF t
<1>2. \A i \in 1..Len(t) : i = 1 \/ (i - 1 \in 1..Len(s) /\ t[i] = s[i - 1])
  <2> SUFFICES ASSUME NEW i \in 1..Len(t), i # 1 PROVE i - 1 \in 1..Len(s) /\ t[i] = s[i - 1]
    OBVIOUS
  <2>1. i - 1 \in 1..Len(s) /\ (i - 1) + 1 = i
    BY <1>1
  <2>2. t[(i - 1) + 1] = s[i - 1]
    BY <1>1, <2>1
  <2>. QED BY <2>1, <2>2
<1>3. ASSUME NEW y, Within(t, y) PROVE Within(s, y) \/ y = x
  BY <1>1, <1>2, <1>3 DEF Within
<1>4. ASSUME NEW y, Within(s, y) \/ y = x PROVE Within(t, y)
  <2>1. CASE y = x
    BY <1>1, <2>1 DEF Within
  <2>2. CASE Within(s, y)
    <3>1. PICK i \in 1..Len(s) : s[i] = y
      BY <2>2 DEF Within
    <3>2. i + 1 \in 1..Len(t) /\ t[i + 1] = y
      BY <1>1, <3>1
    <3>. QED BY <3>2 DEF Within
  <2>. QED BY <1>4, <2>1, <2>2
<1>5. Single(s) /\ ~Within(s, x) => Single(t)
  <2> SUFFICES ASSUME Single(s), ~Within(s, x), NEW i \in 1..Len(t), NEW j \in 1..Len(t), t[i] = t[j]
               PROVE  i = j
    BY DEF Single
  <2>1. CASE i = 1 /\ j = 1
    BY <2>1
  <2>2. CASE i = 1 /\ j # 1
    BY <1>1, <1>2, <2>2 DEF Within
  <2>3. CASE i # 1 /\ j = 1
    BY <1>1, <1>2, <2>3 DEF Within
  <2>4. CASE i # 1 /\ j # 1
    <3>1. i - 1 \in 1..Len(s) /\ j - 1 \in 1..Len(s) /\ s[i - 1] = s[j - 1]
      BY <1>2, <2>4
    <3>2. i - 1 = j - 1
      BY <3>1 DEF Single
    <3>. QED BY <3>2
  <2>. QED BY <2>1, <2>2, <2>3, <2>4
<1>. QED BY <1>1, <1>3, <1>4, <1>5 DEF t

-----------------------------------------------------------------------------

LEMMA RowFields ==
  ASSUME NEW x \in JobRow
  PROVE  /\ x.state \in Pending \cup Ended \cup {"absent"} /\ x.made \in 0..Attempts
         /\ x.stalled \in 0..MaxStalled + 1 /\ x.owner \in Worker \cup {None}
BY DEF JobRow

LEMMA SlotFields ==
  ASSUME NEW x \in Slot
  PROVE  /\ x.at \in Stage /\ x.key \in Key \cup {None} /\ x.made \in 0..Attempts
         /\ x.outcome \in {None, "sent", "transient", "permanent"}
BY DEF Slot, Stage

LEMMA CountFields ==
  ASSUME NEW x \in Count
  PROVE  /\ x.accepted \in Nat /\ x.lost \in Nat /\ x.unclear \in Nat /\ x.forgotten \in Nat
         /\ x.started \in Nat /\ x.mailed \in BOOLEAN /\ x.reported \in BOOLEAN /\ x.refused \in BOOLEAN
BY DEF Count

LEMMA NothingYet ==
  /\ NoJob \in JobRow /\ NoJob.state = "absent" /\ NoJob.owner = None /\ NoJob.made = 0 /\ NoJob.stalled = 0
  /\ NewJob \in JobRow /\ NewJob.state = "waiting" /\ NewJob.owner = None /\ NewJob.made = 0
  /\ NewJob.stalled = 0
  /\ Free \in Slot /\ Free.at = "idle" /\ Free.outcome = None
  /\ NoCount \in Count /\ NoCount.accepted = 0 /\ NoCount.lost = 0 /\ NoCount.unclear = 0
  /\ NoCount.forgotten = 0 /\ ~NoCount.reported
<1>1. 0 \in 0..Attempts /\ 0 \in 0..MaxStalled + 1 /\ None \in Worker \cup {None} /\ None \in Key \cup {None}
  BY QueueAssumption
<1>2. NoJob \in JobRow /\ NoJob.state = "absent" /\ NoJob.owner = None /\ NoJob.made = 0 /\ NoJob.stalled = 0
  BY <1>1 DEF NoJob, JobRow
<1>3. /\ NewJob \in JobRow /\ NewJob.state = "waiting" /\ NewJob.owner = None /\ NewJob.made = 0
      /\ NewJob.stalled = 0
  BY <1>1 DEF NoJob, NewJob, JobRow, Pending
<1>4. Free \in Slot /\ Free.at = "idle" /\ Free.outcome = None
  BY <1>1 DEF Free, Slot
<1>5. /\ NoCount \in Count /\ NoCount.accepted = 0 /\ NoCount.lost = 0 /\ NoCount.unclear = 0
      /\ NoCount.forgotten = 0 /\ ~NoCount.reported
  BY DEF NoCount, Count
<1>. QED BY <1>2, <1>3, <1>4, <1>5

LEMMA Now ==
  ASSUME Inv, NEW k \in Key
  PROVE  job[k] \in JobRow /\ count[k] \in Count /\ KeySound(k)
BY DEF Inv, Shaped

\* A step that leaves a key alone.
LEMMA KeyStays ==
  ASSUME Inv, NEW k \in Key, job'[k] = job[k], count'[k] = count[k],
         Within(wait, k)' <=> Within(wait, k),
         \A e \in Ended : Within(kept'[e], k) => Within(kept[e], k),
         \A w \in Worker : slot'[w] = slot[w] \/ (~Works4(w, k) /\ ~Works4(w, k)')
  PROVE  KeySound(k)'
<1>0. job[k] \in JobRow /\ count[k] \in Count /\ KeySound(k)
  BY Now
<1>1. Placed(k)' /\ Bounded(k)'
  BY <1>0 DEF KeySound, Placed, Bounded
<1>2. \A w \in Worker : Works4(w, k)' <=> Works4(w, k)
  BY DEF Works4
<1>3. job[k].owner # None => job[k].owner \in Worker /\ slot'[job[k].owner] = slot[job[k].owner]
  BY <1>0, RowFields DEF KeySound, Locked
<1>4. Locked(k)'
  BY <1>0, <1>2, <1>3 DEF KeySound, Locked
<1>5. Open(k)' = Open(k)
  BY DEF Open, Works4
<1>6. Future(k)' <=> Future(k)
  BY <1>3 DEF Future, Retriable
<1>7. Balanced(k)'
  BY <1>0, <1>5, <1>6 DEF KeySound, Balanced
<1>8. Told(k)' /\ Final(k)'
  BY <1>0, <1>3 DEF KeySound, Told, Final, Last
<1>. QED BY <1>1, <1>4, <1>7, <1>8 DEF KeySound

LEMMA MailStarts == Init => Inv
<1> SUFFICES ASSUME Init PROVE Inv
  OBVIOUS
<1> USE DEF Init
<1>1. Shaped
  BY NothingYet, QueueAssumption DEF Shaped
<1>2. Lines /\ \A k : ~Within(wait, k) /\ \A e \in Ended : ~Within(kept[e], k)
  BY DEF Lines, Single, Within
<1>3. ASSUME NEW k \in Key PROVE KeySound(k)
  <2>1. job[k] = NoJob /\ count[k] = NoCount /\ \A w \in Worker : slot[w] = Free
    OBVIOUS
  <2>2. Open(k) = {}
    BY <2>1, NothingYet DEF Open
  <2>3. IsFiniteSet(Open(k)) /\ Cardinality(Open(k)) = 0
    BY <2>2, FS_EmptySet
  <2>4. Placed(k) /\ Bounded(k)
    BY <1>2, <2>1, NothingYet, QueueAssumption DEF Placed, Bounded, Ended, Pending
  <2>5. Locked(k) /\ Told(k) /\ Final(k)
    BY <2>1, NothingYet DEF Locked, Told, Final, Works4
  <2>6. Balanced(k)
    BY <2>1, <2>3, NothingYet DEF Balanced
  <2>. QED BY <2>4, <2>5, <2>6 DEF KeySound
<1>. QED BY <1>1, <1>2, <1>3 DEF Inv

\* Steps of a caller that leave the queue alone.
LEMMA CallersKeep ==
  ASSUME Inv, UNCHANGED <<job, wait, kept, slot, faults, count>>, published' \in 0..MaxPublish,
         call' \in [Caller -> [at : {"idle", "adding", "late"}, key : Key \cup {None}]],
         \A c \in Caller : call'[c].at # "idle" => call'[c].key \in Key
  PROVE  Inv'
<1>1. Shaped' /\ Lines'
  BY DEF Inv, Shaped, Lines
<1>2. \A k \in Key : KeySound(k)'
  BY KeyStays
<1>. QED BY <1>1, <1>2 DEF Inv

LEMMA PublishKeeps ==
  ASSUME Inv, NEW c \in Caller, NEW k \in Key, Publish(c, k)
  PROVE  Inv'
<1>1. published' \in 0..MaxPublish /\ UNCHANGED <<job, wait, kept, slot, faults, count>>
  BY QueueAssumption DEF Publish, Quiet, Inv, Shaped
<1>2. call' = [call EXCEPT ![c] = [at |-> "adding", key |-> k]]
  BY DEF Publish
<1>. QED BY <1>1, <1>2, CallersKeep DEF Inv, Shaped

LEMMA AddFailsKeeps ==
  ASSUME Inv, NEW c \in Caller, AddFails(c)
  PROVE  Inv'
<1>1. published' \in 0..MaxPublish /\ UNCHANGED <<job, wait, kept, slot, faults, count>>
  BY DEF AddFails, Quiet, Inv, Shaped
<1>2. call' = [call EXCEPT ![c] = [at |-> "idle", key |-> None]]
  BY DEF AddFails
<1>. QED BY <1>1, <1>2, CallersKeep DEF Inv, Shaped

LEMMA DeadlineKeeps ==
  ASSUME Inv, NEW c \in Caller, Deadline(c)
  PROVE  Inv'
<1>1. published' \in 0..MaxPublish /\ UNCHANGED <<job, wait, kept, slot, faults, count>>
  BY DEF Deadline, Quiet, Inv, Shaped
<1>2. call' = [call EXCEPT ![c].at = "late"] /\ call[c].at = "adding"
  BY DEF Deadline
<1>3. /\ call[c] \in [at : {"idle", "adding", "late"}, key : Key \cup {None}]
      /\ call[c].key \in Key
  BY <1>2 DEF Inv, Shaped
<1>4. /\ [call[c] EXCEPT !.at = "late"] \in [at : {"idle", "adding", "late"}, key : Key \cup {None}]
      /\ [call[c] EXCEPT !.at = "late"].key \in Key
  BY <1>3
<1>5. \A d \in Caller : call'[d] = IF d = c THEN [call[c] EXCEPT !.at = "late"] ELSE call[d]
  BY <1>2 DEF Inv, Shaped
<1>6. call' \in [Caller -> [at : {"idle", "adding", "late"}, key : Key \cup {None}]]
  BY <1>2, <1>4 DEF Inv, Shaped
<1>7. \A d \in Caller : call'[d].at # "idle" => call'[d].key \in Key
  BY <1>4, <1>5 DEF Inv, Shaped
<1>. QED BY <1>1, <1>6, <1>7, CallersKeep

LEMMA NewJobKeeps ==
  ASSUME Inv, NEW c \in Caller, NEW k \in Key, call[c].key = k, ~Known(k), Add(c)
  PROVE  Inv'
<1> DEFINE blank == [count[k] EXCEPT !.started = 0, !.mailed = FALSE, !.reported = FALSE, !.refused = FALSE]
<1>1. /\ UNCHANGED <<kept, slot, published, faults>>
      /\ call' = [call EXCEPT ![c] = [at |-> "idle", key |-> None]]
      /\ job' = [job EXCEPT ![k] = NewJob] /\ wait' = Append(wait, k)
      /\ count' = [count EXCEPT ![k] = blank] /\ job[k].state = "absent"
  BY DEF Add, Known, Inv, Shaped
<1>2. count[k] \in Count /\ job[k] \in JobRow /\ KeySound(k)
  BY Now
<1>3. /\ blank \in Count /\ blank.accepted = count[k].accepted /\ blank.lost = count[k].lost
      /\ blank.unclear = count[k].unclear /\ blank.forgotten = count[k].forgotten /\ ~blank.reported
  BY <1>2 DEF Count
<1> HIDE DEF blank
<1>4. ~Within(wait, k) /\ wait \in Seq(Key)
  BY <1>1, <1>2 DEF KeySound, Placed, Inv, Shaped
<1>5. /\ wait' \in Seq(Key) /\ Single(wait') /\ \A y : Within(wait', y) <=> Within(wait, y) \/ y = k
  BY <1>1, <1>4, AppendIs DEF Inv, Lines
<1>6. Shaped'
  BY <1>1, <1>3, <1>5, NothingYet DEF Inv, Shaped
<1>7. Lines'
  BY <1>1, <1>5 DEF Inv, Lines
<1>8. /\ job'[k] = NewJob /\ count'[k] = blank
      /\ \A j \in Key : j # k => job'[j] = job[j] /\ count'[j] = count[j]
  BY <1>1 DEF Inv, Shaped
<1>9. KeySound(k)'
  <2>1. Placed(k)'
    BY <1>1, <1>2, <1>5, <1>8, NothingYet DEF KeySound, Placed, Ended
  <2>2. Bounded(k)'
    BY <1>8, NothingYet, QueueAssumption DEF Bounded
  <2>3. Locked(k)'
    BY <1>1, <1>2, <1>3, <1>8, NothingYet, NoneAssumption DEF KeySound, Locked, Works4
  <2>4. Told(k)' /\ Final(k)'
    BY <1>3, <1>8, NothingYet DEF Told, Final
  <2>5. Open(k)' = Open(k) /\ Future(k) /\ Future(k)'
    BY <1>1, <1>8, NothingYet DEF Open, Future
  <2>6. Balanced(k)'
    BY <1>2, <1>3, <1>8, <2>5 DEF KeySound, Balanced
  <2>. QED BY <2>1, <2>2, <2>3, <2>4, <2>6 DEF KeySound
<1>10. ASSUME NEW j \in Key, j # k PROVE KeySound(j)'
  <2>1. Within(wait, j)' <=> Within(wait, j)
    BY <1>5, <1>10
  <2>. QED BY <1>1, <1>8, <1>10, <2>1, KeyStays
<1>. QED BY <1>6, <1>7, <1>9, <1>10 DEF Inv

LEMMA AddKeeps ==
  ASSUME Inv, NEW c \in Caller, Add(c)
  PROVE  Inv'
<1>1. call[c].key \in Key
  BY DEF Add, Inv, Shaped
<1>2. CASE Known(call[c].key)
  <2>1. /\ call' = [call EXCEPT ![c] = [at |-> "idle", key |-> None]] /\ published' \in 0..MaxPublish
        /\ UNCHANGED <<job, wait, kept, slot, faults, count>>
    BY <1>2 DEF Add, Inv, Shaped
  <2>. QED BY <2>1, CallersKeep DEF Inv, Shaped
<1>. QED BY <1>1, <1>2, NewJobKeeps

\* One slot more, or one fewer, at an attempt on k.
LEMMA OpenGrows ==
  ASSUME NEW k \in Key, NEW w \in Worker, IsFiniteSet(Open(k)),
         \A v \in Worker : v # w => slot'[v] = slot[v],
         w \notin Open(k), w \in Open(k)'
  PROVE  IsFiniteSet(Open(k)') /\ Cardinality(Open(k)') = Cardinality(Open(k)) + 1
<1>1. Open(k)' = Open(k) \cup {w}
  BY DEF Open
<1>. QED BY <1>1, FS_AddElement

LEMMA OpenShrinks ==
  ASSUME NEW k \in Key, NEW w \in Worker, IsFiniteSet(Open(k)),
         \A v \in Worker : v # w => slot'[v] = slot[v],
         w \in Open(k), w \notin Open(k)'
  PROVE  IsFiniteSet(Open(k)') /\ Cardinality(Open(k)') = Cardinality(Open(k)) - 1
<1>1. Open(k)' = Open(k) \ {w}
  BY DEF Open
<1>. QED BY <1>1, FS_RemoveElement

LEMMA TakeKeeps ==
  ASSUME Inv, NEW w \in Worker, NEW k, k = Head(wait), Take(w)
  PROVE  Inv'
<1> DEFINE row == [job[k] EXCEPT !.state = "active", !.owner = w]
           new == [at |-> "taken", key |-> k, made |-> job[k].made, outcome |-> None]
           more == [count[k] EXCEPT !.started = @ + 1]
<1>1. /\ slot[w].at = "idle" /\ wait # <<>> /\ wait' = Tail(wait)
      /\ UNCHANGED <<call, published, kept, faults>>
  BY DEF Take, Still
<1>2. /\ k \in Key /\ Within(wait, k) /\ wait' \in Seq(Key) /\ Single(wait')
      /\ \A y : Within(wait', y) <=> Within(wait, y) /\ y # k
  BY <1>1, TailIs DEF Inv, Shaped, Lines
<1>3. /\ job' = [job EXCEPT ![k] = row] /\ slot' = [slot EXCEPT ![w] = new]
      /\ count' = [count EXCEPT ![k] = more]
  BY <1>2 DEF Take, Inv, Shaped
<1>4. job[k] \in JobRow /\ count[k] \in Count /\ KeySound(k)
  BY <1>2, Now
<1>5. job[k].state = "waiting" /\ job[k].owner = None /\ job[k].made < Attempts
  BY <1>2, <1>4 DEF KeySound, Placed, Locked, Bounded, Pending
<1>6. /\ row \in JobRow /\ row.state = "active" /\ row.owner = w /\ row.made = job[k].made
      /\ row.stalled = job[k].stalled
  BY <1>4 DEF JobRow, Pending
<1>7. /\ more \in Count /\ more.accepted = count[k].accepted /\ more.lost = count[k].lost
      /\ more.unclear = count[k].unclear /\ more.forgotten = count[k].forgotten
      /\ more.reported = count[k].reported
  BY <1>4 DEF Count
<1>8. /\ new \in Slot /\ new.at = "taken" /\ new.key = k /\ new.made = job[k].made
  BY <1>2, <1>4, RowFields DEF Slot
<1> HIDE DEF row, new, more
<1>9. /\ job'[k] = row /\ count'[k] = more /\ slot'[w] = new
      /\ \A j \in Key : j # k => job'[j] = job[j] /\ count'[j] = count[j]
      /\ \A v \in Worker : v # w => slot'[v] = slot[v]
  BY <1>2, <1>3 DEF Inv, Shaped
<1>10. Shaped'
  <2>1. job' \in [Key -> JobRow] /\ slot' \in [Worker -> Slot] /\ count' \in [Key -> Count]
    BY <1>3, <1>6, <1>7, <1>8 DEF Inv, Shaped
  <2>2. \A v \in Worker : /\ slot'[v].at # "idle" => slot'[v].key \in Key /\ slot'[v].made < Attempts
                          /\ slot'[v].at = "replied" => slot'[v].outcome # None
    BY <1>2, <1>5, <1>8, <1>9 DEF Inv, Shaped
  <2>. QED BY <1>1, <1>2, <2>1, <2>2 DEF Inv, Shaped
<1>11. Lines'
  BY <1>1, <1>2 DEF Inv, Lines
<1>12. KeySound(k)'
  <2>1. Placed(k)'
    BY <1>1, <1>2, <1>4, <1>5, <1>6, <1>9 DEF KeySound, Placed, Ended
  <2>2. Bounded(k)'
    BY <1>4, <1>5, <1>6, <1>9 DEF KeySound, Bounded, Pending
  <2>3. Locked(k)'
    <3>1. count[k].lost = 0 => \A v \in Worker : ~Works4(v, k)
      BY <1>4, <1>5, NoneAssumption DEF KeySound, Locked
    <3>. QED BY <3>1, <1>6, <1>7, <1>8, <1>9 DEF Locked, Works4
  <2>4. Told(k)' /\ Final(k)'
    BY <1>4, <1>5, <1>6, <1>7, <1>8, <1>9 DEF KeySound, Told, Final
  <2>5. IsFiniteSet(Open(k)') /\ Cardinality(Open(k)') = Cardinality(Open(k)) + 1
    <3>1. w \notin Open(k) /\ w \in Open(k)'
      BY <1>1, <1>8, <1>9 DEF Open
    <3>. QED BY <1>2, <1>4, <1>9, <3>1, OpenGrows DEF KeySound, Balanced
  <2>6. Future(k) /\ ~Future(k)'
    BY <1>5, <1>6, <1>8, <1>9, NoneAssumption DEF Future, Retriable
  <2>7. Cardinality(Open(k)) \in Nat
    BY <1>4, FS_CardinalityType DEF KeySound, Balanced
  <2>8. Balanced(k)'
    BY <1>4, <1>7, <1>9, <2>5, <2>6, <2>7, CountFields DEF KeySound, Balanced
  <2>. QED BY <2>1, <2>2, <2>3, <2>4, <2>8 DEF KeySound
<1>13. ASSUME NEW j \in Key, j # k PROVE KeySound(j)'
  <2>1. Within(wait, j)' <=> Within(wait, j)
    BY <1>2, <1>13
  <2>2. \A v \in Worker : slot'[v] = slot[v] \/ (~Works4(v, j) /\ ~Works4(v, j)')
    BY <1>1, <1>8, <1>9, <1>13 DEF Works4
  <2>. QED BY <1>1, <1>9, <1>13, <2>1, <2>2, KeyStays
<1>. QED BY <1>10, <1>11, <1>12, <1>13 DEF Inv

\* What is the same after a step of a slot on its job k that leaves the queue alone.
LEMMA SlotMoves ==
  ASSUME Inv, NEW w \in Worker, NEW k \in Key, slot[w].at # "idle", slot[w].key = k,
         NEW new \in Slot, new.at # "idle", new.key = k, new.made = slot[w].made,
         new.at = "replied" => new.outcome # None, slot' = [slot EXCEPT ![w] = new],
         NEW more \in Count, more.lost = count[k].lost, count' = [count EXCEPT ![k] = more],
         UNCHANGED <<call, job, wait, kept, published, faults>>,
         Balanced(k)' /\ Told(k)' /\ Final(k)'
  PROVE  Inv'
<1>1. /\ count'[k] = more /\ slot'[w] = new
      /\ \A j \in Key : j # k => count'[j] = count[j]
      /\ \A v \in Worker : v # w => slot'[v] = slot[v]
  BY DEF Inv, Shaped
<1>2. KeySound(k)
  BY Now
<1>3. Shaped'
  <2>1. slot' \in [Worker -> Slot] /\ count' \in [Key -> Count]
    BY DEF Inv, Shaped
  <2>2. \A v \in Worker : /\ slot'[v].at # "idle" => slot'[v].key \in Key /\ slot'[v].made < Attempts
                          /\ slot'[v].at = "replied" => slot'[v].outcome # None
    BY <1>1 DEF Inv, Shaped
  <2>. QED BY <2>1, <2>2 DEF Inv, Shaped
<1>4. Lines'
  BY DEF Inv, Lines
<1>5. Placed(k)' /\ Bounded(k)'
  BY <1>2 DEF KeySound, Placed, Bounded
<1>6. Locked(k)'
  <2>1. \A v \in Worker : Works4(v, k)' <=> Works4(v, k)
    BY <1>1 DEF Works4
  <2>2. job[k].owner # None => job[k].owner \in Worker
    BY Now, RowFields
  <2>3. \A v \in Worker : slot'[v].made = slot[v].made
    BY <1>1
  <2>. QED BY <1>1, <1>2, <2>1, <2>2, <2>3 DEF KeySound, Locked
<1>7. ASSUME NEW j \in Key, j # k PROVE KeySound(j)'
  <2>1. \A v \in Worker : slot'[v] = slot[v] \/ (~Works4(v, j) /\ ~Works4(v, j)')
    BY <1>1, <1>7 DEF Works4
  <2>. QED BY <1>1, <1>7, <2>1, KeyStays
<1>. QED BY <1>3, <1>4, <1>5, <1>6, <1>7 DEF Inv, KeySound

\* A slot that works on a job no lock of which was lost holds the lock.
LEMMA SoleHolder ==
  ASSUME Inv, NEW w \in Worker, NEW k \in Key, slot[w].at # "idle", slot[w].key = k, count[k].lost = 0
  PROVE  job[k].owner = w /\ job[k].state = "active"
BY Now, NoneAssumption DEF KeySound, Locked, Works4

LEMMA ParseKeeps ==
  ASSUME Inv, NEW w \in Worker, NEW k \in Key, slot[w].key = k, Parse(w), Deliverable(MessageOf[k])
  PROVE  Inv'
<1> DEFINE new == [slot[w] EXCEPT !.at = "sending"]
<1>1. /\ slot[w].at = "taken" /\ slot' = [slot EXCEPT ![w] = new]
      /\ UNCHANGED <<call, job, wait, kept, published, faults, count>>
  BY DEF Parse, Still
<1>2. slot[w] \in Slot /\ count[k] \in Count /\ KeySound(k)
  BY Now DEF Inv, Shaped
<1>3. new \in Slot /\ new.at = "sending" /\ new.key = k /\ new.made = slot[w].made
  BY <1>2 DEF Slot
<1> HIDE DEF new
<1>4. slot'[w] = new /\ \A v \in Worker : v # w => slot'[v] = slot[v]
  BY <1>1 DEF Inv, Shaped
<1>5. Open(k)' = Open(k)
  BY <1>1, <1>3, <1>4 DEF Open
<1>6. job[k].owner # None => job[k].owner \in Worker
  BY Now, RowFields
<1>7. Future(k)' <=> Future(k)
  BY <1>1, <1>3, <1>4, <1>6 DEF Future, Retriable
<1>8. Balanced(k)'
  BY <1>1, <1>2, <1>5, <1>7 DEF KeySound, Balanced
<1>9. Told(k)'
  BY <1>1, <1>2, <1>3, <1>4, <1>6 DEF KeySound, Told, Last
<1>10. ~(count[k].reported /\ count[k].lost = 0)
  BY <1>1, <1>2, SoleHolder DEF KeySound, Final
<1>11. Final(k)'
  BY <1>1, <1>10 DEF Final
<1>12. count' = [count EXCEPT ![k] = count[k]]
  BY <1>1 DEF Inv, Shaped
<1>. QED BY <1>1, <1>2, <1>3, <1>8, <1>9, <1>11, <1>12, SlotMoves

\* A slot hears the outcome of its attempt.
LEMMA OutcomeKeeps ==
  ASSUME Inv, NEW w \in Worker, NEW k \in Key, slot[w].key = k, slot[w].at \in {"taken", "sending"},
         NEW outcome \in {"sent", "transient", "permanent"}, NEW gain \in {0, 1}, outcome = "sent" => gain = 1,
         NEW new \in Slot, new.at = "replied", new.outcome = outcome, new.key = k,
         new.made = slot[w].made, slot' = [slot EXCEPT ![w] = new],
         NEW more \in Count, count' = [count EXCEPT ![k] = more],
         more.accepted = count[k].accepted + gain,
         more.unclear = IF outcome = "sent" THEN count[k].unclear ELSE count[k].unclear + gain,
         more.lost = count[k].lost, more.forgotten = count[k].forgotten,
         more.mailed <=> count[k].mailed \/ gain = 1,
         more.reported <=> \/ count[k].reported \/ outcome = "permanent"
                           \/ outcome = "transient" /\ ~WillRetry(slot[w].made),
         more.refused <=> outcome = "permanent",
         UNCHANGED <<call, job, wait, kept, published, faults>>
  PROVE  Inv'
<1>1. slot[w] \in Slot /\ slot[w].made < Attempts /\ count[k] \in Count /\ job[k] \in JobRow /\ KeySound(k)
  BY Now DEF Inv, Shaped
<1>4. /\ slot'[w] = new /\ count'[k] = more /\ job'[k] = job[k]
      /\ \A v \in Worker : v # w => slot'[v] = slot[v]
  BY DEF Inv, Shaped
<1>5. job[k].owner # None => job[k].owner \in Worker
  BY <1>1, RowFields
<1>6. Last(w)' <=> (outcome = "permanent" \/ (outcome = "transient" /\ ~WillRetry(slot[w].made)))
  <2>1. slot[w].made \in Nat /\ Attempts \in Nat
    BY <1>1, SlotFields, QueueAssumption
  <2>2. slot'[w].outcome = outcome /\ slot'[w].made = slot[w].made
    BY <1>4
  <2>3. slot[w].made + 1 >= Attempts <=> ~(slot[w].made + 1 < Attempts)
    BY <2>1
  <2>. QED BY <2>2, <2>3 DEF Last, WillRetry
<1>7. Balanced(k)'
  <2>1. IsFiniteSet(Open(k)) /\ w \in Open(k) /\ w \notin Open(k)'
    BY <1>1, <1>4 DEF KeySound, Balanced, Open
  <2>2. IsFiniteSet(Open(k)') /\ Cardinality(Open(k)') = Cardinality(Open(k)) - 1
    BY <1>4, <2>1, OpenShrinks
  <2>3. Cardinality(Open(k)) \in Nat
    BY <2>1, FS_CardinalityType
  <2>4. ASSUME outcome # "transient", Future(k)' PROVE Future(k)
    <3>1. CASE job[k].owner = w
      BY <1>4, <2>4, <3>1, NoneAssumption DEF Future, Retriable
    <3>2. CASE job[k].owner # w
      BY <1>4, <1>5, <2>4, <3>2 DEF Future, Retriable
    <3>. QED BY <3>1, <3>2
  <2>. QED BY <1>1, <1>4, <2>2, <2>3, <2>4, CountFields DEF KeySound, Balanced
<1>8. Told(k)'
  <2>1. count[k].lost = 0 => job[k].owner = w
    BY SoleHolder
  <2>2. ASSUME job[k].owner = w PROVE Told(k)'
    BY <1>4, <1>6, <2>2 DEF Told
  <2>3. ASSUME job[k].owner # w, job[k].owner # None PROVE Told(k)'
    <3>1. slot'[job[k].owner] = slot[job[k].owner]
      BY <1>4, <1>5, <2>3
    <3>. QED BY <1>1, <1>4, <2>1, <2>3, <3>1 DEF KeySound, Told, Last
  <2>4. ASSUME job[k].owner = None PROVE Told(k)'
    BY <1>4, <2>4 DEF Told
  <2>. QED BY <2>2, <2>3, <2>4
<1>9. Final(k)'
  <2> SUFFICES ASSUME more.reported, more.lost = 0 PROVE Final(k)'
    BY <1>4 DEF Final
  <2>1. job[k].owner = w /\ job[k].state = "active"
    BY SoleHolder
  <2>2. ~count[k].reported
    BY <1>1, <2>1 DEF KeySound, Final
  <2>3. Last(w)'
    BY <1>6, <2>2, outcome \in {"sent", "transient", "permanent"}
  <2>. QED BY <1>4, <2>1, <2>3, NoneAssumption DEF Final
<1>10. outcome # None
  BY NoneAssumption DEF None
<1>. QED BY <1>7, <1>8, <1>9, <1>10, SlotMoves

LEMMA ParsesKeep ==
  ASSUME Inv, NEW w \in Worker, NEW k, slot[w].key = k, Parse(w)
  PROVE  Inv'
<1>1. k \in Key /\ slot[w].at = "taken"
  BY DEF Parse, Inv, Shaped
<1>2. CASE Deliverable(MessageOf[k])
  BY <1>1, <1>2, ParseKeeps
<1>3. CASE ~Deliverable(MessageOf[k])
  <2> DEFINE more == [count[k] EXCEPT !.reported = TRUE, !.refused = TRUE]
             new  == [slot[w] EXCEPT !.at = "replied", !.outcome = "permanent"]
  <2>1. /\ slot' = [slot EXCEPT ![w] = new]
        /\ count' = [count EXCEPT ![k] = more] /\ UNCHANGED <<call, job, wait, kept, published, faults>>
    BY <1>1, <1>3 DEF Parse, Still, Inv, Shaped
  <2>2. count[k] \in Count
    BY <1>1, Now
  <2>3. /\ more \in Count /\ more.accepted = count[k].accepted /\ more.unclear = count[k].unclear
        /\ more.lost = count[k].lost /\ more.forgotten = count[k].forgotten
        /\ more.mailed = count[k].mailed /\ more.reported = TRUE /\ more.refused = TRUE
    BY <2>2 DEF Count
  <2>8. /\ new \in Slot /\ new.at = "replied" /\ new.outcome = "permanent" /\ new.key = k
        /\ new.made = slot[w].made
    BY DEF Slot, Inv, Shaped
  <2> HIDE DEF more, new
  <2>4. more.accepted = count[k].accepted + 0 /\ more.unclear = count[k].unclear + 0
    BY <2>2, <2>3, CountFields
  <2>5. more.mailed <=> count[k].mailed \/ 0 = 1
    BY <2>3
  <2>6. more.reported <=> \/ count[k].reported \/ "permanent" = "permanent"
                          \/ "permanent" = "transient" /\ ~WillRetry(slot[w].made)
    BY <2>3
  <2>7. more.refused <=> "permanent" = "permanent"
    BY <2>3
  <2>. QED BY <1>1, <2>1, <2>3, <2>4, <2>5, <2>6, <2>7, <2>8, OutcomeKeeps
<1>. QED BY <1>2, <1>3

LEMMA RepliedKeeps ==
  ASSUME Inv, NEW w \in Worker, NEW k, slot[w].key = k, slot[w].at = "sending",
         NEW outcome \in {"sent", "transient", "permanent"}, NEW arrived \in BOOLEAN,
         NEW lasting \in BOOLEAN, lasting <=> outcome = "permanent", outcome = "sent" => arrived,
         Replied(w, outcome, arrived, lasting)
  PROVE  Inv'
<1> DEFINE final == \/ outcome = "permanent"
                    \/ outcome = "transient" /\ ~WillRetry(slot[w].made)
           more == [count[k] EXCEPT !.accepted = IF arrived THEN @ + 1 ELSE @,
                                    !.mailed   = @ \/ arrived,
                                    !.unclear  = IF arrived /\ outcome # "sent" THEN @ + 1 ELSE @,
                                    !.reported = @ \/ final,
                                    !.refused  = lasting]
           gain == IF arrived THEN 1 ELSE 0
           new  == [slot[w] EXCEPT !.at = "replied", !.outcome = outcome]
<1>1. k \in Key
  BY DEF Inv, Shaped
<1>2. count[k] \in Count
  BY <1>1, Now
<1>3. /\ slot' = [slot EXCEPT ![w] = new]
      /\ count' = [count EXCEPT ![k] = more] /\ UNCHANGED <<call, job, wait, kept, published, faults>>
  BY <1>1 DEF Replied, Still, Inv, Shaped
<1>4. more \in Count
  <2> DEFINE a == IF arrived THEN count[k].accepted + 1 ELSE count[k].accepted
             u == IF arrived /\ outcome # "sent" THEN count[k].unclear + 1 ELSE count[k].unclear
             m == count[k].mailed \/ arrived
             r == count[k].reported \/ final
  <2>1. a \in Nat /\ u \in Nat /\ m \in BOOLEAN /\ r \in BOOLEAN
    BY <1>2, CountFields
  <2>2. more = [count[k] EXCEPT !.accepted = a, !.mailed = m, !.unclear = u, !.reported = r,
                                !.refused = lasting]
    OBVIOUS
  <2> HIDE DEF a, u, m, r, more, final
  <2>3. [count[k] EXCEPT !.accepted = a, !.mailed = m, !.unclear = u, !.reported = r,
                         !.refused = lasting] \in Count
    BY <1>2, <2>1 DEF Count
  <2>. QED BY <2>2, <2>3
<1>5. more.accepted = count[k].accepted + gain
  BY <1>2 DEF Count
<1>6. more.unclear = IF outcome = "sent" THEN count[k].unclear ELSE count[k].unclear + gain
  BY <1>2 DEF Count
<1>7. more.lost = count[k].lost /\ more.forgotten = count[k].forgotten
  BY <1>2 DEF Count
<1>8. more.mailed <=> count[k].mailed \/ gain = 1
  <2>1. more.mailed <=> count[k].mailed \/ arrived
    BY <1>2 DEF Count
  <2>. QED BY <2>1
<1>9. more.reported <=> \/ count[k].reported \/ outcome = "permanent"
                        \/ outcome = "transient" /\ ~WillRetry(slot[w].made)
  <2>1. more.reported <=> count[k].reported \/ final
    <3> HIDE DEF final
    <3>. QED BY <1>2 DEF Count
  <2>. QED BY <2>1
<1>10. more.refused <=> outcome = "permanent"
  BY <1>2 DEF Count
<1>11. gain \in {0, 1} /\ (outcome = "sent" => gain = 1)
  OBVIOUS
<1>12. /\ new \in Slot /\ new.at = "replied" /\ new.outcome = outcome /\ new.key = k
       /\ new.made = slot[w].made
  BY DEF Slot, Inv, Shaped
<1> HIDE DEF more, final, gain, new
<1>. QED BY <1>1, <1>3, <1>4, <1>5, <1>6, <1>7, <1>8, <1>9, <1>10, <1>11, <1>12, OutcomeKeeps

\* The transport's verdict is right: what lasts is permanent, what passes is not.
LEMMA VerdictIsRight ==
  ASSUME NEW cause \in Passing \cup Lasting, NEW f \in FailureOf(cause)
  PROVE  OutcomeOf(f) \in {"transient", "permanent"} /\ (cause \in Lasting <=> OutcomeOf(f) = "permanent")
<1>1. CASE cause = "greylisted"
  BY <1>1 DEF FailureOf, OutcomeOf, IsPermanent, PermanentCode, Lasting, None
<1>2. CASE cause = "noMailbox"
  BY <1>2 DEF FailureOf, OutcomeOf, IsPermanent, PermanentCode, Lasting, None
<1>3. CASE cause = "badAddress"
  BY <1>3 DEF FailureOf, OutcomeOf, IsPermanent, PermanentCode, Lasting, None
<1>4. CASE cause = "tooLarge"
  BY <1>4 DEF FailureOf, OutcomeOf, IsPermanent, PermanentCode, Lasting, None
<1>5. CASE cause = "badLogin"
  BY <1>5 DEF FailureOf, OutcomeOf, IsPermanent, PermanentCode, Lasting, None
<1>6. CASE cause = "unreachable"
  BY <1>6 DEF FailureOf, OutcomeOf, IsPermanent, PermanentCode, Lasting, None
<1>. QED BY <1>1, <1>2, <1>3, <1>4, <1>5, <1>6 DEF Passing, Lasting

LEMMA ReplyKeeps ==
  ASSUME Inv, NEW w \in Worker, Reply(w) \/ TimeOut(w)
  PROVE  Inv'
<1>1. slot[w].at = "sending"
  BY DEF Reply, TimeOut
<1>2. CASE Replied(w, "sent", TRUE, FALSE)
  BY <1>1, <1>2, RepliedKeeps
<1>3. ASSUME NEW cause \in Passing \cup Lasting, NEW f \in FailureOf(cause),
             Replied(w, OutcomeOf(f), FALSE, cause \in Lasting)
      PROVE  Inv'
  <2>1. CASE cause \in Lasting
    <3>1. OutcomeOf(f) = "permanent" /\ (cause \in Lasting) = TRUE
      BY <2>1, VerdictIsRight
    <3>2. Replied(w, "permanent", FALSE, TRUE)
      BY <1>3, <3>1
    <3>. QED BY <1>1, <3>2, RepliedKeeps
  <2>2. CASE cause \notin Lasting
    <3>1. OutcomeOf(f) = "transient" /\ (cause \in Lasting) = FALSE
      BY <2>2, VerdictIsRight
    <3>2. Replied(w, "transient", FALSE, FALSE)
      BY <1>3, <3>1
    <3>. QED BY <1>1, <3>2, RepliedKeeps
  <2>. QED BY <2>1, <2>2
<1>4. ASSUME NEW arrived \in BOOLEAN, Replied(w, "transient", arrived, FALSE) PROVE Inv'
  BY <1>1, <1>4, RepliedKeeps
<1>. QED BY <1>2, <1>3, <1>4 DEF Reply, TimeOut

\* A lock runs out: its slot goes on, or goes with its process.
LEMMA LosesKeep ==
  ASSUME Inv, NEW w \in Worker, NEW k, slot[w].key = k, LosesLock(w),
         slot' = slot \/ slot' = [slot EXCEPT ![w] = Free]
  PROVE  Inv'
<1> DEFINE row  == [job[k] EXCEPT !.owner = None]
           more == [count[k] EXCEPT !.lost = @ + 1]
<1>1. /\ slot[w].at # "idle" /\ k \in Key /\ job[k].owner = w /\ faults' = faults + 1 /\ faults < MaxFaults
      /\ UNCHANGED <<call, published, wait, kept>>
  BY DEF LosesLock, Still, Holds, Inv, Shaped
<1>2. job' = [job EXCEPT ![k] = row] /\ count' = [count EXCEPT ![k] = more]
  BY <1>1 DEF LosesLock, Inv, Shaped
<1>3. job[k] \in JobRow /\ count[k] \in Count /\ KeySound(k)
  BY <1>1, Now
<1>4. /\ row \in JobRow /\ row.state = job[k].state /\ row.owner = None /\ row.made = job[k].made
      /\ row.stalled = job[k].stalled
  BY <1>3 DEF JobRow
<1>5. /\ more \in Count /\ more.accepted = count[k].accepted /\ more.lost = count[k].lost + 1
      /\ more.unclear = count[k].unclear /\ more.forgotten = count[k].forgotten
  BY <1>3 DEF Count
<1> HIDE DEF row, more
<1>6. /\ job'[k] = row /\ count'[k] = more
      /\ \A j \in Key : j # k => job'[j] = job[j] /\ count'[j] = count[j]
      /\ \A v \in Worker : v # w => slot'[v] = slot[v]
      /\ slot'[w] \in {slot[w], Free}
  BY <1>1, <1>2 DEF Inv, Shaped
<1>7. Shaped'
  <2>1. job' \in [Key -> JobRow] /\ count' \in [Key -> Count] /\ slot' \in [Worker -> Slot]
    BY <1>2, <1>4, <1>5, NothingYet DEF Inv, Shaped
  <2>2. faults' \in 0..MaxFaults
    BY <1>1, QueueAssumption DEF Inv, Shaped
  <2>3. \A v \in Worker : /\ slot'[v].at # "idle" => slot'[v].key \in Key /\ slot'[v].made < Attempts
                          /\ slot'[v].at = "replied" => slot'[v].outcome # None
    BY <1>6, NothingYet DEF Inv, Shaped
  <2>. QED BY <1>1, <2>1, <2>2, <2>3 DEF Inv, Shaped
<1>8. Lines'
  BY <1>1 DEF Inv, Lines
<1>9. count[k].lost \in Nat /\ more.lost \in Nat /\ more.lost # 0
  BY <1>3, <1>5, CountFields
<1>10. Placed(k)' /\ Bounded(k)'
  BY <1>1, <1>3, <1>4, <1>6 DEF KeySound, Placed, Bounded
<1>11. Locked(k)' /\ Told(k)' /\ Final(k)'
  BY <1>4, <1>6, <1>9 DEF Locked, Told, Final
<1>12. Balanced(k)'
  <2>1. IsFiniteSet(Open(k)) /\ Open(k)' \subseteq Open(k)
    BY <1>3, <1>6, NothingYet DEF KeySound, Balanced, Open
  <2>2. /\ IsFiniteSet(Open(k)') /\ Cardinality(Open(k)') <= Cardinality(Open(k))
        /\ Cardinality(Open(k)) \in Nat /\ Cardinality(Open(k)') \in Nat
    BY <2>1, FS_Subset, FS_CardinalityType
  <2>. QED BY <1>3, <1>5, <1>6, <2>2, CountFields DEF KeySound, Balanced
<1>13. ASSUME NEW j \in Key, j # k PROVE KeySound(j)'
  <2>1. \A v \in Worker : slot'[v] = slot[v] \/ (~Works4(v, j) /\ ~Works4(v, j)')
    BY <1>6, <1>13, NothingYet DEF Works4
  <2>. QED BY <1>1, <1>6, <1>13, <2>1, KeyStays
<1>. QED BY <1>7, <1>8, <1>10, <1>11, <1>12, <1>13 DEF Inv, KeySound

\* The back-off of a job ends.
LEMMA PromoteKeeps ==
  ASSUME Inv, NEW k \in Key, Promote(k)
  PROVE  Inv'
<1> DEFINE row == [job[k] EXCEPT !.state = "waiting"]
<1>1. /\ job[k].state = "delayed" /\ job' = [job EXCEPT ![k] = row] /\ wait' = Append(wait, k)
      /\ UNCHANGED <<call, published, kept, slot, faults, count>>
  BY DEF Promote, Still, Inv, Shaped
<1>2. job[k] \in JobRow /\ KeySound(k) /\ wait \in Seq(Key)
  BY Now DEF Inv, Shaped
<1>3. /\ row \in JobRow /\ row.state = "waiting" /\ row.owner = job[k].owner /\ row.made = job[k].made
      /\ row.stalled = job[k].stalled
  BY <1>2 DEF JobRow, Pending
<1> HIDE DEF row
<1>4. ~Within(wait, k) /\ job[k].owner = None
  BY <1>1, <1>2 DEF KeySound, Placed, Locked
<1>5. /\ wait' \in Seq(Key) /\ Single(wait') /\ \A y : Within(wait', y) <=> Within(wait, y) \/ y = k
  BY <1>1, <1>2, <1>4, AppendIs DEF Inv, Lines
<1>6. Shaped' /\ Lines'
  BY <1>1, <1>3, <1>5 DEF Inv, Shaped, Lines
<1>7. job'[k] = row /\ \A j \in Key : j # k => job'[j] = job[j]
  BY <1>1 DEF Inv, Shaped
<1>8. KeySound(k)'
  <2>1. Placed(k)' /\ Bounded(k)'
    BY <1>1, <1>2, <1>3, <1>5, <1>7 DEF KeySound, Placed, Bounded, Ended, Pending
  <2>2. Locked(k)' /\ Told(k)' /\ Final(k)'
    BY <1>1, <1>2, <1>3, <1>4, <1>7 DEF KeySound, Locked, Told, Final, Works4
  <2>3. Open(k)' = Open(k) /\ Future(k) /\ Future(k)'
    BY <1>1, <1>3, <1>7 DEF Open, Future
  <2>4. Balanced(k)'
    BY <1>1, <1>2, <2>3 DEF KeySound, Balanced
  <2>. QED BY <2>1, <2>2, <2>4 DEF KeySound
<1>9. ASSUME NEW j \in Key, j # k PROVE KeySound(j)'
  <2>1. Within(wait, j)' <=> Within(wait, j)
    BY <1>5, <1>9
  <2>. QED BY <1>1, <1>7, <1>9, <2>1, KeyStays
<1>. QED BY <1>6, <1>8, <1>9 DEF Inv

\* A stalled job is first in the line again.
LEMMA ReclaimKeeps ==
  ASSUME Inv, NEW k \in Key, Reclaim(k), job[k].stalled + 1 <= MaxStalled
  PROVE  Inv'
<1> DEFINE row == [job[k] EXCEPT !.stalled = @ + 1, !.state = "waiting"]
<1>1. job[k] \in JobRow /\ KeySound(k) /\ wait \in Seq(Key)
  BY Now DEF Inv, Shaped
<1>2. ~([job[k] EXCEPT !.stalled = @ + 1].stalled > MaxStalled)
  <2>1. [job[k] EXCEPT !.stalled = @ + 1].stalled = job[k].stalled + 1
    BY <1>1 DEF JobRow
  <2>2. job[k].stalled \in Nat /\ MaxStalled \in Nat
    BY <1>1, RowFields, QueueAssumption
  <2>. QED BY <2>1, <2>2
<1>3. /\ job[k].state = "active" /\ job[k].owner = None /\ wait' = <<k>> \o wait
      /\ job' = [job EXCEPT ![k] = row] /\ UNCHANGED <<call, published, kept, slot, faults, count>>
  BY <1>2 DEF Reclaim, Still, Inv, Shaped
<1>4. /\ row \in JobRow /\ row.state = "waiting" /\ row.owner = None /\ row.made = job[k].made
      /\ row.stalled <= MaxStalled
  <2>1. job[k].stalled + 1 \in 0..MaxStalled + 1
    BY <1>1, RowFields, QueueAssumption
  <2>2. row \in JobRow /\ row.stalled = job[k].stalled + 1
    BY <1>1, <2>1 DEF JobRow, Pending
  <2>3. row.state = "waiting" /\ row.owner = None /\ row.made = job[k].made
    BY <1>1, <1>3 DEF JobRow
  <2>. QED BY <2>2, <2>3
<1> HIDE DEF row
<1>5. ~Within(wait, k)
  BY <1>1, <1>3 DEF KeySound, Placed
<1>6. /\ wait' \in Seq(Key) /\ Single(wait') /\ \A y : Within(wait', y) <=> Within(wait, y) \/ y = k
  BY <1>1, <1>3, <1>5, ConsIs DEF Inv, Lines
<1>7. Shaped' /\ Lines'
  BY <1>3, <1>4, <1>6 DEF Inv, Shaped, Lines
<1>8. job'[k] = row /\ \A j \in Key : j # k => job'[j] = job[j]
  BY <1>3 DEF Inv, Shaped
<1>9. KeySound(k)'
  <2>1. Placed(k)' /\ Bounded(k)'
    BY <1>1, <1>3, <1>4, <1>6, <1>8 DEF KeySound, Placed, Bounded, Ended, Pending
  <2>2. Locked(k)' /\ Told(k)' /\ Final(k)'
    BY <1>1, <1>3, <1>4, <1>8 DEF KeySound, Locked, Told, Final, Works4
  <2>3. Open(k)' = Open(k) /\ Future(k) /\ Future(k)'
    BY <1>3, <1>4, <1>8 DEF Open, Future
  <2>4. Balanced(k)'
    BY <1>1, <1>3, <2>3 DEF KeySound, Balanced
  <2>. QED BY <2>1, <2>2, <2>4 DEF KeySound
<1>10. ASSUME NEW j \in Key, j # k PROVE KeySound(j)'
  <2>1. Within(wait, j)' <=> Within(wait, j)
    BY <1>6, <1>10
  <2>. QED BY <1>3, <1>8, <1>10, <2>1, KeyStays
<1>. QED BY <1>7, <1>9, <1>10 DEF Inv

\* A job leaves the queue, and the oldest that is kept goes when there is no room.
\* Its slot, if it still has one, is free.
LEMMA EndKeeps ==
  ASSUME Inv, NEW k \in Key, NEW e \in Ended, NEW row \in JobRow, End(k, e, row),
         job[k].state = "active", UNCHANGED <<call, published, wait, faults>>,
         slot' \in [Worker -> Slot],
         \A v \in Worker : \/ slot'[v] = slot[v]
                           \/ slot'[v] = Free /\ slot[v].at = "replied" /\ slot[v].key = k,
         count[k].lost = 0 => \A v \in Worker : ~Works4(v, k)'
  PROVE  Inv'
<1> DEFINE list    == Append(kept[e], k)
           full    == Len(list) > Keep(e)
           dropped == IF full THEN {Head(list)} ELSE {}
           left    == IF dropped = {} THEN list ELSE Tail(list)
           ended   == [row EXCEPT !.state = e, !.owner = None]
<1>1. /\ kept' = [kept EXCEPT ![e] = left]
      /\ job' = [j \in Key |-> IF j \in dropped THEN NoJob ELSE IF j = k THEN ended ELSE job[j]]
      /\ count' = [j \in Key |-> IF j \in dropped THEN [count[j] EXCEPT !.forgotten = @ + 1]
                                 ELSE count[j]]
  BY DEF End
<1>2. kept[e] \in Seq(Key) /\ Single(kept[e]) /\ \A j \in Key : KeySound(j)
  BY DEF Inv, Shaped, Lines
<1>3. ~Within(kept[e], k) /\ ~Within(wait, k) /\ \A d \in Ended : ~Within(kept[d], k)
  BY <1>2 DEF KeySound, Placed, Ended
<1>4. /\ list \in Seq(Key) /\ list # <<>> /\ Single(list)
      /\ \A y : Within(list, y) <=> Within(kept[e], y) \/ y = k
  BY <1>2, <1>3, AppendIs
<1>5. ended \in JobRow /\ ended.state = e /\ ended.owner = None
  BY DEF JobRow, Ended
<1> HIDE DEF list, full, ended
<1>6. /\ left \in Seq(Key) /\ Single(left) /\ dropped \subseteq Key
      /\ \A y : Within(left, y) => Within(list, y) /\ y \notin dropped
      /\ \A y \in dropped : Within(list, y)
  <2>1. /\ Tail(list) \in Seq(Key) /\ Head(list) \in Key /\ Within(list, Head(list)) /\ Single(Tail(list))
        /\ \A y : Within(Tail(list), y) <=> Within(list, y) /\ y # Head(list)
    BY <1>4, TailIs
  <2>2. CASE full
    BY <2>1, <2>2
  <2>3. CASE ~full
    BY <1>4, <2>3
  <2>. QED BY <2>2, <2>3
<1> HIDE DEF dropped, left
<1>7. /\ \A j \in Key : job'[j] = IF j \in dropped THEN NoJob ELSE IF j = k THEN ended ELSE job[j]
      /\ \A j \in Key : j \notin dropped => count'[j] = count[j]
      /\ \A j \in dropped : count'[j] = [count[j] EXCEPT !.forgotten = @ + 1]
      /\ kept'[e] = left /\ \A d \in Ended : d # e => kept'[d] = kept[d]
  BY <1>1, <1>6 DEF Inv, Shaped
<1>8. ASSUME NEW j \in dropped
      PROVE  /\ count'[j] \in Count /\ count'[j].forgotten = count[j].forgotten + 1
             /\ count'[j].lost = count[j].lost /\ count'[j].accepted = count[j].accepted
             /\ count'[j].unclear = count[j].unclear
  <2> DEFINE old  == count[j]
             more == [old EXCEPT !.forgotten = @ + 1]
  <2>1. old \in Count /\ count'[j] = more
    BY <1>6, <1>7, <1>8 DEF Inv, Shaped
  <2> HIDE DEF old
  <2>2. /\ more \in Count /\ more.forgotten = old.forgotten + 1 /\ more.lost = old.lost
        /\ more.accepted = old.accepted /\ more.unclear = old.unclear
    BY <2>1 DEF Count
  <2> HIDE DEF more
  <2>. QED BY <2>1, <2>2 DEF old
<1>9. Shaped'
  <2>1. job' \in [Key -> JobRow]
    BY <1>1, <1>5, NothingYet DEF Inv, Shaped
  <2>2. count' \in [Key -> Count]
    <3>1. \A j \in Key : count'[j] \in Count
      BY <1>7, <1>8 DEF Inv, Shaped
    <3>. QED BY <1>1, <3>1
  <2>3. kept' \in [Ended -> Seq(Key)]
    BY <1>1, <1>6 DEF Inv, Shaped
  <2>4. \A w \in Worker : /\ slot'[w].at # "idle" => slot'[w].key \in Key /\ slot'[w].made < Attempts
                          /\ slot'[w].at = "replied" => slot'[w].outcome # None
    BY NothingYet DEF Inv, Shaped
  <2>. QED BY <2>1, <2>2, <2>3, <2>4 DEF Inv, Shaped
<1>10. Lines'
  BY <1>6, <1>7 DEF Inv, Lines
<1>11. \A j \in Key : Open(j)' = Open(j)
  BY NothingYet DEF Open
<1>12. ASSUME NEW j \in dropped PROVE KeySound(j)'
  <2>0. j \in Key /\ KeySound(j) /\ count[j] \in Count
    BY <1>6, <1>12, Now
  <2>1. job'[j] = NoJob /\ (j = k \/ job[j].state = e)
    BY <1>2, <1>4, <1>6, <1>7, <2>0 DEF KeySound, Placed
  <2>2. Placed(j)'
    <3>1. ~Within(wait, j)
      BY <1>3, <2>0, <2>1 DEF KeySound, Placed, Ended
    <3>2. \A d \in Ended : ~Within(kept'[d], j)
      <4>1. ~Within(kept'[e], j)
        BY <1>6, <1>7, <1>12
      <4>2. \A d \in Ended : d # e => ~Within(kept'[d], j)
        BY <1>3, <1>7, <2>0, <2>1 DEF KeySound, Placed
      <4>. QED BY <4>1, <4>2
    <3>. QED BY <2>1, <3>1, <3>2, NothingYet DEF Placed
  <2>3. Bounded(j)' /\ Told(j)' /\ Final(j)'
    BY <2>1, NothingYet DEF Bounded, Told, Final, Pending
  <2>4. count[j].lost = 0 => \A v \in Worker : ~Works4(v, j)'
    <3>1. CASE j = k
      BY <3>1
    <3>2. CASE j # k
      <4>1. job[j].owner = None
        BY <2>0, <2>1, <3>2 DEF KeySound, Locked, Ended
      <4>2. count[j].lost = 0 => \A v \in Worker : ~Works4(v, j)
        BY <2>0, <4>1, NoneAssumption DEF KeySound, Locked
      <4>. QED BY <3>2, <4>2, NothingYet DEF Works4
    <3>. QED BY <3>1, <3>2
  <2>5. Locked(j)'
    BY <1>8, <2>1, <2>4, NothingYet DEF Locked
  <2>6. Balanced(j)'
    <3>1. IsFiniteSet(Open(j)) /\ Cardinality(Open(j)) \in Nat
      BY <2>0, FS_CardinalityType DEF KeySound, Balanced
    <3>. QED BY <1>8, <1>11, <2>0, <3>1, CountFields DEF KeySound, Balanced
  <2>. QED BY <2>2, <2>3, <2>5, <2>6 DEF KeySound
<1>13. ASSUME k \notin dropped PROVE KeySound(k)'
  <2>1. job'[k] = ended /\ count'[k] = count[k]
    BY <1>7, <1>13
  <2>2. Placed(k)'
    BY <1>3, <1>5, <1>7, <2>1 DEF Placed, Ended
  <2>3. Bounded(k)' /\ Told(k)' /\ Final(k)' /\ ~Future(k)'
    BY <1>5, <2>1 DEF Bounded, Told, Final, Future, Pending, Ended
  <2>4. Locked(k)'
    BY <1>5, <2>1 DEF Locked
  <2>5. Balanced(k)'
    <3>1. IsFiniteSet(Open(k)) /\ Cardinality(Open(k)) \in Nat
      BY <1>2, FS_CardinalityType DEF KeySound, Balanced
    <3>2. /\ count[k].accepted \in Nat /\ count[k].lost \in Nat /\ count[k].unclear \in Nat
          /\ count[k].forgotten \in Nat
      BY Now, CountFields
    <3>3. Balanced(k)
      BY <1>2 DEF KeySound
    <3>4. Open(k)' = Open(k)
      BY <1>11
    <3>. QED BY <2>1, <2>3, <3>1, <3>2, <3>3, <3>4 DEF Balanced
  <2>. QED BY <2>2, <2>3, <2>4, <2>5 DEF KeySound
<1>14. ASSUME NEW j \in Key, j # k, j \notin dropped PROVE KeySound(j)'
  <2>1. \A v \in Worker : slot'[v] = slot[v] \/ (~Works4(v, j) /\ ~Works4(v, j)')
    BY <1>14, NothingYet DEF Works4
  <2>2. \A d \in Ended : Within(kept'[d], j) => Within(kept[d], j)
    BY <1>4, <1>6, <1>7, <1>14
  <2>3. job'[j] = job[j] /\ count'[j] = count[j]
    BY <1>7, <1>14
  <2>. QED BY <2>1, <2>2, <2>3, KeyStays
<1>. QED BY <1>9, <1>10, <1>12, <1>13, <1>14 DEF Inv

LEMMA FinishKeeps ==
  ASSUME Inv, NEW w \in Worker, NEW k, slot[w].key = k, Finish(w)
  PROVE  Inv'
<1> DEFINE row == [job[k] EXCEPT !.made = slot[w].made + 1]
<1>1. /\ slot[w].at = "replied" /\ slot' = [slot EXCEPT ![w] = Free]
      /\ UNCHANGED <<call, published, wait, faults>>
  BY DEF Finish, Still
<1>2. /\ k \in Key /\ slot[w].made \in Nat /\ slot[w].made < Attempts /\ slot[w] \in Slot
      /\ slot[w].outcome # None
  BY <1>1, SlotFields DEF Inv, Shaped
<1>3. job[k] \in JobRow /\ count[k] \in Count /\ KeySound(k)
  BY <1>2, Now
<1>4. /\ row \in JobRow /\ row.made = slot[w].made + 1 /\ row.state = job[k].state
      /\ row.stalled = job[k].stalled
  BY <1>2, <1>3, QueueAssumption DEF JobRow
<1>5. /\ slot'[w] = Free /\ slot' \in [Worker -> Slot]
      /\ \A v \in Worker : v # w => slot'[v] = slot[v]
  BY <1>1, NothingYet DEF Inv, Shaped
<1>6. \A v \in Worker : /\ slot'[v].at # "idle" => slot'[v].key \in Key /\ slot'[v].made < Attempts
                        /\ slot'[v].at = "replied" => slot'[v].outcome # None
  BY <1>5, NothingYet DEF Inv, Shaped
<1>7. count[k].lost = 0 => \A v \in Worker : ~Works4(v, k)'
  <2> SUFFICES ASSUME count[k].lost = 0, NEW v \in Worker, Works4(v, k)' PROVE FALSE
    OBVIOUS
  <2>1. v # w /\ Works4(v, k)
    BY <1>5, NothingYet DEF Works4
  <2>2. job[k].owner = v /\ job[k].owner = w
    BY <1>1, <1>2, <1>3, <2>1, SoleHolder DEF KeySound, Locked
  <2>. QED BY <2>1, <2>2
<1>8. Open(k)' = Open(k)
  BY <1>1, <1>5, NothingYet DEF Open
<1>9. ASSUME NEW j \in Key, j # k, job'[j] = job[j], count'[j] = count[j], UNCHANGED kept
      PROVE  KeySound(j)'
  <2>1. \A v \in Worker : slot'[v] = slot[v] \/ (~Works4(v, j) /\ ~Works4(v, j)')
    BY <1>1, <1>2, <1>5, <1>9, NothingYet DEF Works4
  <2>. QED BY <1>1, <1>9, <2>1, KeyStays
<1>10. CASE ~Holds(w)
  <2>1. UNCHANGED <<job, kept, count>>
    BY <1>10 DEF Finish
  <2>2. Shaped' /\ Lines'
    BY <1>1, <1>5, <1>6, <2>1 DEF Inv, Shaped, Lines
  <2>3. job[k].owner # w /\ count[k].lost # 0
    BY <1>1, <1>2, <1>10, SoleHolder DEF Holds
  <2>4. job[k].owner # None => job[k].owner \in Worker /\ slot'[job[k].owner] = slot[job[k].owner]
    BY <1>3, <1>5, <2>3, RowFields
  <2>5. Placed(k)' /\ Bounded(k)' /\ Final(k)'
    BY <1>1, <1>3, <2>1, <2>3 DEF KeySound, Placed, Bounded, Final
  <2>6. Locked(k)' /\ Told(k)'
    BY <1>3, <2>1, <2>3, <2>4 DEF KeySound, Locked, Told, Works4, Last
  <2>7. Future(k)' <=> Future(k)
    BY <2>1, <2>4 DEF Future, Retriable
  <2>8. Balanced(k)'
    BY <1>3, <1>8, <2>1, <2>7 DEF KeySound, Balanced
  <2>. QED BY <1>9, <2>1, <2>2, <2>5, <2>6, <2>8 DEF Inv, KeySound
<1>11. ASSUME Holds(w) PROVE job[k].owner = w /\ job[k].state = "active" /\ job[k].made = slot[w].made
  BY <1>3, <1>11, NoneAssumption DEF Holds, KeySound, Locked
<1>12. CASE Holds(w) /\ slot[w].outcome = "transient" /\ slot[w].made + 1 < Attempts
  <2> DEFINE later == [row EXCEPT !.state = "delayed", !.owner = None]
  <2>1. job' = [job EXCEPT ![k] = later] /\ UNCHANGED <<kept, count>>
    BY <1>12 DEF Finish
  <2>2. /\ later \in JobRow /\ later.state = "delayed" /\ later.owner = None
        /\ later.made = slot[w].made + 1 /\ later.stalled = job[k].stalled
    <3> HIDE DEF row
    <3>. QED BY <1>4 DEF JobRow, Pending
  <2> HIDE DEF later
  <2>3. job'[k] = later /\ \A j \in Key : j # k => job'[j] = job[j]
    BY <1>2, <2>1 DEF Inv, Shaped
  <2>4. Shaped' /\ Lines'
    BY <1>1, <1>5, <1>6, <2>1, <2>2 DEF Inv, Shaped, Lines
  <2>5. Placed(k)' /\ Bounded(k)'
    BY <1>1, <1>3, <1>11, <1>12, <2>1, <2>2, <2>3 DEF KeySound, Placed, Bounded, Pending, Ended
  <2>6. Locked(k)' /\ Told(k)'
    BY <1>7, <2>1, <2>2, <2>3 DEF Locked, Told
  <2>7. Final(k)'
    <3>1. ~Last(w)
      BY <1>2, <1>12, QueueAssumption DEF Last
    <3>2. ~(count[k].reported /\ count[k].lost = 0)
      BY <1>3, <1>11, <1>12, <3>1 DEF KeySound, Final
    <3>. QED BY <2>1, <3>2 DEF Final
  <2>8. Future(k) /\ Future(k)'
    BY <1>1, <1>11, <1>12, <2>2, <2>3 DEF Future, Retriable
  <2>9. Balanced(k)'
    BY <1>3, <1>8, <2>1, <2>8 DEF KeySound, Balanced
  <2>. QED BY <1>9, <2>1, <2>3, <2>4, <2>5, <2>6, <2>7, <2>9 DEF Inv, KeySound
<1>13. ASSUME NEW e \in Ended, Holds(w), End(k, e, row) PROVE Inv'
  BY <1>1, <1>2, <1>4, <1>5, <1>7, <1>11, <1>13, EndKeeps
<1>14. \/ ~Holds(w)
       \/ Holds(w) /\ slot[w].outcome = "transient" /\ slot[w].made + 1 < Attempts
       \/ \E e \in Ended : Holds(w) /\ End(k, e, row)
  BY DEF Finish, Ended
<1>. QED BY <1>10, <1>12, <1>13, <1>14

LEMMA ReclaimsKeep ==
  ASSUME Inv, NEW k \in Key, Reclaim(k)
  PROVE  Inv'
<1> DEFINE row == [job[k] EXCEPT !.stalled = @ + 1]
<1>1. job[k] \in JobRow /\ KeySound(k)
  BY Now
<1>2. /\ job[k].state = "active" /\ job[k].owner = None
      /\ UNCHANGED <<call, published, slot, faults>>
  BY DEF Reclaim, Still
<1>3. job[k].stalled \in Nat /\ MaxStalled \in Nat /\ job[k].stalled <= MaxStalled
  BY <1>1, <1>2, RowFields, QueueAssumption DEF KeySound, Bounded, Pending
<1>4. row \in JobRow /\ row.stalled = job[k].stalled + 1
  BY <1>1, <1>3 DEF JobRow
<1>5. CASE job[k].stalled + 1 <= MaxStalled
  BY <1>5, ReclaimKeeps
<1>6. CASE job[k].stalled + 1 > MaxStalled
  <2>1. End(k, "failed", row) /\ wait' = wait
    BY <1>4, <1>6 DEF Reclaim
  <2>2. count[k].lost = 0 => \A v \in Worker : ~Works4(v, k)'
    BY <1>1, <1>2, NoneAssumption DEF KeySound, Locked, Works4
  <2>3. slot' \in [Worker -> Slot] /\ "failed" \in Ended
    BY <1>2 DEF Inv, Shaped, Ended
  <2>. QED BY <1>2, <1>4, <2>1, <2>2, <2>3, EndKeeps
<1>. QED BY <1>3, <1>5, <1>6

-----------------------------------------------------------------------------

LEMMA QueueSteps == Inv /\ [Next]_vars => Inv'
<1> SUFFICES ASSUME Inv, [Next]_vars PROVE Inv'
  OBVIOUS
<1>1. ASSUME NEW c \in Caller, NEW k \in Key, Publish(c, k) PROVE Inv'
  BY <1>1, PublishKeeps
<1>2. ASSUME NEW c \in Caller, Add(c) PROVE Inv'
  BY <1>2, AddKeeps
<1>3. ASSUME NEW c \in Caller, AddFails(c) PROVE Inv'
  BY <1>3, AddFailsKeeps
<1>4. ASSUME NEW c \in Caller, Deadline(c) PROVE Inv'
  BY <1>4, DeadlineKeeps
<1>5. ASSUME NEW w \in Worker, Take(w) PROVE Inv'
  BY <1>5, TakeKeeps
<1>6. ASSUME NEW w \in Worker, Parse(w) PROVE Inv'
  BY <1>6, ParsesKeep
<1>7. ASSUME NEW w \in Worker, Reply(w) \/ TimeOut(w) PROVE Inv'
  BY <1>7, ReplyKeeps
<1>8. ASSUME NEW w \in Worker, Finish(w) PROVE Inv'
  BY <1>8, FinishKeeps
<1>9. ASSUME NEW w \in Worker, Block(w) \/ Crash(w) PROVE Inv'
  BY <1>9, LosesKeep DEF Block, Crash
<1>10. ASSUME NEW k \in Key, Promote(k) PROVE Inv'
  BY <1>10, PromoteKeeps
<1>11. ASSUME NEW k \in Key, Reclaim(k) PROVE Inv'
  BY <1>11, ReclaimsKeep
<1>12. CASE UNCHANGED vars
  <2>1. UNCHANGED <<job, wait, kept, slot, faults, count>> /\ UNCHANGED <<call, published>>
    BY <1>12 DEF vars
  <2>. QED BY <2>1, CallersKeep DEF Inv, Shaped
<1>. QED BY <1>1, <1>2, <1>3, <1>4, <1>5, <1>6, <1>7, <1>8, <1>9, <1>10, <1>11, <1>12 DEF Next, Works

\* A job waits exactly when its row says so, and the callers, jobs and slots keep
\* their shape (EmailProcessor and the scripts of BullMQ under it).
THEOREM TypeCorrect == Spec => []TypeOK
<1>1. Inv => TypeOK
  <2> SUFFICES ASSUME Inv PROVE TypeOK
    OBVIOUS
  <2>1. \A k \in Key : (\E i \in 1..Len(wait) : wait[i] = k) <=> job[k].state = "waiting"
    BY DEF Inv, KeySound, Placed, Within
  <2>. QED BY <2>1 DEF TypeOK, Inv, Shaped
<1>. QED BY <1>1, MailStarts, QueueSteps, PTL DEF Spec

\* An occasion is mailed once, but for the locks and the replies that were lost
\* and the keys that the retention has forgotten: its job id stands for it.
THEOREM MailedAtMostOnce == Spec => []MailedOnce
<1>1. Inv => MailedOnce
  <2> SUFFICES ASSUME Inv, NEW k \in Key
               PROVE  count[k].accepted <= 1 + count[k].lost + count[k].unclear + count[k].forgotten
    BY DEF MailedOnce
  <2>1. count[k] \in Count /\ Balanced(k)
    BY Now DEF KeySound
  <2>2. Cardinality(Open(k)) \in Nat
    BY <2>1, FS_CardinalityType DEF Balanced
  <2>. QED BY <2>1, <2>2, CountFields DEF Balanced
<1>. QED BY <1>1, MailStarts, QueueSteps, PTL DEF Spec

-----------------------------------------------------------------------------

\* What OutcomesSound asks of a step, by key.
Agrees(k) ==
  /\ job[k].state \in Pending /\ job'[k].state \notin Pending
       => \/ count[k].mailed \/ count[k].reported
          \/ job[k].owner = None /\ job[k].stalled = MaxStalled
  /\ count[k].reported /\ count[k].lost = 0 => count'[k].started <= count[k].started
Justified(k) ==
  job[k].owner # None /\ job'[k].owner = None /\ ~count[k].mailed /\ count'[k].lost = 0
    => (job'[k].state = "delayed" <=> ~count[k].refused /\ job[k].made + 1 < Attempts)

LEMMA RowStays ==
  ASSUME Inv, NEW k \in Key, job'[k] = job[k], count'[k].started = count[k].started
  PROVE  Agrees(k) /\ Justified(k)
BY Now, CountFields DEF Agrees, Justified

LEMMA AddSays ==
  ASSUME Inv, NEW c \in Caller, Add(c), NEW j \in Key
  PROVE  Agrees(j) /\ Justified(j)
<1> DEFINE k == call[c].key
           blank == [count[k] EXCEPT !.started = 0, !.mailed = FALSE, !.reported = FALSE, !.refused = FALSE]
<1>1. k \in Key
  BY DEF Add, Inv, Shaped
<1>2. CASE Known(k)
  BY <1>2, RowStays DEF Add
<1>3. CASE ~Known(k)
  <2>1. /\ job' = [job EXCEPT ![k] = NewJob] /\ count' = [count EXCEPT ![k] = blank]
        /\ job[k].state = "absent"
    BY <1>3 DEF Add, Known, Inv, Shaped
  <2>2. count[k] \in Count /\ KeySound(k)
    BY <1>1, Now
  <2>3. blank.started = 0 /\ count[k].started \in Nat
    BY <2>2 DEF Count
  <2> HIDE DEF k, blank
  <2>4. CASE j = k
    <3>1. job[j].owner = None
      BY <2>1, <2>2, <2>4 DEF KeySound, Locked
    <3>2. count'[j].started <= count[j].started
      BY <1>1, <2>1, <2>3, <2>4 DEF Inv, Shaped
    <3>. QED BY <2>1, <2>4, <3>1, <3>2 DEF Agrees, Justified, Pending
  <2>5. CASE j # k
    BY <1>1, <2>1, <2>5, RowStays DEF Inv, Shaped
  <2>. QED BY <2>4, <2>5
<1>. QED BY <1>2, <1>3

LEMMA TakeSays ==
  ASSUME Inv, NEW w \in Worker, NEW k, k = Head(wait), Take(w), NEW j \in Key
  PROVE  Agrees(j) /\ Justified(j)
<1> DEFINE row  == [job[k] EXCEPT !.state = "active", !.owner = w]
           more == [count[k] EXCEPT !.started = @ + 1]
<1>1. wait # <<>> /\ wait \in Seq(Key) /\ Single(wait)
  BY DEF Take, Inv, Shaped, Lines
<1>2. k \in Key /\ Within(wait, k)
  BY <1>1, TailIs
<1>3. job[k] \in JobRow /\ count[k] \in Count /\ KeySound(k)
  BY <1>2, Now
<1>4. job[k].state = "waiting" /\ job[k].owner = None
  BY <1>2, <1>3 DEF KeySound, Placed, Locked
<1>5. job' = [job EXCEPT ![k] = row] /\ count' = [count EXCEPT ![k] = more]
  BY <1>2 DEF Take, Inv, Shaped
<1>6. row.state = "active" /\ ~(count[k].reported /\ count[k].lost = 0)
  BY <1>3, <1>4 DEF JobRow, KeySound, Final
<1> HIDE DEF row, more
<1>7. CASE j = k
  <2>1. job'[j].state = "active"
    BY <1>2, <1>5, <1>6, <1>7 DEF Inv, Shaped
  <2>. QED BY <1>4, <1>6, <1>7, <2>1 DEF Agrees, Justified, Pending
<1>8. CASE j # k
  BY <1>2, <1>5, <1>8, RowStays DEF Inv, Shaped
<1>. QED BY <1>7, <1>8

LEMMA SlotSays ==
  ASSUME Inv, NEW w \in Worker, Parse(w) \/ Reply(w) \/ TimeOut(w), NEW j \in Key
  PROVE  Agrees(j) /\ Justified(j)
<1>1. count \in [Key -> Count] /\ count[j] \in Count
  BY DEF Inv, Shaped
<1>2. ASSUME Parse(w) PROVE job' = job /\ count'[j].started = count[j].started
  <2>1. CASE Deliverable(MessageOf[slot[w].key])
    BY <1>2, <2>1 DEF Parse
  <2>2. CASE ~Deliverable(MessageOf[slot[w].key])
    BY <1>1, <1>2, <2>2 DEF Parse, Count
  <2>. QED BY <1>2, <2>1, <2>2 DEF Parse
<1>3. ASSUME NEW o, NEW a, NEW l, Replied(w, o, a, l)
      PROVE  job' = job /\ count'[j].started = count[j].started
  BY <1>1, <1>3 DEF Replied, Count
<1>4. job' = job /\ count'[j].started = count[j].started
  BY <1>2, <1>3 DEF Reply, TimeOut
<1>. QED BY <1>4, RowStays

LEMMA LosesSays ==
  ASSUME Inv, NEW w \in Worker, LosesLock(w), NEW j \in Key
  PROVE  Agrees(j) /\ Justified(j)
<1> DEFINE k == slot[w].key
           row  == [job[k] EXCEPT !.owner = None]
           more == [count[k] EXCEPT !.lost = @ + 1]
<1>1. k \in Key /\ job' = [job EXCEPT ![k] = row] /\ count' = [count EXCEPT ![k] = more]
  BY DEF LosesLock, Inv, Shaped
<1>2. job[k] \in JobRow /\ count[k] \in Count
  BY <1>1, Now
<1>3. row.state = job[k].state /\ more.started = count[k].started /\ more.lost # 0
  BY <1>2 DEF JobRow, Count
<1> HIDE DEF k, row, more
<1>4. CASE j = k
  BY <1>1, <1>2, <1>3, <1>4, CountFields DEF Agrees, Justified, Inv, Shaped
<1>5. CASE j # k
  BY <1>1, <1>5, RowStays DEF Inv, Shaped
<1>. QED BY <1>4, <1>5

LEMMA PromoteSays ==
  ASSUME Inv, NEW k \in Key, Promote(k), NEW j \in Key
  PROVE  Agrees(j) /\ Justified(j)
<1> DEFINE row == [job[k] EXCEPT !.state = "waiting"]
<1>1. job[k].state = "delayed" /\ job' = [job EXCEPT ![k] = row] /\ count' = count
  BY DEF Promote, Inv, Shaped
<1>2. job[k] \in JobRow /\ KeySound(k)
  BY Now
<1>3. row.state = "waiting" /\ job[k].owner = None
  BY <1>1, <1>2 DEF JobRow, KeySound, Locked
<1> HIDE DEF row
<1>4. CASE j = k
  BY <1>1, <1>3, <1>4, Now, CountFields DEF Agrees, Justified, Pending, Inv, Shaped
<1>5. CASE j # k
  BY <1>1, <1>5, RowStays DEF Inv, Shaped
<1>. QED BY <1>4, <1>5

\* The end of a job is its own: of the others it can only forget one that has ended.
LEMMA EndSays ==
  ASSUME Inv, NEW k \in Key, NEW e \in Ended, NEW row \in JobRow, End(k, e, row),
         job[k].state = "active", NEW j \in Key
  PROVE  /\ count'[j].started = count[j].started /\ count'[j].lost = count[j].lost
         /\ j # k => Agrees(j) /\ Justified(j)
         /\ job'[k].state \notin Pending
<1> DEFINE list    == Append(kept[e], k)
           full    == Len(list) > Keep(e)
           dropped == IF full THEN {Head(list)} ELSE {}
           ended   == [row EXCEPT !.state = e, !.owner = None]
<1>1. /\ job' = [i \in Key |-> IF i \in dropped THEN NoJob ELSE IF i = k THEN ended ELSE job[i]]
      /\ count' = [i \in Key |-> IF i \in dropped THEN [count[i] EXCEPT !.forgotten = @ + 1]
                                 ELSE count[i]]
  BY DEF End
<1>2. kept[e] \in Seq(Key) /\ Single(kept[e]) /\ \A i \in Key : KeySound(i)
  BY DEF Inv, Shaped, Lines
<1>3. ~Within(kept[e], k)
  BY <1>2 DEF KeySound, Placed, Ended
<1>4. /\ list \in Seq(Key) /\ list # <<>> /\ Single(list)
      /\ \A y : Within(list, y) <=> Within(kept[e], y) \/ y = k
  BY <1>2, <1>3, AppendIs
<1>5. ended.state = e
  BY DEF JobRow
<1> HIDE DEF list, full, ended
<1>6. \A y \in dropped : y = k \/ (y \in Key /\ Within(kept[e], y))
  <2>1. Within(list, Head(list)) /\ Head(list) \in Key
    BY <1>4, TailIs
  <2>. QED BY <1>4, <2>1
<1>7. \A y \in dropped : y # k => job[y].state = e /\ job[y].owner = None
  BY <1>2, <1>6 DEF KeySound, Placed, Locked, Ended
<1> HIDE DEF dropped
<1>8. count'[j].started = count[j].started /\ count'[j].lost = count[j].lost
  <2>1. count[j] \in Count
    BY Now
  <2>2. /\ [count[j] EXCEPT !.forgotten = @ + 1].started = count[j].started
        /\ [count[j] EXCEPT !.forgotten = @ + 1].lost = count[j].lost
    BY <2>1 DEF Count
  <2>. QED BY <1>1, <2>2
<1>9. job'[k].state \notin Pending
  BY <1>1, <1>5, NothingYet DEF Pending, Ended
<1>10. ASSUME j # k PROVE Agrees(j) /\ Justified(j)
  <2>1. CASE j \in dropped
    BY <1>7, <1>8, <1>10, <2>1, Now, CountFields DEF Agrees, Justified, Pending, Ended
  <2>2. CASE j \notin dropped
    <3>1. job'[j] = job[j]
      BY <1>1, <1>10, <2>2
    <3>. QED BY <1>8, <3>1, RowStays
  <2>. QED BY <2>1, <2>2
<1>. QED BY <1>8, <1>9, <1>10

LEMMA FinishSays ==
  ASSUME Inv, NEW w \in Worker, NEW k, k = slot[w].key, Finish(w), NEW j \in Key
  PROVE  Agrees(j) /\ Justified(j)
<1> DEFINE row == [job[k] EXCEPT !.made = slot[w].made + 1]
<1>1. /\ slot[w].at = "replied" /\ k \in Key /\ slot[w].made \in Nat /\ slot[w].made < Attempts
      /\ slot[w].outcome \in {"sent", "transient", "permanent"}
  BY SlotFields DEF Finish, Inv, Shaped
<1>2. job[k] \in JobRow /\ count[k] \in Count /\ KeySound(k) /\ Attempts \in Nat
  BY <1>1, Now, QueueAssumption
<1>3. row \in JobRow
  BY <1>1, <1>2 DEF JobRow
<1>4. CASE ~Holds(w)
  <2>1. job' = job /\ count' = count
    BY <1>4 DEF Finish
  <2>. QED BY <2>1, RowStays
<1>5. ASSUME Holds(w)
      PROVE  /\ job[k].owner = w /\ job[k].state = "active" /\ job[k].made = slot[w].made
             /\ slot[w].outcome = "sent" => count[k].mailed
             /\ Last(w) => count[k].reported
             /\ count[k].lost = 0 /\ slot[w].outcome = "transient" => ~count[k].refused
             /\ count[k].lost = 0 /\ slot[w].outcome = "permanent" => count[k].refused
  BY <1>1, <1>2, <1>5, NoneAssumption DEF Holds, KeySound, Locked, Told
<1>6. Last(w) <=> ~(slot[w].outcome = "sent")
                  /\ ~(slot[w].outcome = "transient" /\ slot[w].made + 1 < Attempts)
  BY <1>1, <1>2 DEF Last
<1>7. CASE Holds(w) /\ slot[w].outcome = "transient" /\ slot[w].made + 1 < Attempts
  <2> DEFINE later == [row EXCEPT !.state = "delayed", !.owner = None]
  <2>1. job' = [job EXCEPT ![k] = later] /\ count' = count
    BY <1>7 DEF Finish
  <2>2. later.state = "delayed"
    <3> HIDE DEF row
    <3>. QED BY <1>3 DEF JobRow
  <2> HIDE DEF later
  <2>3. CASE j = k
    <3>1. job'[j].state = "delayed"
      BY <1>1, <2>1, <2>2, <2>3 DEF Inv, Shaped
    <3>2. count'[j].started <= count[j].started
      BY <1>2, <2>1, <2>3, CountFields
    <3>. QED BY <1>5, <1>7, <2>1, <2>3, <3>1, <3>2 DEF Agrees, Justified, Pending
  <2>4. CASE j # k
    BY <1>1, <2>1, <2>4, RowStays DEF Inv, Shaped
  <2>. QED BY <2>3, <2>4
<1>8. ASSUME NEW e \in Ended, Holds(w), End(k, e, row),
             ~(slot[w].outcome = "transient" /\ slot[w].made + 1 < Attempts)
      PROVE  Agrees(j) /\ Justified(j)
  <2>1. /\ count'[j].started = count[j].started /\ count'[j].lost = count[j].lost
        /\ j # k => Agrees(j) /\ Justified(j)
        /\ job'[k].state \notin Pending
    BY <1>1, <1>3, <1>5, <1>8, EndSays
  <2>2. CASE j = k
    <3>1. count[j].mailed \/ count[j].reported
      BY <1>1, <1>5, <1>6, <1>8, <2>2
    <3>2. Agrees(j)
      BY <1>2, <2>1, <2>2, <3>1, CountFields DEF Agrees
    <3>3. ASSUME ~count[j].mailed, count'[j].lost = 0
          PROVE  ~(~count[j].refused /\ job[j].made + 1 < Attempts)
      BY <1>1, <1>5, <1>8, <2>1, <2>2, <3>3
    <3>4. Justified(j)
      BY <2>1, <2>2, <3>3 DEF Justified, Pending
    <3>. QED BY <3>2, <3>4
  <2>. QED BY <2>1, <2>2
<1>9. \/ ~Holds(w)
      \/ Holds(w) /\ slot[w].outcome = "transient" /\ slot[w].made + 1 < Attempts
      \/ \E e \in Ended : /\ Holds(w) /\ End(k, e, row)
                          /\ ~(slot[w].outcome = "transient" /\ slot[w].made + 1 < Attempts)
  BY DEF Finish, Ended
<1>. QED BY <1>4, <1>7, <1>8, <1>9

LEMMA ReclaimSays ==
  ASSUME Inv, NEW k \in Key, Reclaim(k), NEW j \in Key
  PROVE  Agrees(j) /\ Justified(j)
<1> DEFINE row == [job[k] EXCEPT !.stalled = @ + 1]
<1>1. job[k] \in JobRow /\ KeySound(k) /\ count[j] \in Count
  BY Now
<1>2. job[k].state = "active" /\ job[k].owner = None
  BY DEF Reclaim
<1>3. job[k].stalled \in Nat /\ MaxStalled \in Nat /\ job[k].stalled <= MaxStalled
  BY <1>1, <1>2, RowFields, QueueAssumption DEF KeySound, Bounded, Pending
<1>4. row \in JobRow /\ row.stalled = job[k].stalled + 1
  BY <1>1, <1>3 DEF JobRow
<1>5. CASE job[k].stalled + 1 <= MaxStalled
  <2>1. job' = [job EXCEPT ![k] = [row EXCEPT !.state = "waiting"]] /\ count' = count
    BY <1>3, <1>4, <1>5 DEF Reclaim
  <2>2. [row EXCEPT !.state = "waiting"].state = "waiting"
    <3> HIDE DEF row
    <3>. QED BY <1>4 DEF JobRow
  <2> HIDE DEF row
  <2>3. CASE j = k
    <3>1. job'[j].state = "waiting"
      BY <2>1, <2>2, <2>3 DEF Inv, Shaped
    <3>. QED BY <1>1, <1>2, <2>1, <2>3, <3>1, CountFields DEF Agrees, Justified, Pending
  <2>4. CASE j # k
    BY <2>1, <2>4, RowStays DEF Inv, Shaped
  <2>. QED BY <2>3, <2>4
<1>6. CASE job[k].stalled + 1 > MaxStalled
  <2>1. End(k, "failed", row) /\ "failed" \in Ended
    BY <1>4, <1>6 DEF Reclaim, Ended
  <2>2. /\ count'[j].started = count[j].started
        /\ j # k => Agrees(j) /\ Justified(j)
    BY <1>2, <1>4, <2>1, EndSays
  <2>3. CASE j = k
    BY <1>1, <1>2, <1>3, <1>6, <2>2, <2>3, CountFields DEF Agrees, Justified
  <2>. QED BY <2>2, <2>3
<1>. QED BY <1>3, <1>5, <1>6

LEMMA StepsSay ==
  ASSUME Inv, [Next]_vars, NEW j \in Key
  PROVE  Agrees(j) /\ Justified(j)
<1>1. ASSUME job' = job, count' = count PROVE Agrees(j) /\ Justified(j)
  BY <1>1, RowStays
<1>2. ASSUME NEW c \in Caller, (\E k \in Key : Publish(c, k)) \/ AddFails(c) \/ Deadline(c)
      PROVE  job' = job /\ count' = count
  BY <1>2 DEF Publish, AddFails, Deadline, Quiet
<1>3. ASSUME NEW w \in Worker, Block(w) \/ Crash(w) PROVE LosesLock(w)
  BY <1>3 DEF Block, Crash
<1>. QED
  BY <1>1, <1>2, <1>3, AddSays, TakeSays, SlotSays, FinishSays, LosesSays, PromoteSays, ReclaimSays
     DEF Next, Works, vars

\* What the processor reports is what the queue does, and a mail is given up
\* before its attempts are spent only for a cause that lasts
\* (EmailProcessor.process, isPermanentDeliveryFailure).
THEOREM OutcomesHold == Spec => OutcomesSound
<1>1. Inv /\ [Next]_vars =>
        [\A k \in Key :
           /\ job[k].state \in Pending /\ job'[k].state \notin Pending
                => \/ count[k].mailed \/ count[k].reported
                   \/ job[k].owner = None /\ job[k].stalled = MaxStalled
           /\ count[k].reported /\ count[k].lost = 0
                => count'[k].started <= count[k].started]_vars
  BY StepsSay DEF Agrees
<1>2. Inv /\ [Next]_vars =>
        [\A k \in Key :
           job[k].owner # None /\ job'[k].owner = None /\ ~count[k].mailed /\ count'[k].lost = 0
             => (job'[k].state = "delayed" <=> ~count[k].refused /\ job[k].made + 1 < Attempts)]_vars
  BY StepsSay DEF Justified
<1>. QED BY <1>1, <1>2, MailStarts, QueueSteps, PTL DEF Spec, OutcomesSound, ReportsAgree, GivenUpForCause

\* No occasion is mailed twice without cause, and none is dropped without a word.
THEOREM MailsStaySound == Spec => MailsSound
BY MailedAtMostOnce, OutcomesHold, PTL DEF MailsSound
===============================================================================
