------------------------------- MODULE BusProofs -------------------------------
(***************************************************************************)
(* Proofs about natsbus.                                                   *)
(*                                                                         *)
(* Of the reliable publisher, for any set of messages, attempts, batch size *)
(* and number of crashes: it implements the outbox (Outbox.tla), its count of *)
(* dead letters does not drift, and it stores a message twice only where it *)
(* could not know better.                                                  *)
(*                                                                         *)
(* Of a queue group of consumers, for any number of members, messages and  *)
(* subscriptions, and of the envelopes it reads, in every format and with any *)
(* propagators: what the durable consumer has passed is not lost, and the  *)
(* envelope and its trace context arrive.                                  *)
(***************************************************************************)
EXTENDS ReliablePublisher, Consumer, FiniteSetTheorems, SequenceTheorems, TLAPS

Labels == {"idle", "before", "attempt", "after", "stamp", "rename", "add",
           "remove", "sub"}

TypeOK ==
    /\ files \subseteq Messages /\ batch \subseteq Messages
    /\ ambiguous \subseteq Messages
    /\ stamp \in [Messages -> Nat]
    /\ copies \in [Messages -> 0..2]
    /\ count \in Int
    /\ outcome \in [Messages -> OB!Answers]
    /\ pc \in [Threads -> Labels]
    /\ ok \in [Threads -> BOOLEAN]
    /\ life \in {"open", "closing", "closed", "down"}

\* Who can be where: Publish saves, the replayer removes, and nobody runs while
\* the process is down.  Publish has not answered while it is under way.
Places ==
    /\ \A m \in Messages : pc[m] \notin {"remove", "sub"}
    /\ pc[Replayer] \notin {"stamp", "rename", "add"}
    /\ life = "down" => \A t \in Threads : pc[t] = "idle"
    /\ \A m \in Messages : pc[m] # "idle" => outcome[m] = "none"

\* A message gets its file only at the end of its Publish.
FilesAreSaved ==
    \A m \in files \union batch :
        pc[m] = "add" \/ (pc[m] = "idle" /\ outcome[m] # "none")

\* What the replayer has listed is there to be replayed, but for the record it
\* has just removed.
BatchIsListed ==
    /\ pc[Replayer] = "idle" <=> holder = "none"
    /\ pc[Replayer] # "idle" => batch # {}
    /\ pc[Replayer] # "sub" => batch \subseteq files
    /\ pc[Replayer] = "sub" =>
          Oldest(batch) \notin files /\ batch \ {Oldest(batch)} \subseteq files

\* What a thread is sure of is so: a message it has published is in the stream,
\* one it has saved is there or has its file.
WhatIsKnown ==
    /\ \A t \in Threads : pc[t] = "after" /\ ok[t] => Msg(t) \in stream
    /\ pc[Replayer] = "remove" => Oldest(batch) \in stream
    /\ \A m \in Messages : pc[m] = "add" => m \in files \union stream

\* The replayer has published the record it is working on.
Replayed == pc[Replayer] = "remove" \/ (pc[Replayer] = "after" /\ ok[Replayer])

\* A message that may be sent again has not been stored, as far as the process
\* can know.
UnsentIfPending ==
    \A m \in Messages \ ambiguous :
        /\ \/ pc[m] \in {"before", "attempt", "stamp", "rename"}
           \/ pc[m] = "idle" /\ outcome[m] = "none"
           \/ pc[m] = "after" /\ ~ok[m]
           => copies[m] = 0
        /\ m \in files => copies[m] = 0 \/ (Replayed /\ m = Oldest(batch))

IInv ==
    /\ TypeOK /\ Places /\ FilesAreSaved /\ BatchIsListed /\ WhatIsKnown
    /\ UnsentIfPending /\ DuplicatesAreAmbiguous /\ CountAccounting

USE PublisherAssumption DEF PublisherAssumption
-------------------------------------------------------------------------------
(* Facts about the operators.                                              *)

\* Every nonempty set of naturals has a least element.
LEMMA LeastNatural ==
  ASSUME NEW T, T \subseteq Nat, T # {}
  PROVE  \E x \in T : \A y \in T : x <= y
  <1> DEFINE R == {ss \in Nat \X Nat : ss[1] < ss[2]}
  <1>1. IsWellFoundedOn(R, Nat)
    BY NatLessThanWellFounded, Zenon DEF OpToRel
  <1>2. \A x, y \in Nat : x < y => <<x, y>> \in R
    OBVIOUS
  <1> HIDE DEF R
  <1>3. PICK x \in T : \A y \in T : ~(<<y, x>> \in R)
    BY <1>1, WFMin, Zenon
  <1>4. \A y \in T : ~(y < x)
    BY <1>2, <1>3, Zenon
  <1>5. \A y \in T : x <= y
    BY <1>4
  <1> QED
    BY <1>5

\* Among messages there is always one with the smallest file name.
LEMMA OldestExists ==
  ASSUME stamp \in [Messages -> Nat], NEW S \in SUBSET Messages, S # {}
  PROVE  \E m \in S : \A n \in S : stamp[m] <= stamp[n]
  <1> DEFINE T == {stamp[m] : m \in S}
  <1>1. T \subseteq Nat /\ T # {}
    OBVIOUS
  <1>2. PICK x \in T : \A y \in T : x <= y
    BY <1>1, LeastNatural, Zenon
  <1> QED
    BY <1>2

\* The record being replayed is one of the batch.
LEMMA OldestInBatch ==
  ASSUME TypeOK, batch # {}
  PROVE  Oldest(batch) \in batch
  <1>1. \E m \in batch : \A n \in batch : stamp[m] <= stamp[n]
    BY OldestExists DEF TypeOK
  <1> QED
    BY <1>1 DEF Oldest

\* It stays the same while the batch and the names of its records do.
LEMMA OldestKept ==
  ASSUME batch' = batch, \A m \in batch : stamp'[m] = stamp[m]
  PROVE  Oldest(batch)' = Oldest(batch)
  BY DEF Oldest

\* List returns something where there is a file.
LEMMA ListNonempty ==
  ASSUME TypeOK, files # {}
  PROVE  List # {} /\ List \subseteq files
  <1>1. PICK m \in files : \A n \in files : stamp[m] <= stamp[n]
    BY OldestExists DEF TypeOK
  <1>2. {n \in files : stamp[n] < stamp[m]} = {}
    BY <1>1 DEF TypeOK
  <1>3. Cardinality({n \in files : stamp[n] < stamp[m]}) < BatchSize
    BY <1>2, FS_EmptySet
  <1> QED
    BY <1>3, Zenon DEF List

\* There are finitely many files and savers to count.
LEMMA FilesFinite ==
  ASSUME TypeOK
  PROVE  /\ IsFiniteSet(files) /\ Cardinality(files) \in Nat
         /\ IsFiniteSet({m \in Messages : pc[m] = "add"})
         /\ Cardinality({m \in Messages : pc[m] = "add"}) \in Nat
  BY FS_Subset, FS_CardinalityType DEF TypeOK

\* The count stays right where neither the files nor who is between a file and
\* the counter changes.
LEMMA CountKept ==
  ASSUME CountAccounting, life' # "down" => life # "down",
         files' = files, count' = count,
         \A m \in Messages : pc'[m] = "add" <=> pc[m] = "add",
         pc'[Replayer] = "sub" <=> pc[Replayer] = "sub"
  PROVE  CountAccounting'
  <1> QED
    BY DEF CountAccounting

\* What a thread publishes is a message, and publishing it stores it.
LEMMA PublishedIsMessage ==
  ASSUME IInv, NEW t \in Threads, pc[t] # "idle"
  PROVE  /\ Msg(t) \in Messages
         /\ Stored(Msg(t)) \in [Messages -> 0..2]
  <1>1. Msg(t) \in Messages
    BY OldestInBatch DEF IInv, TypeOK, BatchIsListed, Msg, Threads
  <1> HIDE DEF Msg
  <1> QED
    BY <1>1 DEF IInv, TypeOK, Stored
-------------------------------------------------------------------------------
\* A new publisher on an empty directory satisfies the invariant.
LEMMA InitIInv == Init => IInv
  <1> SUFFICES ASSUME Init PROVE IInv
    OBVIOUS
  <1>1. TypeOK
    <2>1. ok \in [Threads -> BOOLEAN]
      BY DEF Init
    <2> QED
      BY DEF Init, TypeOK, Labels, OB!Answers
  <1>2. Places /\ FilesAreSaved /\ BatchIsListed /\ WhatIsKnown
    BY DEF Init, Places, FilesAreSaved, BatchIsListed, WhatIsKnown, Threads
  <1>3. UnsentIfPending /\ DuplicatesAreAmbiguous
    BY DEF Init, UnsentIfPending, DuplicatesAreAmbiguous
  <1>4. CountAccounting
    <2>1. files = {} /\ {m \in Messages : pc[m] = "add"} = {}
      BY DEF Init, Threads
    <2> QED
      BY FS_EmptySet DEF Init, CountAccounting, Threads
  <1> QED
    BY <1>1, <1>2, <1>3, <1>4 DEF IInv

\* Calling publishMessage changes nothing that is promised.
LEMMA PublishIInv ==
  ASSUME IInv, NEW m \in Messages, Publish(m)
  PROVE  IInv'
  <1>1. batch' = batch => Oldest(batch)' = Oldest(batch)
    BY OldestKept DEF Publish, storeVars
  <1>2. TypeOK'
    BY Zenon DEF IInv, TypeOK, Labels, Publish, Goto, storeVars, natsVars, callVars,
           replayVars, envVars
  <1>3. Places'
    BY DEF IInv, Places, Publish, Goto, envVars
  <1>4. FilesAreSaved'
    BY DEF IInv, FilesAreSaved, Publish, Goto, storeVars, replayVars
  <1>5. BatchIsListed'
    BY <1>1 DEF IInv, BatchIsListed, Publish, Goto, storeVars, replayVars
  <1>6. WhatIsKnown'
    BY <1>1
    DEF IInv, WhatIsKnown, stream, Msg, Publish, Goto, storeVars, natsVars,
        callVars, replayVars
  <1>7. UnsentIfPending'
    BY <1>1
    DEF IInv, UnsentIfPending, Replayed, Publish, Goto, storeVars, natsVars,
        callVars, replayVars
  <1>8. DuplicatesAreAmbiguous'
    BY DEF IInv, DuplicatesAreAmbiguous, Publish, natsVars
  <1>9. CountAccounting'
    BY DEF IInv, CountAccounting, Threads, Publish, Goto, storeVars
  <1> QED
    BY <1>2, <1>3, <1>4, <1>5, <1>6, <1>7, <1>8, <1>9 DEF IInv

\* A message that cannot be built is answered with an error.
LEMMA BuildFailsIInv ==
  ASSUME IInv, NEW m \in Messages, BuildFails(m)
  PROVE  IInv'
  <1>1. batch' = batch => Oldest(batch)' = Oldest(batch)
    BY OldestKept DEF BuildFails, storeVars
  <1>2. TypeOK'
    BY DEF IInv, TypeOK, OB!Answers, BuildFails, storeVars, natsVars, callVars,
           replayVars, envVars
  <1>3. Places'
    BY DEF IInv, Places, BuildFails, envVars
  <1>4. FilesAreSaved'
    BY DEF IInv, FilesAreSaved, BuildFails, storeVars, replayVars
  <1>5. BatchIsListed'
    BY <1>1 DEF IInv, BatchIsListed, BuildFails, storeVars, replayVars
  <1>6. WhatIsKnown'
    BY <1>1
    DEF IInv, WhatIsKnown, stream, Msg, BuildFails, storeVars, natsVars,
        callVars, replayVars
  <1>7. UnsentIfPending'
    BY <1>1
    DEF IInv, UnsentIfPending, Replayed, BuildFails, storeVars, natsVars,
        callVars, replayVars
  <1>8. DuplicatesAreAmbiguous'
    BY DEF IInv, DuplicatesAreAmbiguous, BuildFails, natsVars
  <1>9. CountAccounting'
    BY DEF IInv, CountAccounting, BuildFails, storeVars
  <1> QED
    BY <1>2, <1>3, <1>4, <1>5, <1>6, <1>7, <1>8, <1>9 DEF IInv

\* Admission by the breaker changes nothing that is promised.
LEMMA AdmitIInv ==
  ASSUME IInv, NEW t \in Threads, Admit(t)
  PROVE  IInv'
  <1>1. batch' = batch => Oldest(batch)' = Oldest(batch)
    BY OldestKept DEF Admit, storeVars
  <1>2. TypeOK'
    BY DEF IInv, TypeOK, Labels, Admit, Goto, storeVars, natsVars, replayVars,
           envVars
  <1>3. Places'
    BY DEF IInv, Places, Admit, Goto, envVars
  <1>4. FilesAreSaved'
    BY DEF IInv, FilesAreSaved, Admit, Goto, storeVars, replayVars
  <1>5. BatchIsListed'
    BY <1>1 DEF IInv, BatchIsListed, Admit, Goto, storeVars, replayVars
  <1>6. WhatIsKnown'
    BY <1>1
    DEF IInv, WhatIsKnown, stream, Msg, Admit, Goto, storeVars, natsVars,
        replayVars
  <1>7. UnsentIfPending'
    BY <1>1
    DEF IInv, UnsentIfPending, Replayed, Admit, Goto, storeVars, natsVars,
        replayVars
  <1>8. DuplicatesAreAmbiguous'
    BY DEF IInv, DuplicatesAreAmbiguous, Admit, natsVars
  <1>9. CountAccounting'
    BY DEF IInv, Places, CountAccounting, Threads, Admit, Goto, storeVars
  <1> QED
    BY <1>2, <1>3, <1>4, <1>5, <1>6, <1>7, <1>8, <1>9 DEF IInv

\* A rejected message is dead-lettered, a rejected replay given up.
LEMMA RejectIInv ==
  ASSUME IInv, NEW t \in Threads, Reject(t)
  PROVE  IInv'
  <1>1. batch' = batch => Oldest(batch)' = Oldest(batch)
    BY OldestKept DEF Reject, storeVars
  <1>2. TypeOK'
    BY DEF IInv, TypeOK, Labels, Reject, Failed, Goto, storeVars, natsVars,
           callVars, replayVars, envVars
  <1>3. Places'
    BY DEF IInv, TypeOK, Places, Threads, Reject, Failed, Goto, envVars
  <1>4. FilesAreSaved'
    BY DEF IInv, TypeOK, FilesAreSaved, Threads, Reject, Failed, Goto,
           storeVars, replayVars
  <1>5. BatchIsListed'
    BY <1>1
    DEF IInv, TypeOK, BatchIsListed, Threads, Reject, Failed, Goto, storeVars,
        replayVars
  <1>6. WhatIsKnown'
    BY <1>1
    DEF IInv, TypeOK, WhatIsKnown, Threads, stream, Msg, Reject, Failed, Goto,
        storeVars, natsVars, callVars, replayVars
  <1>7. UnsentIfPending'
    BY <1>1
    DEF IInv, TypeOK, UnsentIfPending, Replayed, Threads, Reject, Failed, Goto,
        storeVars, natsVars, callVars, replayVars
  <1>8. DuplicatesAreAmbiguous'
    BY DEF IInv, DuplicatesAreAmbiguous, Reject, natsVars
  <1>9. CountAccounting'
    BY CountKept
    DEF IInv, TypeOK, Places, Threads, Reject, Failed, Goto, storeVars
  <1> QED
    BY <1>2, <1>3, <1>4, <1>5, <1>6, <1>7, <1>8, <1>9 DEF IInv

\* An acknowledged message is in the stream.
LEMMA AttemptAckedIInv ==
  ASSUME IInv, NEW t \in Threads, AttemptAcked(t)
  PROVE  IInv'
  <1>0. batch # {} => Oldest(batch) \in batch
    BY OldestInBatch DEF IInv
  <1>1. batch' = batch => Oldest(batch)' = Oldest(batch)
    BY OldestKept DEF AttemptAcked, storeVars
  <1>2. TypeOK'
    <2>1. copies' \in [Messages -> 0..2]
      BY PublishedIsMessage DEF AttemptAcked
    <2>2. ok' \in [Threads -> BOOLEAN]
      BY DEF IInv, TypeOK, AttemptAcked
    <2> QED
      BY <2>1
      DEF IInv, TypeOK, Labels, AttemptAcked, Goto, storeVars, replayVars,
          envVars
  <1>3. Places'
    BY DEF IInv, Places, AttemptAcked, Goto, envVars
  <1>4. FilesAreSaved'
    BY DEF IInv, FilesAreSaved, AttemptAcked, Goto, storeVars, replayVars
  <1>5. BatchIsListed'
    BY <1>1 DEF IInv, BatchIsListed, AttemptAcked, Goto, storeVars, replayVars
  <1>6. WhatIsKnown'
    BY <1>0, <1>1
    DEF IInv, TypeOK, BatchIsListed, WhatIsKnown, Threads, stream, Stored, Msg,
        AttemptAcked, Goto, storeVars, replayVars
  <1>7. UnsentIfPending'
    BY <1>0, <1>1
    DEF IInv, TypeOK, FilesAreSaved, BatchIsListed, UnsentIfPending, Replayed,
        Stored, Msg, AttemptAcked, Goto, storeVars, replayVars
  <1>8. DuplicatesAreAmbiguous'
    BY <1>0
    DEF IInv, BatchIsListed, UnsentIfPending, DuplicatesAreAmbiguous, Stored,
        Msg, Replayed, AttemptAcked
  <1>9. CountAccounting'
    BY DEF IInv, Places, CountAccounting, Threads, AttemptAcked, Goto,
           storeVars
  <1> QED
    BY <1>2, <1>3, <1>4, <1>5, <1>6, <1>7, <1>8, <1>9 DEF IInv

\* A failed attempt leaves the message unsent, or ambiguous.
LEMMA AttemptFailsIInv ==
  ASSUME IInv, NEW t \in Threads, NEW stored \in BOOLEAN, NEW again \in BOOLEAN, AttemptFails(t, stored, again)
  PROVE  IInv'
  <1>0. batch # {} => Oldest(batch) \in batch
    BY OldestInBatch DEF IInv
  <1>1. batch' = batch => Oldest(batch)' = Oldest(batch)
    BY OldestKept DEF AttemptFails, storeVars
  <1>2. TypeOK'
    <2>1. Msg(t) \in Messages /\ copies' \in [Messages -> 0..2]
      BY PublishedIsMessage DEF IInv, TypeOK, AttemptFails
    <2>2. ambiguous' \subseteq Messages
      BY <2>1 DEF IInv, TypeOK, AttemptFails
    <2>3. ok' \in [Threads -> BOOLEAN]
      BY Zenon DEF IInv, TypeOK, AttemptFails
    <2>4. pc' \in [Threads -> Labels]
      BY DEF IInv, TypeOK, Labels, AttemptFails, Goto
    <2> QED
      BY <2>1, <2>4, Zenon
      DEF IInv, TypeOK, AttemptFails, storeVars, replayVars, envVars
  <1>3. Places'
    BY DEF IInv, TypeOK, Places, Threads, AttemptFails, Goto, envVars
  <1>4. FilesAreSaved'
    BY DEF IInv, TypeOK, FilesAreSaved, Threads, AttemptFails, Goto, storeVars,
           replayVars
  <1>5. BatchIsListed'
    BY <1>1
    DEF IInv, TypeOK, BatchIsListed, Threads, AttemptFails, Goto, storeVars,
        replayVars
  <1>6. WhatIsKnown'
    BY <1>0, <1>1
    DEF IInv, TypeOK, WhatIsKnown, Threads, stream, Stored, Msg, AttemptFails,
        Goto, storeVars, replayVars, envVars
  <1>7. UnsentIfPending'
    BY <1>0, <1>1
    DEF IInv, TypeOK, UnsentIfPending, Replayed, Threads, Stored, AttemptFails,
        Goto, storeVars, replayVars, envVars
  <1>8. DuplicatesAreAmbiguous'
    BY DEF IInv, DuplicatesAreAmbiguous, Stored, AttemptFails
  <1>9. CountAccounting'
    BY CountKept
    DEF IInv, TypeOK, Places, Threads, AttemptFails, Goto, storeVars
  <1> QED
    BY <1>2, <1>3, <1>4, <1>5, <1>6, <1>7, <1>8, <1>9 DEF IInv

\* A published message is answered, or its record is due for removal.
LEMMA AfterIInv ==
  ASSUME IInv, NEW t \in Threads, After(t)
  PROVE  IInv'
  <1>0. batch # {} => Oldest(batch) \in batch
    BY OldestInBatch DEF IInv
  <1>1. batch' = batch => Oldest(batch)' = Oldest(batch)
    BY OldestKept DEF After, storeVars
  <1>2. TypeOK'
    BY <1>0, Zenon
    DEF IInv, TypeOK, Threads, Labels, OB!Answers, After, Failed, Goto,
        storeVars, natsVars, replayVars, envVars
  <1>3. Places'
    BY Zenon DEF IInv, TypeOK, Places, Threads, After, Failed, Goto, envVars
  <1>4. FilesAreSaved'
    BY <1>0, Zenon
    DEF IInv, TypeOK, FilesAreSaved, Threads, After, Failed, Goto, storeVars,
        natsVars, replayVars
  <1>5. BatchIsListed'
    BY <1>1, Zenon
    DEF IInv, TypeOK, BatchIsListed, Threads, After, Failed, Goto, storeVars,
        replayVars
  <1>6. WhatIsKnown'
    BY <1>0, <1>1, Zenon
    DEF IInv, TypeOK, Places, BatchIsListed, WhatIsKnown, Threads, stream, Msg,
        After, Failed, Goto, storeVars, natsVars, replayVars, envVars
  <1>7. UnsentIfPending'
    <2>1. CASE ~ok[t] /\ t # Replayer
      <3>1. UNCHANGED <<files, batch, copies, ambiguous, outcome>>
        BY <2>1, Zenon DEF After, Failed, storeVars, natsVars, replayVars
      <3>2. /\ pc[t] = "after" /\ pc'[t] = "stamp"
            /\ \A q \in Threads \ {t} : pc'[q] = pc[q] /\ ok'[q] = ok[q]
        BY <2>1, Zenon DEF IInv, TypeOK, After, Failed, Goto
      <3>3. Replayed' = Replayed
        BY <2>1, <3>2 DEF Replayed, Threads
      <3> QED
        BY <1>1, <2>1, <3>1, <3>2, <3>3 DEF IInv, UnsentIfPending, Threads
    <2> USE DEF IInv, TypeOK, Places, FilesAreSaved, BatchIsListed, UnsentIfPending,
                Replayed, Threads, storeVars, natsVars, replayVars, envVars
    <2>2. CASE ~ok[t] /\ t = Replayer
      BY <2>2 DEF After, Failed, Goto
    <2>3. CASE ok[t] /\ t = Replayer
      BY <1>1, <2>3 DEF After, Goto
    <2>4. CASE ok[t] /\ t # Replayer
      BY <1>1, <2>4 DEF After, Goto
    <2> QED
      BY <2>1, <2>2, <2>3, <2>4
  <1>8. DuplicatesAreAmbiguous'
    BY DEF IInv, DuplicatesAreAmbiguous, After, natsVars
  <1>9. CountAccounting'
    BY CountKept, Zenon
    DEF IInv, TypeOK, Places, Threads, After, Failed, Goto, storeVars
  <1> QED
    BY <1>2, <1>3, <1>4, <1>5, <1>6, <1>7, <1>8, <1>9 DEF IInv

\* Naming a record does not reorder the batch.
LEMMA StampIInv ==
  ASSUME IInv, NEW m \in Messages, Stamp(m)
  PROVE  IInv'
  <1>1. Oldest(batch)' = Oldest(batch)
    <2>1. m \notin batch
      BY DEF IInv, FilesAreSaved, Stamp
    <2> QED
      BY <2>1, OldestKept, SMTT(20) DEF Stamp, replayVars
  <1>2. TypeOK'
    <2>1. Cardinality({n \in Messages : stamp[n] > 0}) \in Nat
      BY FS_Subset, FS_CardinalityType
    <2>2. stamp' \in [Messages -> Nat]
      BY <2>1 DEF IInv, TypeOK, Stamp
    <2>3. pc' \in [Threads -> Labels]
      BY Zenon DEF IInv, TypeOK, Labels, Stamp, Goto
    <2> QED
      BY <2>2, <2>3
      DEF IInv, TypeOK, Stamp, natsVars, callVars, replayVars, envVars
  <1>3. Places'
    <2>1. Places /\ pc[m] = "stamp" /\ pc \in [Threads -> Labels]
      BY DEF IInv, TypeOK, Stamp
    <2>2. pc' = [pc EXCEPT ![m] = "rename"] /\ UNCHANGED <<life, outcome>>
      BY DEF Stamp, Goto, envVars
    <2> QED
      BY <2>1, <2>2 DEF Places, Threads
  <1>4. FilesAreSaved'
    BY DEF IInv, FilesAreSaved, Stamp, Goto, replayVars
  <1>5. BatchIsListed'
    BY <1>1, SMTT(20) DEF IInv, BatchIsListed, Stamp, Goto, replayVars
  <1>6. WhatIsKnown'
    BY <1>1 DEF IInv, WhatIsKnown, stream, Msg, Stamp, Goto, natsVars, callVars
  <1>7. UnsentIfPending'
    BY <1>1
    DEF IInv, UnsentIfPending, Replayed, Stamp, Goto, natsVars, callVars
  <1>8. DuplicatesAreAmbiguous'
    BY DEF IInv, DuplicatesAreAmbiguous, Stamp, natsVars
  <1>9. CountAccounting'
    BY DEF IInv, Places, CountAccounting, Threads, Stamp, Goto
  <1> QED
    BY <1>2, <1>3, <1>4, <1>5, <1>6, <1>7, <1>8, <1>9 DEF IInv

\* A message that cannot be saved is answered with an error.
LEMMA SaveFailsIInv ==
  ASSUME IInv, NEW m \in Messages, SaveFails(m)
  PROVE  IInv'
  <1>1. batch' = batch => Oldest(batch)' = Oldest(batch)
    BY OldestKept DEF SaveFails, storeVars
  <1>2. TypeOK'
    BY Zenon DEF IInv, TypeOK, Labels, OB!Answers, SaveFails, Goto, storeVars,
           natsVars, callVars, replayVars, envVars
  <1>3. Places'
    BY DEF IInv, TypeOK, Places, Threads, SaveFails, Goto, envVars
  <1>4. FilesAreSaved'
    BY DEF IInv, FilesAreSaved, SaveFails, Goto, storeVars, replayVars
  <1>5. BatchIsListed'
    BY <1>1 DEF IInv, BatchIsListed, SaveFails, Goto, storeVars, replayVars
  <1>6. WhatIsKnown'
    BY <1>1
    DEF IInv, WhatIsKnown, stream, Msg, SaveFails, Goto, storeVars, natsVars,
        callVars, replayVars
  <1>7. UnsentIfPending'
    BY <1>1
    DEF IInv, UnsentIfPending, Replayed, SaveFails, Goto, storeVars, natsVars,
        callVars, replayVars
  <1>8. DuplicatesAreAmbiguous'
    BY DEF IInv, DuplicatesAreAmbiguous, SaveFails, natsVars
  <1>9. CountAccounting'
    BY DEF IInv, Places, CountAccounting, Threads, SaveFails, Goto, storeVars
  <1> QED
    BY <1>2, <1>3, <1>4, <1>5, <1>6, <1>7, <1>8, <1>9 DEF IInv

\* A saved message has its file and has not been sent.
LEMMA RenameIInv ==
  ASSUME IInv, NEW m \in Messages, Rename(m)
  PROVE  IInv'
  <1>0. batch # {} => Oldest(batch) \in batch
    BY OldestInBatch DEF IInv
  <1>1. batch' = batch => Oldest(batch)' = Oldest(batch)
    BY OldestKept DEF Rename
  <1>2. TypeOK'
    BY Zenon DEF IInv, TypeOK, Labels, Rename, Goto, natsVars, callVars, replayVars,
           envVars
  <1>3. Places'
    <2>1. Places /\ pc[m] = "rename" /\ pc \in [Threads -> Labels]
      BY DEF IInv, TypeOK, Rename
    <2>2. pc' = [pc EXCEPT ![m] = "add"] /\ UNCHANGED <<life, outcome>>
      BY DEF Rename, Goto, envVars
    <2> QED
      BY <2>1, <2>2 DEF Places, Threads
  <1>4. FilesAreSaved'
    BY DEF IInv, TypeOK, FilesAreSaved, Threads, Rename, Goto, replayVars
  <1>5. BatchIsListed'
    BY <1>0, <1>1
    DEF IInv, FilesAreSaved, BatchIsListed, Rename, Goto, replayVars
  <1>6. WhatIsKnown'
    BY <1>1
    DEF IInv, WhatIsKnown, stream, Msg, Rename, Goto, natsVars, callVars,
        replayVars
  <1>7. UnsentIfPending'
    BY <1>1
    DEF IInv, UnsentIfPending, Replayed, Rename, Goto, natsVars, callVars,
        replayVars
  <1>8. DuplicatesAreAmbiguous'
    BY DEF IInv, DuplicatesAreAmbiguous, Rename, natsVars
  <1>9. CountAccounting'
    <2>1. m \notin files /\ pc[m] = "rename"
      <3>1. FilesAreSaved /\ pc[m] = "rename"
        BY DEF IInv, Rename
      <3> QED
        BY <3>1 DEF FilesAreSaved
    <2>2. Cardinality(files') = Cardinality(files) + 1
      BY <2>1, FilesFinite, FS_AddElement, Zenon DEF IInv, Rename
    <2>3. {n \in Messages : pc'[n] = "add"} = {n \in Messages : pc[n] = "add"} \union {m}
      BY DEF IInv, TypeOK, Threads, Rename, Goto
    <2>4. Cardinality({n \in Messages : pc'[n] = "add"})
            = Cardinality({n \in Messages : pc[n] = "add"}) + 1
      BY <2>1, <2>3, FilesFinite, FS_AddElement, Zenon DEF IInv
    <2>5. count' = count /\ life' = life /\ pc'[Replayer] = pc[Replayer]
      BY DEF Rename, Goto, envVars
    <2>6. Cardinality(files) \in Nat /\ Cardinality({n \in Messages : pc[n] = "add"}) \in Nat
      BY FilesFinite DEF IInv
    <2> QED
      BY <2>2, <2>4, <2>5, <2>6, SMTT(20) DEF IInv, CountAccounting
  <1> QED
    BY <1>2, <1>3, <1>4, <1>5, <1>6, <1>7, <1>8, <1>9 DEF IInv

\* The counter catches up with the file.
LEMMA AddIInv ==
  ASSUME IInv, NEW m \in Messages, Add(m)
  PROVE  IInv'
  <1>1. batch' = batch => Oldest(batch)' = Oldest(batch)
    BY OldestKept DEF Add
  <1>2. TypeOK'
    BY DEF IInv, TypeOK, Threads, Labels, OB!Answers, Add, Goto, natsVars,
           callVars, replayVars, envVars
  <1>3. Places'
    BY DEF IInv, TypeOK, Places, Threads, Add, Goto, envVars
  <1>4. FilesAreSaved'
    BY DEF IInv, TypeOK, FilesAreSaved, Add, Goto, replayVars
  <1>5. BatchIsListed'
    BY <1>1 DEF IInv, BatchIsListed, Add, Goto, replayVars
  <1>6. WhatIsKnown'
    BY <1>1
    DEF IInv, WhatIsKnown, stream, Msg, Add, Goto, natsVars, callVars,
        replayVars
  <1>7. UnsentIfPending'
    BY <1>1, SMTT(20)
    DEF IInv, TypeOK, UnsentIfPending, Replayed, Add, Goto, natsVars, callVars,
        replayVars
  <1>8. DuplicatesAreAmbiguous'
    BY DEF IInv, DuplicatesAreAmbiguous, Add, natsVars
  <1>9. CountAccounting'
    <2>1. {n \in Messages : pc'[n] = "add"} = {n \in Messages : pc[n] = "add"} \ {m}
      BY DEF IInv, TypeOK, Threads, Add, Goto
    <2>2. Cardinality({n \in Messages : pc'[n] = "add"})
            = Cardinality({n \in Messages : pc[n] = "add"}) - 1
      <3> DEFINE S == {n \in Messages : pc[n] = "add"}
      <3>1. m \in S /\ IsFiniteSet(S)
        BY FilesFinite DEF IInv, Add
      <3> HIDE DEF S
      <3>2. Cardinality(S \ {m}) = Cardinality(S) - 1
        BY <3>1, FS_RemoveElement
      <3> QED
        BY <2>1, <3>2 DEF S
    <2>3. /\ count' = count + 1 /\ files' = files /\ life' = life
          /\ pc'[Replayer] = pc[Replayer]
      BY DEF Add, Goto, envVars
    <2>4. Cardinality(files) \in Nat /\ Cardinality({n \in Messages : pc[n] = "add"}) \in Nat
      BY FilesFinite DEF IInv
    <2> QED
      BY <2>2, <2>3, <2>4 DEF IInv, CountAccounting
  <1> QED
    BY <1>2, <1>3, <1>4, <1>5, <1>6, <1>7, <1>8, <1>9 DEF IInv

\* Replay begins with files that are there.
LEMMA ReplayStartIInv ==
  ASSUME IInv, NEW who \in {"loop", "caller"}, ReplayStart(who)
  PROVE  IInv'
  <1>1. batch' # {} /\ batch' \subseteq files
    BY ListNonempty DEF IInv, ReplayStart
  <1>2. TypeOK'
    BY <1>1, Zenon
    DEF IInv, TypeOK, Labels, ReplayStart, Goto, storeVars, natsVars, callVars,
        envVars
  <1>3. Places'
    BY DEF IInv, Places, ReplayStart, Goto, envVars
  <1>4. FilesAreSaved'
    BY <1>1 DEF IInv, TypeOK, FilesAreSaved, ReplayStart, Goto, storeVars
  <1>5. BatchIsListed'
    BY <1>1, SMTT(20)
    DEF IInv, TypeOK, BatchIsListed, Threads, ReplayStart, Goto, storeVars
  <1>6. WhatIsKnown'
    BY DEF IInv, BatchIsListed, WhatIsKnown, stream, Msg, ReplayStart, Goto,
           storeVars, natsVars, callVars
  <1>7. UnsentIfPending'
    BY DEF IInv, BatchIsListed, UnsentIfPending, Replayed, ReplayStart, Goto,
           storeVars, natsVars, callVars
  <1>8. DuplicatesAreAmbiguous'
    BY DEF IInv, DuplicatesAreAmbiguous, ReplayStart, natsVars
  <1>9. CountAccounting'
    BY CountKept DEF IInv, ReplayStart, BatchIsListed, Goto, storeVars
  <1> QED
    BY <1>2, <1>3, <1>4, <1>5, <1>6, <1>7, <1>8, <1>9 DEF IInv

\* A file is removed once its message is in the stream.
LEMMA RemoveIInv ==
  ASSUME IInv, Remove
  PROVE  IInv'
  <1>0. batch # {} => Oldest(batch) \in batch
    BY OldestInBatch DEF IInv
  <1>1. batch' = batch => Oldest(batch)' = Oldest(batch)
    BY OldestKept DEF Remove
  <1>2. TypeOK'
    BY Zenon DEF IInv, TypeOK, Labels, Remove, Goto, natsVars, callVars, replayVars,
           envVars
  <1>3. Places'
    BY DEF IInv, TypeOK, Places, Remove, Goto, envVars
  <1>4. FilesAreSaved'
    BY DEF IInv, FilesAreSaved, Remove, Goto, replayVars
  <1>5. BatchIsListed'
    BY <1>1 DEF IInv, TypeOK, BatchIsListed, Threads, Remove, Goto, replayVars
  <1>6. WhatIsKnown'
    BY SMTT(20) DEF IInv, TypeOK, WhatIsKnown, Threads, stream, Msg, Remove, Goto,
           natsVars, callVars
  <1>7. UnsentIfPending'
    <2>1. /\ \A m \in Messages : pc'[m] = pc[m]
          /\ UNCHANGED <<copies, outcome, ok, ambiguous>>
      BY DEF IInv, TypeOK, Threads, Remove, Goto, natsVars, callVars
    <2>2. \A m \in files' : m \in files /\ m # Oldest(batch)
      BY DEF Remove
    <2> QED
      BY <2>1, <2>2 DEF IInv, UnsentIfPending
  <1>8. DuplicatesAreAmbiguous'
    BY DEF IInv, DuplicatesAreAmbiguous, Remove, natsVars
  <1>9. CountAccounting'
    <2>1. Oldest(batch) \in files
      BY <1>0 DEF IInv, BatchIsListed, Remove
    <2>2. Cardinality(files') = Cardinality(files) - 1
      BY <2>1, FilesFinite, FS_RemoveElement, Zenon DEF IInv, Remove
    <2>3. {n \in Messages : pc'[n] = "add"} = {n \in Messages : pc[n] = "add"}
      BY DEF Remove, Goto
    <2>4. /\ count' = count /\ life' = life
          /\ pc[Replayer] = "remove" /\ pc'[Replayer] = "sub"
      BY DEF IInv, TypeOK, Threads, Remove, Goto, envVars
    <2>5. Cardinality(files) \in Nat /\ Cardinality({n \in Messages : pc[n] = "add"}) \in Nat
      BY FilesFinite DEF IInv
    <2>6. life' # "down" =>
            count' = Cardinality(files')
                     - Cardinality({n \in Messages : pc[n] = "add"}) + 1
      BY <2>2, <2>4, <2>5 DEF IInv, CountAccounting
    <2>7. (IF pc'[Replayer] = "sub" THEN 1 ELSE 0) = 1
      BY <2>4
    <2>8. life' # "down" =>
            count' = Cardinality(files')
                     - Cardinality({n \in Messages : pc'[n] = "add"})
                     + (IF pc'[Replayer] = "sub" THEN 1 ELSE 0)
      BY <2>3, <2>6, <2>7, SMTT(20)
    <2> QED
      BY <2>8 DEF CountAccounting
  <1> QED
    BY <1>2, <1>3, <1>4, <1>5, <1>6, <1>7, <1>8, <1>9 DEF IInv

\* A file that cannot be removed makes its message ambiguous.
LEMMA RemoveFailsIInv ==
  ASSUME IInv, RemoveFails
  PROVE  IInv'
  <1>0. batch # {} => Oldest(batch) \in batch
    BY OldestInBatch DEF IInv
  <1>2. TypeOK'
    <2>1. ambiguous' \subseteq Messages
      BY <1>0 DEF IInv, TypeOK, BatchIsListed, RemoveFails
    <2> QED
      BY <2>1
      DEF IInv, TypeOK, Labels, RemoveFails, Failed, Goto, storeVars, callVars,
          envVars
  <1>3. Places'
    BY DEF IInv, TypeOK, Places, Threads, RemoveFails, Failed, Goto, envVars
  <1>4. FilesAreSaved'
    BY DEF IInv, TypeOK, FilesAreSaved, Threads, RemoveFails, Failed, Goto,
           storeVars
  <1>5. BatchIsListed'
    BY DEF IInv, TypeOK, BatchIsListed, Threads, RemoveFails, Failed, Goto
  <1>6. WhatIsKnown'
    BY DEF IInv, TypeOK, WhatIsKnown, Threads, stream, Msg, RemoveFails,
           Failed, Goto, storeVars, callVars
  <1>7. UnsentIfPending'
    BY SMTT(20) DEF IInv, TypeOK, UnsentIfPending, Threads, RemoveFails, Failed, Goto,
           storeVars, callVars
  <1>8. DuplicatesAreAmbiguous'
    BY Zenon DEF IInv, DuplicatesAreAmbiguous, RemoveFails
  <1>9. CountAccounting'
    BY CountKept, SMTT(20)
    DEF IInv, TypeOK, Threads, RemoveFails, Failed, Goto, storeVars, envVars
  <1> QED
    BY <1>2, <1>3, <1>4, <1>5, <1>6, <1>7, <1>8, <1>9 DEF IInv

\* The counter catches up with the removal.
LEMMA SubIInv ==
  ASSUME IInv, Sub
  PROVE  IInv'
  <1>2. TypeOK'
    BY DEF IInv, TypeOK, Labels, Sub, Goto, natsVars, callVars, envVars
  <1>3. Places'
    BY DEF IInv, TypeOK, Places, Threads, Sub, Goto, envVars
  <1>4. FilesAreSaved'
    BY DEF IInv, TypeOK, FilesAreSaved, Threads, Sub, Goto
  <1>5. BatchIsListed'
    BY DEF IInv, TypeOK, BatchIsListed, Threads, Sub, Goto
  <1>6. WhatIsKnown'
    BY DEF IInv, TypeOK, WhatIsKnown, Threads, stream, Msg, Sub, Goto,
           natsVars, callVars
  <1>7. UnsentIfPending'
    BY DEF IInv, TypeOK, BatchIsListed, UnsentIfPending, Threads, Sub, Goto,
           natsVars, callVars
  <1>8. DuplicatesAreAmbiguous'
    BY DEF IInv, DuplicatesAreAmbiguous, Sub, natsVars
  <1>9. CountAccounting'
    <2>1. {n \in Messages : pc'[n] = "add"} = {n \in Messages : pc[n] = "add"}
      BY DEF IInv, TypeOK, Threads, Sub, Goto
    <2>2. /\ count' = count - 1 /\ files' = files /\ life' = life
          /\ pc[Replayer] = "sub" /\ pc'[Replayer] # "sub"
      BY DEF IInv, TypeOK, Threads, Sub, Goto, envVars
    <2>3. Cardinality(files) \in Nat /\ Cardinality({n \in Messages : pc[n] = "add"}) \in Nat
      BY FilesFinite DEF IInv
    <2> QED
      BY <2>1, <2>2, <2>3 DEF IInv, TypeOK, CountAccounting
  <1> QED
    BY <1>2, <1>3, <1>4, <1>5, <1>6, <1>7, <1>8, <1>9 DEF IInv

\* Close and the end of the loop change nothing that is promised.
LEMMA CloseIInv ==
  ASSUME IInv, Close \/ CloseConnection
  PROVE  IInv'
  <1>0. batch # {} => Oldest(batch) \in batch
    BY OldestInBatch DEF IInv
  <1>1. batch' = batch => Oldest(batch)' = Oldest(batch)
    BY OldestKept DEF Close, CloseConnection, storeVars
  <1>2. TypeOK'
    BY DEF IInv, TypeOK, Close, CloseConnection, storeVars, natsVars, callVars,
           replayVars
  <1>3. Places'
    BY SMTT(20) DEF IInv, Places, Close, CloseConnection
  <1>4. FilesAreSaved'
    BY Zenon DEF IInv, FilesAreSaved, Close, CloseConnection, storeVars, replayVars
  <1>5. BatchIsListed'
    BY <1>1, SMTT(20)
    DEF IInv, BatchIsListed, Close, CloseConnection, storeVars, replayVars
  <1>6. WhatIsKnown'
    <2>1. WhatIsKnown /\ UNCHANGED <<pc, ok, files, stream, batch>>
      BY SMTT(20) DEF IInv, Close, CloseConnection, stream, storeVars, natsVars, callVars,
             replayVars
    <2> QED
      BY <1>1, <2>1 DEF WhatIsKnown, Msg
  <1>7. UnsentIfPending'
    BY <1>0, <1>1
    DEF IInv, UnsentIfPending, Replayed, Close, CloseConnection, storeVars,
        natsVars, callVars, replayVars
  <1>8. DuplicatesAreAmbiguous'
    BY DEF IInv, DuplicatesAreAmbiguous, Close, CloseConnection, natsVars
  <1>9. CountAccounting'
    BY SMTT(20) DEF IInv, CountAccounting, Close, CloseConnection, storeVars
  <1> QED
    BY <1>2, <1>3, <1>4, <1>5, <1>6, <1>7, <1>8, <1>9 DEF IInv

\* A crash leaves the files and the stream, and calls unanswered.
LEMMA CrashIInv ==
  ASSUME IInv, Crash
  PROVE  IInv'
  <1>0. batch # {} => Oldest(batch) \in batch
    BY OldestInBatch DEF IInv
  <1>2. TypeOK'
    <2>1. ambiguous' \subseteq Messages
      BY <1>0, SMTT(20) DEF IInv, TypeOK, BatchIsListed, Crash
    <2>2. ok' \in [Threads -> BOOLEAN]
      BY DEF Crash
    <2>3. outcome' \in [Messages -> OB!Answers]
      BY DEF IInv, TypeOK, Crash, OB!Answers
    <2> QED
      BY <2>1, <2>3 DEF IInv, TypeOK, Labels, Crash, storeVars
  <1>3. Places'
    BY DEF Places, Threads, Crash
  <1>4. FilesAreSaved'
    BY SMTT(20) DEF IInv, TypeOK, FilesAreSaved, Threads, Crash, storeVars
  <1>5. BatchIsListed'
    BY DEF BatchIsListed, Threads, Crash
  <1>6. WhatIsKnown'
    BY SMTT(20) DEF WhatIsKnown, Threads, Crash
  <1>7. UnsentIfPending'
    BY Zenon DEF IInv, UnsentIfPending, Replayed, Threads, Crash, storeVars
  <1>8. DuplicatesAreAmbiguous'
    BY Zenon DEF IInv, DuplicatesAreAmbiguous, Crash
  <1>9. CountAccounting'
    BY Zenon DEF CountAccounting, Crash
  <1> QED
    BY <1>2, <1>3, <1>4, <1>5, <1>6, <1>7, <1>8, <1>9 DEF IInv

\* A restart counts the files that are there.
LEMMA RestartIInv ==
  ASSUME IInv, Restart
  PROVE  IInv'
  <1>2. TypeOK'
    BY FilesFinite, SMTT(20) DEF IInv, TypeOK, Restart, natsVars, callVars, replayVars
  <1>3. Places'
    BY Zenon DEF IInv, Places, Restart
  <1>4. FilesAreSaved'
    BY DEF IInv, FilesAreSaved, Restart, replayVars
  <1>5. BatchIsListed'
    BY SMTT(20) DEF IInv, Places, BatchIsListed, Threads, Restart, replayVars
  <1>6. WhatIsKnown'
    <2>1. \A t \in Threads : pc'[t] = "idle"
      BY DEF IInv, Places, Restart
    <2> QED
      BY <2>1, SMTT(20) DEF WhatIsKnown, Threads
  <1>7. UnsentIfPending'
    BY Zenon DEF IInv, Places, UnsentIfPending, Replayed, Threads, Restart, natsVars
  <1>8. DuplicatesAreAmbiguous'
    BY DEF IInv, DuplicatesAreAmbiguous, Restart, natsVars
  <1>9. CountAccounting'
    <2>1. {n \in Messages : pc'[n] = "add"} = {} /\ pc'[Replayer] = "idle"
      BY SMTT(20) DEF IInv, Places, Threads, Restart
    <2> QED
      BY <2>1, FilesFinite, FS_EmptySet DEF IInv, CountAccounting, Restart
  <1> QED
    BY <1>2, <1>3, <1>4, <1>5, <1>6, <1>7, <1>8, <1>9 DEF IInv

\* Neither the clock nor the environment's recovery matters.
LEMMA TickIInv ==
  ASSUME IInv, Tick \/ Heal
  PROVE  IInv'
  <1>0. batch # {} => Oldest(batch) \in batch
    BY OldestInBatch DEF IInv
  <1>1. batch' = batch => Oldest(batch)' = Oldest(batch)
    BY OldestKept DEF Tick, Heal, storeVars
  <1>2. TypeOK'
    BY SMTT(20) DEF IInv, TypeOK, Tick, Heal, storeVars, natsVars, callVars, replayVars,
           envVars
  <1>3. Places'
    BY SMTT(20) DEF IInv, Places, Tick, Heal, envVars
  <1>4. FilesAreSaved'
    BY DEF IInv, FilesAreSaved, Tick, Heal, storeVars, replayVars
  <1>5. BatchIsListed'
    BY <1>1, SMTT(20) DEF IInv, BatchIsListed, Tick, Heal, storeVars, replayVars
  <1>6. WhatIsKnown'
    <2>1. WhatIsKnown /\ UNCHANGED <<pc, ok, files, stream, batch>>
      BY SMTT(20) DEF IInv, Tick, Heal, stream, storeVars, natsVars, callVars, replayVars
    <2> QED
      BY <1>1, <2>1 DEF WhatIsKnown, Msg
  <1>7. UnsentIfPending'
    BY <1>0, <1>1
    DEF IInv, UnsentIfPending, Replayed, Tick, Heal, storeVars, natsVars,
        callVars, replayVars
  <1>8. DuplicatesAreAmbiguous'
    BY DEF IInv, DuplicatesAreAmbiguous, Tick, Heal, natsVars
  <1>9. CountAccounting'
    BY DEF IInv, CountAccounting, Tick, Heal, storeVars, envVars
  <1> QED
    BY <1>2, <1>3, <1>4, <1>5, <1>6, <1>7, <1>8, <1>9 DEF IInv
-------------------------------------------------------------------------------
(* The invariant, and what follows from it.                                *)

\* Every step keeps the invariant.
LEMMA NextIInv == IInv /\ [Next]_vars => IInv'
  <1> SUFFICES ASSUME IInv, [Next]_vars PROVE IInv'
    OBVIOUS
  <1>1. ASSUME NEW t \in Threads, Step(t) PROVE IInv'
    BY <1>1, AdmitIInv, RejectIInv, AttemptAckedIInv, AttemptFailsIInv,
       AfterIInv
    DEF Step
  <1>2. ASSUME NEW m \in Messages, PublishStep(m) PROVE IInv'
    BY <1>1, <1>2, StampIInv, SaveFailsIInv, RenameIInv, AddIInv
    DEF PublishStep, Threads
  <1>3. ASSUME NEW m \in Messages, Publish(m) \/ BuildFails(m) PROVE IInv'
    BY <1>3, PublishIInv, BuildFailsIInv
  <1>4. CASE ReplayStep
    BY <1>1, <1>4, RemoveIInv, RemoveFailsIInv, SubIInv DEF ReplayStep, Threads
  <1>5. CASE Close \/ CloseConnection \/ Crash \/ Restart \/ Tick \/ Heal
    BY <1>5, CloseIInv, CrashIInv, RestartIInv, TickIInv, SMTT(20)
  <1>6. CASE UNCHANGED vars
    <2>1. Oldest(batch)' = Oldest(batch)
      BY <1>6, OldestKept DEF vars, storeVars, replayVars
    <2>2. List' = List /\ stream' = stream
      BY <1>6 DEF vars, storeVars, natsVars, List, stream
    <2> QED
      BY <1>6, <2>1, <2>2
      DEF IInv, TypeOK, Places, FilesAreSaved, BatchIsListed, WhatIsKnown,
          UnsentIfPending, Replayed, DuplicatesAreAmbiguous, CountAccounting,
          Msg, vars, storeVars, natsVars, callVars, replayVars, envVars
  <1> QED
    BY <1>2, <1>3, <1>4, <1>5, <1>6, ReplayStartIInv DEF Next

\* The invariant of the reliable publisher.
LEMMA Invariant == Spec => []IInv
  BY InitIInv, NextIInv, PTL DEF Spec

\* The counter behind the dead-letter metrics is the number of files, but for the
\* saves and the delete under way, whatever interleaves, fails or crashes.
THEOREM CountNeverDrifts == Spec => []CountAccounting
  <1>1. IInv => CountAccounting
    BY DEF IInv
  <1> QED
    BY Invariant, <1>1, PTL

\* Retries, replay, Close and restarts store a message twice only after a lost
\* acknowledgement, a failed removal or a crash in between.
THEOREM DuplicatesExplained == Spec => []DuplicatesAreAmbiguous
  <1>1. IInv => DuplicatesAreAmbiguous
    BY DEF IInv
  <1> QED
    BY Invariant, <1>1, PTL
-------------------------------------------------------------------------------
(* The publisher implements the outbox, step by step.                      *)

absVars == <<files, stream, outcome>>

\* A PublishMsg that stores the message delivers it: its Publish has not
\* answered yet, or its file is there.
LEMMA StoreDelivers ==
  ASSUME IInv, NEW t \in Threads, pc[t] = "attempt",
         copies' = Stored(Msg(t)), files' = files, outcome' = outcome
  PROVE  OB!Next
  <1>1. PICK m \in Messages : m = Msg(t)
    BY PublishedIsMessage
  <1>2. stream' = stream \union {m}
    BY <1>1, SMTT(20) DEF IInv, TypeOK, Stored, stream
  <1>3. outcome[m] = "none" \/ m \in files
    BY <1>1, OldestInBatch DEF IInv, Places, BatchIsListed, Msg
  <1>4. OB!Deliver(m)
    BY <1>2, <1>3 DEF OB!Deliver
  <1> QED
    BY <1>4 DEF OB!Next

\* An answer of Publish is one the outbox may give.
LEMMA AnswerIsAllowed ==
  ASSUME NEW m \in Messages, NEW a \in {"published", "dead-lettered", "failed"},
         outcome[m] = "none",
         a = "published" => m \in stream,
         a = "dead-lettered" => m \in files \union stream,
         outcome' = [outcome EXCEPT ![m] = a],
         files' = files, stream' = stream
  PROVE  OB!Next
  <1>1. OB!Answer(m, a)
    BY DEF OB!Answer
  <1>2. a \in OB!Answers \ {"none", "crashed"}
    BY DEF OB!Answers
  <1> QED
    BY <1>1, <1>2 DEF OB!Next

\* The steps of publishMessage deliver, answer or change nothing outside.
LEMMA StepSimulates ==
  ASSUME IInv, NEW t \in Threads, Step(t)
  PROVE  OB!Next \/ UNCHANGED absVars
  <1>1. CASE Admit(t) \/ Reject(t)
    BY <1>1 DEF Admit, Reject, absVars, stream, storeVars, natsVars
  <1>2. CASE AttemptAcked(t)
    BY <1>2, StoreDelivers DEF AttemptAcked, storeVars
  <1>3. ASSUME NEW stored \in BOOLEAN, NEW again \in BOOLEAN,
               AttemptFails(t, stored, again)
        PROVE  OB!Next \/ UNCHANGED absVars
    <2>1. CASE stored
      BY <1>3, <2>1, StoreDelivers DEF AttemptFails, storeVars
    <2>2. CASE ~stored
      BY <1>3, <2>2 DEF AttemptFails, absVars, stream, storeVars
    <2> QED
      BY <2>1, <2>2
  <1>4. CASE After(t)
    <2>1. CASE ok[t] /\ t # Replayer
      <3>1. t \in Messages /\ outcome[t] = "none" /\ t \in stream
        BY <1>4, <2>1 DEF IInv, Places, WhatIsKnown, After, Msg, Threads
      <3>2. /\ outcome' = [outcome EXCEPT ![t] = "published"]
            /\ files' = files /\ stream' = stream
        BY <1>4, <2>1 DEF After, stream, storeVars, natsVars
      <3> QED
        BY <3>1, <3>2, AnswerIsAllowed, Zenon
    <2>2. CASE ~ok[t] \/ t = Replayer
      BY <1>4, <2>2, Zenon DEF After, absVars, stream, storeVars, natsVars
    <2> QED
      BY <2>1, <2>2
  <1> QED
    BY <1>1, <1>2, <1>3, <1>4 DEF Step

\* Dead-lettering enqueues and answers; a failed save answers "failed".
LEMMA SaveSimulates ==
  ASSUME IInv, NEW m \in Messages, Stamp(m) \/ SaveFails(m) \/ Rename(m) \/ Add(m)
  PROVE  OB!Next \/ UNCHANGED absVars
  <1>1. CASE Stamp(m)
    BY <1>1 DEF Stamp, absVars, stream, natsVars
  <1>2. CASE SaveFails(m)
    <2>1. outcome[m] = "none" /\ files' = files /\ stream' = stream
      BY <1>2 DEF IInv, Places, SaveFails, stream, storeVars, natsVars
    <2> QED
      BY <1>2, <2>1, AnswerIsAllowed, Zenon DEF SaveFails
  <1>3. CASE Rename(m)
    <2>1. OB!Enqueue(m)
      BY <1>3, Zenon DEF IInv, Places, Rename, OB!Enqueue, stream, natsVars
    <2> QED
      BY <2>1, SMTT(20) DEF OB!Next
  <1>4. CASE Add(m)
    <2>1. /\ outcome[m] = "none" /\ m \in files \union stream
          /\ files' = files /\ stream' = stream
      BY <1>4, Zenon DEF IInv, Places, WhatIsKnown, Add, stream, natsVars
    <2> QED
      BY <1>4, <2>1, AnswerIsAllowed, Zenon DEF Add
  <1> QED
    BY <1>1, <1>2, <1>3, <1>4, SMTT(20)

\* Replay removes only what the stream has stored.
LEMMA ReplaySimulates ==
  ASSUME IInv, Remove \/ RemoveFails \/ Sub
  PROVE  OB!Next \/ UNCHANGED absVars
  <1>1. CASE Remove
    <2>1. Oldest(batch) \in files \intersect stream
      BY <1>1, OldestInBatch, Zenon DEF IInv, BatchIsListed, WhatIsKnown, Remove
    <2>2. PICK m \in Messages : m = Oldest(batch)
      BY <2>1, SMTT(20) DEF IInv, TypeOK
    <2>3. OB!Dequeue(m)
      BY <1>1, <2>1, <2>2, Zenon DEF Remove, OB!Dequeue, stream, natsVars
    <2> QED
      BY <2>3, SMTT(20) DEF OB!Next
  <1>2. CASE RemoveFails \/ Sub
    BY <1>2, Zenon DEF RemoveFails, Sub, absVars, stream, storeVars, natsVars
  <1> QED
    BY <1>1, <1>2

\* A crash leaves exactly the calls under way unanswered.
LEMMA CrashSimulates ==
  ASSUME IInv, Crash
  PROVE  OB!Next
  <1> DEFINE S == {m \in Messages : pc[m] # "idle"}
  <1>1. OB!Crash(S)
    BY DEF IInv, Places, Crash, OB!Crash, stream, storeVars
  <1> QED
    BY <1>1, SMTT(20) DEF OB!Next

\* Every step of the publisher is a step of the outbox or leaves it alone.
LEMMA NextSimulates == IInv /\ [Next]_vars => [OB!Next]_absVars
  <1> SUFFICES ASSUME IInv, [Next]_vars PROVE OB!Next \/ UNCHANGED absVars
    OBVIOUS
  <1>1. ASSUME NEW m \in Messages, Publish(m) \/ BuildFails(m) \/ PublishStep(m)
        PROVE  OB!Next \/ UNCHANGED absVars
    <2>1. CASE Publish(m)
      BY <2>1 DEF Publish, absVars, stream, storeVars, natsVars
    <2>2. CASE BuildFails(m)
      <3>1. files' = files /\ stream' = stream
        BY <2>2 DEF BuildFails, stream, storeVars, natsVars
      <3> QED
        BY <2>2, <3>1, AnswerIsAllowed, Zenon DEF BuildFails
    <2>3. CASE PublishStep(m)
      BY <2>3, StepSimulates, SaveSimulates DEF PublishStep, Threads
    <2> QED
      BY <1>1, <2>1, <2>2, <2>3, SMTT(20)
  <1>2. CASE ReplayStep
    BY <1>2, StepSimulates, ReplaySimulates DEF ReplayStep, Threads
  <1>3. ASSUME NEW who \in {"loop", "caller"}, ReplayStart(who)
        PROVE  UNCHANGED absVars
    BY <1>3, SMTT(20) DEF ReplayStart, absVars, stream, storeVars, natsVars
  <1>4. CASE Close \/ CloseConnection \/ Restart \/ Tick \/ Heal
    BY <1>4
    DEF Close, CloseConnection, Restart, Tick, Heal, absVars, stream,
        storeVars, natsVars
  <1>5. CASE UNCHANGED vars
    BY <1>5 DEF vars, absVars, stream, storeVars, natsVars
  <1> QED
    BY <1>1, <1>2, <1>3, <1>4, <1>5, CrashSimulates DEF Next

\* What Publish answered stays true: the reliable publisher implements Outbox.
THEOREM PublisherImplementsOutbox == Spec => OutboxSpec
  <1>1. Init => OB!Init
    BY DEF Init, OB!Init, stream
  <1>2. Spec => [][OB!Next]_absVars
    BY Invariant, NextSimulates, PTL DEF Spec
  <1> QED
    BY <1>1, <1>2, PTL DEF Spec, OutboxSpec, OB!Spec, absVars
--------------------------------------------------------------------------------
(* The consumers: what they read.                                         *)

HIDE PublisherAssumption DEF PublisherAssumption

\* The leads of the formats, trimmed.
LEMMA TrimmedJSON ==
  trimLeadingJSONWhitespace(<<"brace">>) = <<"brace">>
  <1> DEFINE lead == <<"brace">>
             kept == {i \in DOMAIN lead : lead[i] # "space"}
  <1>1. kept = {1}
    OBVIOUS
  <1>2. (CHOOSE i \in kept : \A j \in kept : i <= j) = 1
    BY <1>1
  <1>3. SubSeq(lead, 1, Len(lead)) = lead
    <2>1. lead \in Seq(Bytes) /\ Len(lead) = 1 /\ \A i \in 1..1 : lead[i] \in Bytes
      BY DEF Bytes
    <2>2. /\ SubSeq(lead, 1, 1) \in Seq(Bytes) /\ Len(SubSeq(lead, 1, 1)) = 1
          /\ SubSeq(lead, 1, 1)[1] = lead[1]
      BY <2>1, SubSeqProperties
    <2> HIDE DEF lead
    <2> QED
      BY <2>1, <2>2
  <1> QED
    BY <1>1, <1>2, <1>3 DEF trimLeadingJSONWhitespace

\* Trimming protobuf takes its first byte, and a length that looks like space.
LEMMA TrimmedProto ==
  ASSUME NEW b \in Bytes
  PROVE  LET lead == <<"space", b, "other">>
             trimmed == trimLeadingJSONWhitespace(lead)
         IN  /\ trimmed # <<>> /\ trimmed # lead
             /\ Head(trimmed) = IF b = "space" THEN "other" ELSE b
  <1> DEFINE lead == <<"space", b, "other">>
             kept == {i \in DOMAIN lead : lead[i] # "space"}
             first == IF b = "space" THEN 3 ELSE 2
  <1>1. /\ lead \in Seq(Bytes) /\ Len(lead) = 3 /\ DOMAIN lead = 1..3
        /\ lead[1] = "space" /\ lead[2] = b /\ lead[3] = "other"
    BY DEF Bytes
  <1>2. kept = first..3
    <2>1. CASE b = "space"
      BY <1>1, <2>1
    <2>2. CASE b # "space"
      BY <1>1, <2>2
    <2> QED
      BY <2>1, <2>2
  <1> HIDE DEF lead, kept
  <1>3. first \in 2..3 /\ lead[first] = IF b = "space" THEN "other" ELSE b
    BY <1>1
  <1> HIDE DEF first
  <1>4. (CHOOSE i \in kept : \A j \in kept : i <= j) = first
    BY <1>2, <1>3
  <1>5. trimLeadingJSONWhitespace(lead) = SubSeq(lead, first, 3)
    BY <1>1, <1>2, <1>3, <1>4 DEF trimLeadingJSONWhitespace, kept
  <1>6. /\ Len(SubSeq(lead, first, 3)) = 3 - first + 1
        /\ SubSeq(lead, first, 3) \in Seq(Bytes)
        /\ SubSeq(lead, first, 3)[1] = lead[first]
    <2>1. /\ SubSeq(lead, first, 3) \in Seq(Bytes)
          /\ Len(SubSeq(lead, first, 3)) = 3 - first + 1
          /\ \A i \in 1..(3 - first + 1) : SubSeq(lead, first, 3)[i] = lead[first + i - 1]
      BY <1>1, <1>3, SubSeqProperties
    <2>2. 1 \in 1..(3 - first + 1) /\ first + 1 - 1 = first
      BY <1>3
    <2> QED
      BY <2>1, <2>2
  <1>7. /\ SubSeq(lead, first, 3) # <<>> /\ SubSeq(lead, first, 3) # lead
        /\ Head(SubSeq(lead, first, 3)) = lead[first]
    <2> DEFINE rest == SubSeq(lead, first, 3)
    <2>1. rest \in Seq(Bytes) /\ Len(rest) \in 1..2 /\ rest[1] = lead[first]
      BY <1>3, <1>6
    <2> HIDE DEF rest
    <2>2. rest # <<>> /\ rest # lead /\ Head(rest) = rest[1]
      BY <1>1, <2>1, SMTT(20)
    <2> QED
      BY <2>1, <2>2 DEF rest
  <1> QED
    BY <1>3, <1>5, <1>7 DEF lead

\* An envelope is never mistaken for the failure to decode one.
LEMMA NotMalformed ==
  \A e \in Envelopes : e # Malformed
  <1>1. DOMAIN Malformed = {"error"}
    BY DEF Malformed
  <1>2. \A e \in Envelopes : "id" \in DOMAIN e
    BY DEF Envelopes
  <1> QED
    BY <1>1, <1>2

\* What the receiver makes of a message of each format.
LEMMA ReadJSON ==
  ASSUME NEW m, NEW f, m.ce = FALSE, m.lead = <<"brace">>, m.body = "json", m.fields = f
  PROVE  f \in Envelopes =>
            UnmarshalMessage(m) = IF f.payload = "unknown" THEN Malformed ELSE f
  <1>1. trimLeadingJSONWhitespace(m.lead) = m.lead /\ m.lead # <<>> /\ Head(m.lead) = "brace"
    BY TrimmedJSON
  <1>2. unmarshalEnvelopeJSON(m) = IF f.payload = "unknown" THEN Malformed ELSE f
    BY DEF unmarshalEnvelopeJSON
  <1>3. fallback(m) = Malformed
    BY <1>1 DEF fallback
  <1>4. UnmarshalMessage(m) = UnmarshalEnvelope(m)
    BY DEF UnmarshalMessage, hasCloudEventHeaders
  <1>5. detectWireFormat(m.lead) = "json"
    BY <1>1 DEF detectWireFormat
  <1> QED
    BY <1>1, <1>2, <1>3, <1>4, <1>5, NotMalformed DEF UnmarshalEnvelope

\* A protobuf message is not taken for JSON.
LEMMA ReadProto ==
  ASSUME NEW m, NEW f, NEW b \in Bytes, m.ce = FALSE, m.lead = <<"space", b, "other">>,
         m.body = "proto", m.fields = f
  PROVE  UnmarshalMessage(m) = f
  <1> DEFINE trimmed == trimLeadingJSONWhitespace(m.lead)
  <1>1. trimmed # <<>> /\ trimmed # m.lead
    BY TrimmedProto
  <1>2. unmarshalEnvelopeProto(m) = f /\ unmarshalEnvelopeJSON(m) = Malformed
    BY DEF unmarshalEnvelopeProto, unmarshalEnvelopeJSON
  <1>3. fallback(m) = f
    BY <1>1, <1>2 DEF fallback
  <1>4. UnmarshalMessage(m) = UnmarshalEnvelope(m)
    BY DEF UnmarshalMessage, hasCloudEventHeaders
  <1> HIDE DEF trimmed
  <1> QED
    BY <1>1, <1>2, <1>3, <1>4 DEF UnmarshalEnvelope, trimmed

\* A binary CloudEvents message, read from its headers.
LEMMA ReadHeaders ==
  ASSUME NEW m, m.ce = TRUE, m.body = "any"
  PROVE  UnmarshalMessage(m) = [m.fields EXCEPT !.trace = m.header]
  BY DEF UnmarshalMessage, hasCloudEventHeaders, unmarshalEnvelopeProtoHeaders

\* What a message of each format holds, whatever was done to its headers.
SameButHeaders(m, o) ==
    m.ce = o.ce /\ m.lead = o.lead /\ m.body = o.body /\ m.fields = o.fields

Sent(e, f) ==
    CASE f = "proto" -> e
      [] f = "json" -> [e EXCEPT !.time = seconds(e.time)]
      [] OTHER -> [e EXCEPT !.time = seconds(e.time),
                            !.payload = IF e.payload \in {"nil", "zero"} THEN "nil" ELSE e.payload]

\* What each format keeps of an envelope.
LEMMA SentFacts ==
  ASSUME NEW e \in Envelopes, NEW f \in WireFormats
  PROVE  /\ Sent(e, f) \in Envelopes
         /\ Sent(e, f).id = e.id /\ Sent(e, f).tenant = e.tenant /\ Sent(e, f).trace = e.trace
         /\ seconds(Sent(e, f).time) = seconds(e.time)
         /\ \/ Sent(e, f).payload = e.payload
            \/ Sent(e, f).payload = "nil" /\ e.payload = "zero"
  BY DEF Sent, Envelopes, WireFormats, seconds, Times, Payloads

\* Whatever the format, the receiver reads the envelope that was written.
LEMMA ReadSent ==
  ASSUME NEW e \in Envelopes, NEW f \in WireFormats, NEW m,
         SameButHeaders(m, marshalEnvelopeMessage(e, f))
  PROVE  /\ <<e, f>> \in Undecodable => UnmarshalMessage(m) = Malformed
         /\ <<e, f>> \notin Undecodable =>
               UnmarshalMessage(m) = IF f = "proto-headers"
                                     THEN [Sent(e, f) EXCEPT !.trace = m.header] ELSE Sent(e, f)
  <1>1. <<e, f>> \in Undecodable <=> f = "json" /\ e.payload = "unknown"
    BY DEF Undecodable
  <1>2. CASE f = "json"
    <2>1. /\ m.ce = FALSE /\ m.lead = <<"brace">> /\ m.body = "json" /\ m.fields = Sent(e, f)
      BY <1>2, SMTT(20) DEF SameButHeaders, marshalEnvelopeMessage, marshalEnvelopeJSON, Sent
    <2>2. Sent(e, f) \in Envelopes /\ Sent(e, f).payload = e.payload
      BY <1>2, SentFacts, Zenon DEF Sent, Envelopes
    <2>3. UnmarshalMessage(m) =
             IF Sent(e, f).payload = "unknown" THEN Malformed ELSE Sent(e, f)
      BY <2>1, <2>2, ReadJSON, Zenon
    <2> QED
      BY <1>1, <1>2, <2>2, <2>3
  <1>3. CASE f = "proto"
    <2>1. /\ m.ce = FALSE /\ m.lead = <<"space", e.length, "other">> /\ m.body = "proto"
          /\ m.fields = Sent(e, f) /\ e.length \in Bytes
      BY <1>3 DEF SameButHeaders, marshalEnvelopeMessage, marshalEnvelopeProto, Sent, Envelopes
    <2>2. UnmarshalMessage(m) = Sent(e, f)
      BY <2>1, ReadProto, Zenon
    <2> QED
      BY <1>1, <1>3, <2>2
  <1>4. CASE f = "proto-headers"
    <2>1. m.ce = TRUE /\ m.body = "any" /\ m.fields = Sent(e, f)
      BY <1>4 DEF SameButHeaders, marshalEnvelopeMessage, marshalEnvelopeProtoHeaders, Sent
    <2>2. UnmarshalMessage(m) = [Sent(e, f) EXCEPT !.trace = m.header]
      BY <2>1, ReadHeaders, Zenon
    <2> QED
      BY <1>1, <1>4, <2>2
  <1> QED
    BY <1>2, <1>3, <1>4 DEF WireFormats

\* What can be decoded arrives, in each of the formats.
LEMMA EveryFormatArrives ==
  ASSUME NEW e \in Envelopes, NEW f \in WireFormats, <<e, f>> \notin Undecodable
  PROVE  <<e, f>> \in Arriving
  <1> DEFINE m == marshalEnvelopeMessage(e, f)
             got == UnmarshalMessage(m)
  <1>1. SameButHeaders(m, m)
    BY DEF SameButHeaders
  <1>2. f = "proto-headers" => m.header = e.trace
    BY DEF marshalEnvelopeMessage, marshalEnvelopeProtoHeaders
  <1>3. /\ Sent(e, f) \in Envelopes
        /\ Sent(e, f).id = e.id /\ Sent(e, f).tenant = e.tenant /\ Sent(e, f).trace = e.trace
        /\ seconds(Sent(e, f).time) = seconds(e.time)
        /\ \/ Sent(e, f).payload = e.payload
           \/ Sent(e, f).payload = "nil" /\ e.payload = "zero"
    BY SentFacts
  <1> HIDE DEF m
  <1>4. got = IF f = "proto-headers" THEN [Sent(e, f) EXCEPT !.trace = m.header] ELSE Sent(e, f)
    BY <1>1, ReadSent, SMTT(20) DEF m, got
  <1> HIDE DEF got
  <1>5. /\ got \in Envelopes
        /\ got.id = e.id /\ got.tenant = e.tenant /\ got.trace = e.trace
        /\ got.time = Sent(e, f).time /\ got.payload = Sent(e, f).payload
    <2>1. CASE f = "proto-headers"
      BY <1>2, <1>3, <1>4, <2>1 DEF Envelopes
    <2>2. CASE f # "proto-headers"
      BY <1>3, <1>4, <2>2, SMTT(20)
    <2> QED
      BY <2>1, <2>2
  <1>6. /\ got # Malformed
        /\ <<got.id, got.tenant, got.trace>> = <<e.id, e.tenant, e.trace>>
        /\ seconds(got.time) = seconds(e.time)
        /\ got.payload = e.payload \/ {got.payload, e.payload} = {"nil", "zero"}
    BY <1>3, <1>5, NotMalformed
  <1> QED
    BY <1>6, Zenon DEF Arriving, got, m

\* No format misleads the receiver.
LEMMA NothingMisread ==
  Misread = {}
  BY EveryFormatArrives DEF Misread
--------------------------------------------------------------------------------
(* The trace context.                                                      *)

\* What a publisher with propagator p writes of the context ctx.
Written(p, ctx) == withSpan(Carried(p, ctx), ctx.span)

\* The span is always written, baggage only by the W3C propagator.
LEMMA WrittenFacts ==
  ASSUME NEW p \in Propagators, NEW ctx \in Contexts
  PROVE  /\ Written(p, ctx) \in Contexts /\ Written(p, ctx).span = ctx.span
         /\ Written(p, ctx).baggage = IF p = "w3c" THEN ctx.baggage ELSE ""
  BY DEF Written, withSpan, Carried, Propagators, Contexts, NoContext

\* A context is its span and its baggage.
LEMMA ContextsDiffer ==
  ASSUME NEW c \in Contexts, NEW d \in Contexts, c.span = d.span, c.baggage = d.baggage
  PROVE  c = d
  <1>1. /\ c = [span |-> c.span, baggage |-> c.baggage]
        /\ d = [span |-> d.span, baggage |-> d.baggage]
    BY DEF Contexts
  <1> QED
    BY <1>1

\* A header that is set from new, or has what new has.
LEMMA HeaderFacts ==
  ASSUME NEW new \in Contexts, NEW old \in Contexts, old = new \/ old = NoContext
  PROVE  [key \in DOMAIN old |-> IF new[key] = "" THEN old[key] ELSE new[key]] = new
  <1>1. /\ DOMAIN old = {"span", "baggage"} /\ DOMAIN new = {"span", "baggage"}
        /\ new = [key \in {"span", "baggage"} |-> new[key]]
    BY DEF Contexts
  <1>2. \A key \in {"span", "baggage"} :
           (IF new[key] = "" THEN old[key] ELSE new[key]) = new[key]
    <2>1. CASE old = new
      BY <2>1
    <2>2. CASE old = NoContext
      <3>1. old["span"] = "" /\ old["baggage"] = ""
        BY <2>2 DEF NoContext
      <3> QED
        BY <3>1
    <2> QED
      BY <2>1, <2>2
  <1> QED
    BY <1>1, <1>2

\* PublishEnvelope writes the context of its caller into envelope and headers.
LEMMA PublishedFacts ==
  ASSUME NEW e \in Envelopes, NEW p \in Propagators, NEW f \in WireFormats
  PROVE  LET sent == [e EXCEPT !.trace = Written(p, e.trace)]
             m == publishedMessage(e.trace, p, e, f)
         IN  /\ sent \in Envelopes /\ sent.trace = Written(p, e.trace)
             /\ sent.payload = e.payload
             /\ SameButHeaders(m, marshalEnvelopeMessage(sent, f))
             /\ m.header = Written(p, e.trace)
  <1> DEFINE new == Written(p, e.trace)
             sent == [e EXCEPT !.trace = new]
             o == marshalEnvelopeMessage(sent, f)
             b == injectMessageTraceContext(e.trace, p, o)
             m == injectMessageTraceContext(e.trace, p, b)
  <1>1. e.trace \in Contexts /\ new \in Contexts
    BY WrittenFacts DEF Envelopes
  <1> HIDE DEF new
  <1>2. sent \in Envelopes /\ sent.trace = new /\ sent.payload = e.payload
    BY <1>1 DEF Envelopes
  <1>3. m = publishedMessage(e.trace, p, e, f)
    BY DEF publishedMessage, buildMessage, injectTraceContext, new, Written
  <1> HIDE DEF sent
  <1>4. /\ o.header = new \/ o.header = NoContext
        /\ o = [ce |-> o.ce, header |-> o.header, lead |-> o.lead, body |-> o.body,
                fields |-> o.fields]
    BY <1>2, Zenon DEF marshalEnvelopeMessage, marshalEnvelopeJSON, marshalEnvelopeProto,
                marshalEnvelopeProtoHeaders
  <1> HIDE DEF o
  <1>5. NoContext \in Contexts
    BY DEF NoContext, Contexts
  <1>6. b = [o EXCEPT !.header = new]
    <2>1. b = [o EXCEPT !.header =
                 [key \in DOMAIN o.header |-> IF new[key] = "" THEN o.header[key] ELSE new[key]]]
      BY DEF injectMessageTraceContext, new, Written
    <2> QED
      <3>1. o.header \in Contexts
        BY <1>1, <1>4, <1>5
      <3>2. [key \in DOMAIN o.header |-> IF new[key] = "" THEN o.header[key] ELSE new[key]] = new
        BY <1>1, <1>4, <3>1, HeaderFacts
      <3> QED
        BY <2>1, <3>2
  <1> HIDE DEF b
  <1>7. b.header = new /\ SameButHeaders(b, o)
    BY <1>4, <1>6 DEF SameButHeaders
  <1>8. m = [b EXCEPT !.header = new]
    <2>1. m = [b EXCEPT !.header =
                 [key \in DOMAIN b.header |-> IF new[key] = "" THEN b.header[key] ELSE new[key]]]
      BY DEF injectMessageTraceContext, new, Written
    <2> QED
      BY <1>1, <1>7, <2>1, HeaderFacts
  <1> HIDE DEF m
  <1>9. m.header = new /\ SameButHeaders(m, o)
    BY <1>4, <1>6, <1>7, <1>8 DEF SameButHeaders
  <1> QED
    BY <1>2, <1>3, <1>9 DEF o, sent, new

\* The receiver finds the span, and the baggage where both ends propagate it.
LEMMA TraceIsExtracted ==
  ASSUME NEW e \in Envelopes, NEW f \in WireFormats,
         NEW p \in Propagators, NEW q \in Propagators
  PROVE  LET baggage == /\ p = "w3c" /\ q = "w3c"
                        /\ e.trace.span # "" \/ <<e, f>> \notin Undecodable
         IN  extractMessageContext(q, publishedMessage(e.trace, p, e, f))
                = [e.trace EXCEPT !.baggage = IF baggage THEN @ ELSE ""]
  <1> DEFINE new == Written(p, e.trace)
             sent == [e EXCEPT !.trace = new]
             m == publishedMessage(e.trace, p, e, f)
             baggage == /\ p = "w3c" /\ q = "w3c"
                        /\ e.trace.span # "" \/ <<e, f>> \notin Undecodable
             want == [e.trace EXCEPT !.baggage = IF baggage THEN @ ELSE ""]
  <1>1. /\ sent \in Envelopes /\ sent.trace = new /\ sent.payload = e.payload
        /\ SameButHeaders(m, marshalEnvelopeMessage(sent, f)) /\ m.header = new
    BY PublishedFacts
  <1>2. /\ e.trace \in Contexts /\ new \in Contexts /\ new.span = e.trace.span
        /\ new.baggage = IF p = "w3c" THEN e.trace.baggage ELSE ""
    BY WrittenFacts DEF Envelopes
  <1>3. /\ want \in Contexts /\ want.span = e.trace.span
        /\ want.baggage = IF baggage THEN e.trace.baggage ELSE ""
    BY <1>2 DEF Contexts
  <1>4. ExtractContext(q, new) = Written(q, new)
    BY SMTT(20) DEF ExtractContext, Written
  <1>5. /\ Written(q, new) \in Contexts /\ Written(q, new).span = new.span
        /\ Written(q, new).baggage = IF q = "w3c" THEN new.baggage ELSE ""
    BY <1>2, WrittenFacts
  <1>6. <<sent, f>> \in Undecodable <=> <<e, f>> \in Undecodable
    BY <1>1, Zenon DEF Undecodable
  <1> HIDE DEF new, sent, m, want
  <1>7. CASE e.trace.span # ""
    <2>1. extractMessageContext(q, m) = Written(q, new)
      BY <1>1, <1>2, <1>4, <1>7 DEF extractMessageContext, headerTraceContextPresent
    <2>2. Written(q, new) = want
      BY <1>2, <1>3, <1>5, <1>7, ContextsDiffer
    <2> QED
      BY <2>1, <2>2 DEF want, m
  <1>8. CASE e.trace.span = "" /\ <<e, f>> \in Undecodable
    <2>1. UnmarshalMessage(m) = Malformed
      BY <1>1, <1>6, <1>8, ReadSent
    <2>2. extractMessageContext(q, m) = NoContext
      BY <1>1, <1>2, <1>8, <2>1 DEF extractMessageContext, headerTraceContextPresent
    <2>3. NoContext = want
      BY <1>3, <1>8, ContextsDiffer DEF NoContext, Contexts
    <2> QED
      BY <2>2, <2>3 DEF want, m
  <1>9. CASE e.trace.span = "" /\ <<e, f>> \notin Undecodable
    <2>1. UnmarshalMessage(m) = IF f = "proto-headers"
                                THEN [Sent(sent, f) EXCEPT !.trace = m.header] ELSE Sent(sent, f)
      BY <1>1, <1>6, <1>9, ReadSent
    <2>2. Sent(sent, f) \in Envelopes /\ Sent(sent, f).trace = new
      BY <1>1, SentFacts, Zenon
    <2>3. UnmarshalMessage(m) \in Envelopes /\ UnmarshalMessage(m).trace = new
      BY <1>1, <1>2, <2>1, <2>2 DEF Envelopes
    <2>4. extractMessageContext(q, m) = Written(q, new)
      BY <1>1, <1>2, <1>4, <1>9, <2>3, NotMalformed, Zenon
         DEF extractMessageContext, headerTraceContextPresent
    <2>5. Written(q, new) = want
      BY <1>2, <1>3, <1>5, <1>9, ContextsDiffer
    <2> QED
      BY <2>4, <2>5 DEF want, m
  <1> QED
    BY <1>7, <1>8, <1>9

\* No trace context is lost, whatever the format and the propagators.
LEMMA NothingLost ==
  Lost = {}
  <1>1. SUFFICES ASSUME NEW x \in Envelopes \X WireFormats \X Propagators \X Propagators,
                        x \in Lost
                 PROVE  FALSE
    BY DEF Lost
  <1>2. /\ x[1] \in Envelopes /\ x[2] \in WireFormats
        /\ x[3] \in Propagators /\ x[4] \in Propagators
    OBVIOUS
  <1> QED
    BY <1>1, <1>2, TraceIsExtracted DEF Lost
--------------------------------------------------------------------------------
(* The group.                                                              *)

\* Only what can be decoded is handled.
Publication ==
    /\ event \in Events
    /\ decodable <=> UnmarshalMessage(Message) # Malformed
    /\ handled # {} => decodable

Positions ==
    /\ length \in Nat
    /\ durable \in [exists : BOOLEAN, number : Nat, first : Nat, next : Nat]

ConsumerInv == Publication /\ Positions /\ PassedIsHandledOrPending

\* The event stays as published, and only what can be decoded is handled.
LEMMA PublicationKept ==
  ASSUME Publication, [GroupNext]_groupVars
  PROVE  Publication'
  <1>1. event' = event /\ decodable' = decodable
    BY DEF GroupNext, groupVars, publication, PublishEvent, Subscribe, Deliver, Redeliver, Handle, Finish,
           Drain, Delete, closeConnection, Exit
  <1>2. handled' = handled \/ decodable
    <2>1. ASSUME NEW m \in Members, NEW good \in BOOLEAN, NEW lost \in BOOLEAN, Finish(m, good, lost)
          PROVE  handled' = handled \/ decodable
      BY <2>1 DEF Finish
    <2> QED
      BY <2>1 DEF GroupNext, groupVars, PublishEvent, Subscribe, Deliver, Redeliver, Handle, Drain, Delete,
                  closeConnection, Exit
  <1>3. Message' = Message
    BY <1>1 DEF Message
  <1> QED
    BY <1>1, <1>2, <1>3 DEF Publication

\* The positions of the durable consumer remain numbers.
LEMMA PositionsKept ==
  ASSUME Positions, [GroupNext]_groupVars
  PROVE  Positions'
  <1>1. ASSUME length' = length, durable' = durable
        PROVE  Positions'
    BY <1>1 DEF Positions
  <1>2. CASE UNCHANGED groupVars
    BY <1>1, <1>2 DEF groupVars, server
  <1>3. CASE PublishEvent
    BY <1>3 DEF PublishEvent, Positions
  <1>4. ASSUME NEW m \in Members, Subscribe(m)
        PROVE  Positions'
    <2>1. start \in Nat /\ length' = length
      BY <1>4, SMTT(20) DEF start, Positions, Subscribe
    <2>2. CASE durable.exists
      BY <1>1, <1>4, <2>2 DEF Subscribe
    <2>3. CASE ~durable.exists
      <3>1. durable' = [exists |-> TRUE, number |-> durable.number + 1,
                        first |-> start, next |-> start]
        BY <1>4, <2>3 DEF Subscribe
      <3> QED
        BY <2>1, <3>1, SMTT(20) DEF Positions
    <2> QED
      BY <2>2, <2>3
  <1>5. ASSUME NEW m \in Members, Deliver(m)
        PROVE  Positions'
    BY <1>5 DEF Deliver, Positions
  <1>6. ASSUME NEW m \in Members, Delete(m)
        PROVE  Positions'
    BY <1>6, Zenon DEF Delete, Positions
  <1>7. ASSUME NEW m \in Members,
               \/ Handle(m) \/ Drain(m) \/ closeConnection(m) \/ Exit(m)
               \/ \E i \in 1..Count : Redeliver(m, i)
               \/ \E good, lost \in BOOLEAN : Finish(m, good, lost)
        PROVE  Positions'
    <2>1. length' = length /\ durable' = durable
      BY <1>7 DEF Handle, Drain, closeConnection, Exit, Redeliver, Finish, server
    <2> QED
      BY <1>1, <2>1, SMTT(20)
  <1> QED
    BY <1>2, <1>3, <1>4, <1>5, <1>6, <1>7 DEF GroupNext

\* A message is held until a handler has returned nil for it.
LEMMA PassedKept ==
  ASSUME Positions, PassedIsHandledOrPending, [GroupNext]_groupVars
  PROVE  PassedIsHandledOrPending'
  <1>1. ASSUME durable' = durable, pending' = pending, handled' = handled
        PROVE  PassedIsHandledOrPending'
    BY <1>1 DEF PassedIsHandledOrPending
  <1>2. CASE UNCHANGED groupVars \/ PublishEvent
    BY <1>1, <1>2 DEF groupVars, server, PublishEvent
  <1>3. ASSUME NEW m \in Members, Subscribe(m)
        PROVE  PassedIsHandledOrPending'
    <2>1. CASE durable.exists
      BY <1>1, <1>3, <2>1 DEF Subscribe
    <2>2. CASE ~durable.exists
      <3>1. start \in Nat
        BY DEF start, Positions
      <3>2. durable'.first = start /\ durable'.next = start
        BY <1>3, <2>2 DEF Subscribe
      <3>3. durable'.first..(durable'.next - 1) = {}
        BY <3>1, <3>2
      <3> QED
        BY <3>3 DEF PassedIsHandledOrPending
    <2> QED
      BY <2>1, <2>2, SMTT(20)
  <1>4. ASSUME NEW m \in Members, Deliver(m)
        PROVE  PassedIsHandledOrPending'
    <2>1. /\ durable.exists /\ handled' = handled
          /\ pending' = pending \cup {durable.next}
          /\ durable'.first = durable.first /\ durable'.next = durable.next + 1
      BY <1>4 DEF Deliver, Receives, Attached, Positions
    <2>2. durable.first \in Nat /\ durable.next \in Nat
      BY DEF Positions
    <2>3. \A i \in durable'.first..(durable'.next - 1) :
             i = durable.next \/ i \in durable.first..(durable.next - 1)
      BY <2>1, <2>2
    <2> QED
      BY <2>1, <2>3 DEF PassedIsHandledOrPending
  <1>5. ASSUME NEW m \in Members, NEW good \in BOOLEAN, NEW lost \in BOOLEAN, Finish(m, good, lost)
        PROVE  PassedIsHandledOrPending'
    <2>1. durable' = durable /\ \A i \in handled : i \in handled'
      BY <1>5 DEF Finish
    <2>2. \A i \in pending : i \in pending' \/ i \in handled'
      BY <1>5 DEF Finish, acknowledged
    <2> QED
      BY <2>1, <2>2 DEF PassedIsHandledOrPending
  <1>6. ASSUME NEW m \in Members, Delete(m)
        PROVE  PassedIsHandledOrPending'
    BY <1>6 DEF Delete, PassedIsHandledOrPending, Positions
  <1>7. ASSUME NEW m \in Members,
               \/ Handle(m) \/ Drain(m) \/ closeConnection(m) \/ Exit(m)
               \/ \E i \in 1..Count : Redeliver(m, i)
        PROVE  PassedIsHandledOrPending'
    <2>1. durable' = durable /\ pending' = pending /\ handled' = handled
      BY <1>7 DEF Handle, Drain, closeConnection, Exit, Redeliver, server
    <2> QED
      BY <1>1, <2>1, SMTT(20)
  <1> QED
    BY <1>2, <1>3, <1>4, <1>5, <1>6, <1>7, SMTT(20) DEF GroupNext

\* Before the first subscription nothing has been passed.
LEMMA ConsumerInitially ==
  ASSUME GroupInit
  PROVE  ConsumerInv
  <1>1. Publication
    BY Zenon DEF GroupInit, Publication
  <1>2. Positions
    BY DEF GroupInit, Positions
  <1>3. durable.first..(durable.next - 1) = {}
    BY DEF GroupInit
  <1> QED
    BY <1>1, <1>2, <1>3, SMTT(20) DEF ConsumerInv, PassedIsHandledOrPending

\* The invariant of the consumer group.
LEMMA ConsumerInvariant ==
  GroupSpec => []ConsumerInv
  <1>1. GroupInit => ConsumerInv
    BY ConsumerInitially
  <1>2. ConsumerInv /\ [GroupNext]_groupVars => ConsumerInv'
    BY PublicationKept, PositionsKept, PassedKept DEF ConsumerInv
  <1> QED
    BY <1>1, <1>2, PTL DEF GroupSpec

\* An envelope whose type the receiver does not know is not decoded from JSON.
LEMMA HandledArrives ==
  ASSUME ConsumerAssumption, Publication, handled # {}
  PROVE  <<event, WireFormat>> \in Arriving
  <1>1. /\ event \in Envelopes /\ WireFormat \in WireFormats /\ Propagator \in Propagators
        /\ UnmarshalMessage(Message) # Malformed
    BY DEF ConsumerAssumption, Publication
  <1> DEFINE sent == [event EXCEPT !.trace = Written(Propagator, event.trace)]
  <1>2. /\ sent \in Envelopes /\ sent.payload = event.payload
        /\ SameButHeaders(Message, marshalEnvelopeMessage(sent, WireFormat))
    BY <1>1, PublishedFacts DEF Message
  <1> HIDE DEF sent
  <1>3. <<sent, WireFormat>> \notin Undecodable
    BY <1>1, <1>2, ReadSent, SMTT(20)
  <1>4. <<event, WireFormat>> \notin Undecodable
    BY <1>1, <1>2, <1>3 DEF Undecodable
  <1> QED
    BY <1>1, <1>4, EveryFormatArrives

\* The span reaches a handler that has no propagator.
LEMMA SpanArrives ==
  ASSUME ConsumerAssumption, Publication
  PROVE  extractMessageContext("noop", Message).span = event.trace.span
  <1>1. /\ event \in Envelopes /\ WireFormat \in WireFormats /\ Propagator \in Propagators
        /\ "noop" \in Propagators /\ event.trace \in Contexts
    BY DEF ConsumerAssumption, Publication, Propagators, Envelopes
  <1>2. \E b : extractMessageContext("noop", Message) = [event.trace EXCEPT !.baggage = b]
    BY <1>1, TraceIsExtracted DEF Message
  <1> QED
    BY <1>1, <1>2 DEF Contexts

\* At least once: whatever the durable consumer has passed was handled or is still
\* pending for redelivery, however its members fail, drain, close and die, for any
\* number of members and messages.
THEOREM ConsumerAtLeastOnce ==
  GroupSpec => []PassedIsHandledOrPending
  <1>1. ConsumerInv => PassedIsHandledOrPending
    BY DEF ConsumerInv
  <1> QED
    BY <1>1, ConsumerInvariant, PTL

\* UnmarshalMessage finds out the format of every envelope, and what a handler got is
\* the envelope that was published, up to what the format cannot hold.
THEOREM ConsumerFormatsAgree ==
  GroupSpec => []FormatsAgree
  <1>1. ConsumerInv => FormatsAgree
    BY ConsumerAssumption, NothingMisread, HandledArrives, SMTT(20) DEF ConsumerInv, FormatsAgree
  <1> QED
    BY <1>1, ConsumerInvariant, PTL

\* A handler runs in the trace of the publisher, whatever the format, whichever
\* propagators the two ends have, and whether or not the envelope can be decoded.
THEOREM ConsumerTraceArrives ==
  GroupSpec => []TraceArrives
  <1>1. ConsumerInv => TraceArrives
    BY ConsumerAssumption, NothingLost, SpanArrives DEF ConsumerInv, TraceArrives
  <1> QED
    BY <1>1, ConsumerInvariant, PTL
================================================================================
