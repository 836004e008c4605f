-------------------------- MODULE FeatureFlagsProofs --------------------------
(***************************************************************************)
(* Proofs about featureflags.FileStore, for any goroutines, versions of    *)
(* the file, poll interval and duration of calls: no version of the file   *)
(* is missed for good, and a rollout that widens reaches nobody less.      *)
(*                                                                         *)
(* The first argument is about modification times: what a reload stores is *)
(* as old as its stat, whatever other reloads and writers do meanwhile.    *)
(* The second is that the store's clock value keeps a second reload out    *)
(* until the first one has taken a poll interval.                          *)
(***************************************************************************)
EXTENDS FeatureFlags, WellFoundedInduction, TLAPS

\* From each version of the file to the next the flag reaches nobody less.
Widening == \A v \in 1..(Len(Flags) - 1) : Reached(v) \subseteq Reached(v + 1)

Reloading == {"stat", "compare", "read", "store"}

TypeOK ==
    /\ file \in [version : 1..Len(Flags), mtime : Nat \ {0},
                 whole : BOOLEAN, fresh : BOOLEAN]
    /\ held \in 0..Len(Flags) /\ lastModTime \in Nat /\ checkedAgo \in Nat
    /\ pc \in [Readers -> {"idle", "check", "claim", "lookup"} \cup Reloading]
    /\ age \in [Readers -> Nat]
    /\ modTime \in [Readers -> Nat]
    /\ contents \in [Readers -> 0..Len(Flags)]
    /\ slow \in BOOLEAN

\* The store and the reloads are not ahead of the file, and what a reload is
\* about to store is the file or carries an older modification time.
NotAhead ==
    /\ held <= file.version /\ lastModTime <= file.mtime
    /\ \A r \in Readers :
          pc[r] \in {"compare", "read", "store"} => modTime[r] <= file.mtime
    /\ \A r \in Readers : pc[r] = "store" =>
          /\ contents[r] \in 1..file.version
          /\ file.fresh => contents[r] = file.version \/ modTime[r] < file.mtime

FileInv == TypeOK /\ NotAhead /\ NothingMissed

\* Until there is a store, at most the call that makes it is under way.
Alone ==
    held = 0 =>
        /\ lastModTime = 0
        /\ \A r \in Readers : pc[r] \in {"idle"} \cup Reloading
        /\ \A r, q \in Readers : pc[r] # "idle" /\ pc[q] # "idle" => r = q

\* The last check is at least as recent as every reload.
CheckIsRecent ==
    held # 0 => \A r \in Readers : pc[r] \in Reloading => checkedAgo <= age[r]

\* Unless calls are slow, there is one reload, and it does not turn back.
OneReload ==
    ~slow =>
        /\ \A r \in Readers : age[r] < PollInterval
        /\ \A r, q \in Readers : pc[r] \in Reloading /\ pc[q] \in Reloading => r = q
        /\ \A r \in Readers : pc[r] = "store" => held <= contents[r]

RolloutInv == FileInv /\ Alone /\ CheckIsRecent /\ OneReload

USE FeatureFlagsAssumption DEF FeatureFlagsAssumption
-------------------------------------------------------------------------------
(* No version is missed.                                                   *)

LEMMA VersionsExist == Len(Flags) \in Nat \ {0}
  OBVIOUS

LEMMA InitFile == Init => FileInv
  <1> SUFFICES ASSUME Init PROVE FileInv
    OBVIOUS
  <1>1. TypeOK
    <2>1. file \in [version : 1..Len(Flags), mtime : Nat \ {0},
                    whole : BOOLEAN, fresh : BOOLEAN]
      BY VersionsExist DEF Init
    <2>2. held \in 0..Len(Flags) /\ lastModTime \in Nat /\ checkedAgo \in Nat
      BY VersionsExist DEF Init, LongAgo
    <2>3. /\ pc \in [Readers -> {"idle", "check", "claim", "lookup"} \cup Reloading]
          /\ age \in [Readers -> Nat] /\ modTime \in [Readers -> Nat]
          /\ contents \in [Readers -> 0..Len(Flags)]
      BY VersionsExist DEF Init
    <2>4. slow \in BOOLEAN
      BY Zenon DEF Init
    <2> QED
      BY <2>1, <2>2, <2>3, <2>4 DEF TypeOK
  <1> QED
    BY <1>1 DEF Init, FileInv, NotAhead, NothingMissed

\* Steps that only move a call along.
LEMMA MoveFile ==
  ASSUME FileInv, NEW r \in Readers,
         NewFileStore(r) \/ Lookup(r) \/ Check(r) \/ Claim(r)
  PROVE  FileInv'
  <1>1. TypeOK'
    <2>1. CASE NewFileStore(r) \/ Lookup(r) \/ Check(r)
      BY <2>1, Zenon DEF FileInv, TypeOK, NewFileStore, Lookup, Check, Goto, store, locals, Reloading
    <2>2. CASE Claim(r)
      <3>1. \/ pc' = [pc EXCEPT ![r] = "stat"] /\ checkedAgo' = age[r]
            \/ pc' = [pc EXCEPT ![r] = "lookup"] /\ checkedAgo' = checkedAgo
        BY <2>2 DEF Claim, Goto
      <3>2. /\ checkedAgo' \in Nat
            /\ pc' \in [Readers -> {"idle", "check", "claim", "lookup"} \cup Reloading]
        <4>1. /\ checkedAgo \in Nat /\ age[r] \in Nat
              /\ pc \in [Readers -> {"idle", "check", "claim", "lookup"} \cup Reloading]
          BY DEF FileInv, TypeOK
        <4> QED
          BY <3>1, <4>1 DEF Reloading
      <3> QED
        BY <2>2, <3>2 DEF FileInv, TypeOK, Claim, store, locals
    <2> QED
      BY <2>1, <2>2
  <1>2. NotAhead' /\ NothingMissed'
    BY SMTT(20) DEF FileInv, TypeOK, NotAhead, NothingMissed, NewFileStore, Lookup, Check,
           Claim, Goto, store, locals
  <1> QED
    BY <1>1, <1>2 DEF FileInv

LEMMA StatFile ==
  ASSUME FileInv, NEW r \in Readers, Stat(r)
  PROVE  FileInv'
  <1>1. TypeOK'
    BY DEF FileInv, TypeOK, Stat, Goto, store, Reloading
  <1>2. NotAhead' /\ NothingMissed'
    BY DEF FileInv, TypeOK, NotAhead, NothingMissed, Stat, Goto, store
  <1> QED
    BY <1>1, <1>2 DEF FileInv

LEMMA CompareFile ==
  ASSUME FileInv, NEW r \in Readers, Compare(r)
  PROVE  FileInv'
  <1>1. TypeOK'
    BY DEF FileInv, TypeOK, Compare, Goto, store, locals, Reloading
  <1>2. NotAhead' /\ NothingMissed'
    BY DEF FileInv, TypeOK, NotAhead, NothingMissed, Compare, Goto, store, locals
  <1> QED
    BY <1>1, <1>2 DEF FileInv

\* What is read is the file as it is.
LEMMA ReadFile ==
  ASSUME FileInv, NEW r \in Readers, Read(r)
  PROVE  FileInv'
  <1>1. TypeOK'
    BY DEF FileInv, TypeOK, Read, Goto, store, Reloading
  <1>2. NotAhead' /\ NothingMissed'
    BY DEF FileInv, TypeOK, NotAhead, NothingMissed, Read, Goto, store
  <1> QED
    BY <1>1, <1>2 DEF FileInv

LEMMA StoreFile ==
  ASSUME FileInv, NEW r \in Readers, Store(r)
  PROVE  FileInv'
  <1>1. TypeOK'
    BY DEF FileInv, TypeOK, Store, Goto, locals, Reloading
  <1>2. NotAhead' /\ NothingMissed'
    BY DEF FileInv, TypeOK, NotAhead, NothingMissed, Store, Goto, locals
  <1> QED
    BY <1>1, <1>2 DEF FileInv

LEMMA ReturnFile ==
  ASSUME FileInv, NEW r \in Readers, ReloadFails(r) \/ Answer(r)
  PROVE  FileInv'
  <1>1. TypeOK'
    <2>1. /\ file' = file /\ held' = held /\ lastModTime' = lastModTime
          /\ checkedAgo' = checkedAgo /\ slow' = slow
      BY DEF ReloadFails, Answer, store
    <2>2. CASE Return(r)
      BY <2>1, <2>2, VersionsExist DEF FileInv, TypeOK, Return, Goto
    <2>3. CASE Goto(r, "lookup") /\ UNCHANGED locals
      BY <2>1, <2>3 DEF FileInv, TypeOK, Goto, locals
    <2> QED
      BY <2>2, <2>3 DEF ReloadFails, Answer
  <1>2. UNCHANGED <<file, held, lastModTime>>
    BY DEF ReloadFails, Answer, store
  <1>3. \A q \in Readers : pc'[q] \in {"compare", "read", "store"} =>
           pc'[q] = pc[q] /\ modTime'[q] = modTime[q] /\ contents'[q] = contents[q]
    <2>1. CASE Return(r)
      BY <2>1 DEF FileInv, TypeOK, Return, Goto
    <2>2. CASE Goto(r, "lookup") /\ UNCHANGED locals
      BY <2>2 DEF FileInv, TypeOK, Goto, locals
    <2> QED
      BY <2>1, <2>2 DEF ReloadFails, Answer
  <1>4. NotAhead' /\ NothingMissed'
    BY <1>2, <1>3 DEF FileInv, NotAhead, NothingMissed
  <1> QED
    BY <1>1, <1>4 DEF FileInv

\* A writer whose modification time advances leaves every earlier stat behind.
LEMMA WriteFile ==
  ASSUME FileInv, NEW tick \in {0, 1},
         (\E whole \in BOOLEAN : Write(tick, whole)) \/ WriteEnds(tick)
  PROVE  FileInv'
  <1>1. /\ file.version \in 1..Len(Flags) /\ file.mtime \in Nat \ {0}
        /\ file.fresh \in BOOLEAN
        /\ file.mtime + tick \in Nat \ {0} /\ file.mtime + tick >= file.mtime
        /\ (tick > 0) \in BOOLEAN /\ (tick > 0 => file.mtime + tick > file.mtime)
    BY DEF FileInv, TypeOK
  <1>2. UNCHANGED <<store, checkedAgo, pc, locals, slow>>
    BY Zenon DEF Write, WriteEnds
  <1>3. /\ file' \in [version : 1..Len(Flags), mtime : Nat \ {0},
                      whole : BOOLEAN, fresh : BOOLEAN]
        /\ file'.mtime >= file.mtime /\ file'.version >= file.version
        /\ file'.fresh =>
              \/ file'.mtime > file.mtime
              \/ file.fresh /\ file'.version = file.version
    <2>1. CASE \E whole \in BOOLEAN : Write(tick, whole)
      <3>1. PICK whole \in BOOLEAN : Write(tick, whole)
        BY <2>1
      <3>2. file.version + 1 \in 1..Len(Flags) /\ file.version + 1 >= file.version
        BY <1>1, <3>1, VersionsExist DEF Write
      <3>3. PICK fresh \in BOOLEAN : fresh = (tick > 0)
        BY <1>1, Zenon
      <3>4. file' = [version |-> file.version + 1, mtime |-> file.mtime + tick,
                     whole |-> whole, fresh |-> fresh]
        BY <3>1, <3>3 DEF Write, Written
      <3> QED
        <4>1. fresh => file.mtime + tick > file.mtime
          BY <1>1, <3>3, Zenon
        <4> QED
          BY <1>1, <3>2, <3>4, <4>1
    <2>2. CASE WriteEnds(tick)
      <3>1. PICK fresh \in BOOLEAN : fresh = (file.fresh \/ tick > 0)
        BY <1>1, Zenon
      <3>2. file' = [version |-> file.version, mtime |-> file.mtime + tick,
                     whole |-> TRUE, fresh |-> fresh]
        BY <2>2, <3>1 DEF WriteEnds, Written
      <3> QED
        <4>1. fresh => file.mtime + tick > file.mtime \/ file.fresh
          BY <1>1, <3>1
        <4>2. file.version >= file.version
          BY <1>1
        <4> QED
          BY <1>1, <3>2, <4>1, <4>2
    <2> QED
      BY <2>1, <2>2
  <1>4. TypeOK'
    BY <1>2, <1>3 DEF FileInv, TypeOK, store, locals
  <1>5. NotAhead' /\ NothingMissed'
    BY <1>2, <1>1, <1>3, SMTT(20) DEF FileInv, TypeOK, NotAhead, NothingMissed, store, locals
  <1> QED
    BY <1>4, <1>5 DEF FileInv

LEMMA TimeFile ==
  ASSUME FileInv, Tick \/ Heal \/ UNCHANGED vars
  PROVE  FileInv'
  <1>1. slow' \in BOOLEAN
    <2>1. Tick => slow' \in BOOLEAN
      BY Zenon DEF Tick
    <2> QED
      BY <2>1 DEF FileInv, TypeOK, Heal, vars
  <1>2. TypeOK'
    <2>1. CASE Tick
      BY <1>1, <2>1 DEF FileInv, TypeOK, Tick, store, locals
    <2>2. CASE Heal
      BY <1>1, <2>2 DEF FileInv, TypeOK, Heal, store, locals
    <2>3. CASE UNCHANGED vars
      BY <2>3 DEF FileInv, TypeOK, vars, store, locals
    <2> QED
      BY <2>1, <2>2, <2>3
  <1>3. NotAhead' /\ NothingMissed'
    BY DEF FileInv, NotAhead, NothingMissed, Tick, Heal, vars, store, locals
  <1> QED
    BY <1>2, <1>3 DEF FileInv

LEMMA NextFile == FileInv /\ [Next]_vars => FileInv'
  BY MoveFile, StatFile, CompareFile, ReadFile, StoreFile, ReturnFile, WriteFile, TimeFile
  DEF Next, Call, Step

\* The store has the version of the file, or the next poll will read it.
THEOREM NoVersionIsMissed == Spec => []NothingMissed
  <1>1. FileInv => NothingMissed
    BY DEF FileInv
  <1> QED
    BY <1>1, InitFile, NextFile, PTL DEF Spec
-------------------------------------------------------------------------------
(* A rollout that widens reaches nobody less.                              *)

LEMMA InitRollout == Init => RolloutInv
  <1> SUFFICES ASSUME Init PROVE RolloutInv
    OBVIOUS
  <1>1. FileInv
    BY InitFile
  <1>2. Alone /\ CheckIsRecent
    BY DEF Init, Alone, CheckIsRecent
  <1>3. OneReload
    BY DEF Init, OneReload, Reloading
  <1> QED
    BY <1>1, <1>2, <1>3 DEF RolloutInv

LEMMA NewFileStoreRollout ==
  ASSUME RolloutInv, NEW r \in Readers, NewFileStore(r)
  PROVE  Alone' /\ CheckIsRecent' /\ OneReload'
  BY DEF RolloutInv, FileInv, TypeOK, Alone, CheckIsRecent, OneReload, NewFileStore,
         Goto, store, locals, Reloading

LEMMA LookupRollout ==
  ASSUME RolloutInv, NEW r \in Readers, Lookup(r) \/ Check(r)
  PROVE  Alone' /\ CheckIsRecent' /\ OneReload'
  <1>1. UNCHANGED <<held, lastModTime, checkedAgo, age, contents, slow>>
    BY DEF Lookup, Check, store, locals
  <1>2. held # 0
    BY DEF RolloutInv, Alone, Lookup, Check, Reloading
  <1>3. /\ pc \in [Readers -> {"idle", "check", "claim", "lookup"} \cup Reloading]
        /\ \E l \in {"check", "claim", "lookup"} : pc' = [pc EXCEPT ![r] = l]
    BY DEF RolloutInv, FileInv, TypeOK, Lookup, Check, Goto
  <1>4. \A q \in Readers : pc'[q] \in Reloading => pc[q] = pc'[q]
    BY <1>3 DEF Reloading
  <1> QED
    BY <1>1, <1>2, <1>4 DEF RolloutInv, Alone, CheckIsRecent, OneReload, Reloading

\* Whoever finds a reload due while another one runs knows that it is slow.
LEMMA ClaimRollout ==
  ASSUME RolloutInv, NEW r \in Readers, Claim(r)
  PROVE  Alone' /\ CheckIsRecent' /\ OneReload'
  <1>1. /\ held # 0 /\ held' = held /\ slow' = slow /\ age' = age /\ contents' = contents
        /\ pc \in [Readers -> {"idle", "check", "claim", "lookup"} \cup Reloading]
        /\ age \in [Readers -> Nat] /\ checkedAgo \in Nat
    BY Zenon DEF RolloutInv, FileInv, TypeOK, Alone, Claim, store, locals, Reloading
  <1>2. CASE ~due(r)
    <2>1. pc' = [pc EXCEPT ![r] = "lookup"] /\ checkedAgo' = checkedAgo
      BY <1>2 DEF Claim, Goto
    <2> QED
      BY <1>1, <2>1 DEF RolloutInv, Alone, CheckIsRecent, OneReload, Reloading
  <1>3. CASE due(r)
    <2>1. pc' = [pc EXCEPT ![r] = "stat"] /\ checkedAgo' = age[r]
      BY <1>3 DEF Claim, Goto
    <2>2. age[r] <= checkedAgo /\ age[r] + PollInterval <= checkedAgo
      BY <1>1, <1>3 DEF due
    <2>3. \A q \in Readers : pc[q] \in Reloading =>
             age[r] <= age[q] /\ PollInterval <= age[q]
      BY <1>1, <2>2 DEF RolloutInv, CheckIsRecent
    <2>4. ~slow => \A q \in Readers : ~(pc[q] \in Reloading)
      BY <1>1, <2>3 DEF RolloutInv, OneReload
    <2>5. Alone'
      BY <1>1 DEF Alone
    <2>6. CheckIsRecent'
      BY <1>1, <2>1, <2>3 DEF CheckIsRecent
    <2>7. OneReload'
      BY <1>1, <2>1, <2>4 DEF RolloutInv, OneReload, Reloading
    <2> QED
      BY <2>5, <2>6, <2>7
  <1> QED
    BY <1>2, <1>3

LEMMA StatRollout ==
  ASSUME RolloutInv, NEW r \in Readers, Stat(r) \/ Compare(r)
  PROVE  Alone' /\ CheckIsRecent' /\ OneReload'
  <1>1. UNCHANGED <<held, lastModTime, checkedAgo, age, contents, slow>>
    BY DEF Stat, Compare, store, locals
  <1>2. /\ pc \in [Readers -> {"idle", "check", "claim", "lookup"} \cup Reloading]
        /\ pc[r] \in Reloading
        /\ \E l \in {"compare", "read", "lookup"} : pc' = [pc EXCEPT ![r] = l]
        /\ held = 0 => pc'[r] # "lookup"
    BY DEF RolloutInv, FileInv, TypeOK, Alone, Stat, Compare, Goto, Reloading
  <1>3. /\ \A q \in Readers : pc'[q] \in Reloading => pc[q] \in Reloading
        /\ \A q \in Readers : pc'[q] = "store" => pc[q] = "store"
        /\ \A q \in Readers : pc'[q] # "idle" => pc[q] # "idle"
    BY <1>2 DEF Reloading
  <1>4. held = 0 => \A q \in Readers : pc'[q] \in {"idle"} \cup Reloading
    BY <1>2 DEF RolloutInv, Alone, Reloading
  <1> QED
    BY <1>1, <1>3, <1>4 DEF RolloutInv, Alone, CheckIsRecent, OneReload

LEMMA ReadRollout ==
  ASSUME RolloutInv, NEW r \in Readers, Read(r)
  PROVE  Alone' /\ CheckIsRecent' /\ OneReload'
  <1>1. /\ UNCHANGED <<held, lastModTime, checkedAgo, age, slow>>
        /\ contents' = [contents EXCEPT ![r] = file.version]
    BY DEF Read, store
  <1>2. /\ pc \in [Readers -> {"idle", "check", "claim", "lookup"} \cup Reloading]
        /\ contents \in [Readers -> 0..Len(Flags)]
        /\ pc[r] = "read" /\ pc' = [pc EXCEPT ![r] = "store"]
    BY DEF RolloutInv, FileInv, TypeOK, Read, Goto
  <1>3. held <= file.version
    BY DEF RolloutInv, FileInv, NotAhead
  <1>4. /\ \A q \in Readers : pc'[q] \in Reloading => pc[q] \in Reloading
        /\ \A q \in Readers : pc'[q] # "idle" => pc[q] # "idle"
        /\ \A q \in Readers : pc[q] \in {"idle"} \cup Reloading
                            => pc'[q] \in {"idle"} \cup Reloading
    BY <1>2 DEF Reloading
  <1>5. \A q \in Readers : pc'[q] = "store" =>
           \/ contents'[q] = file.version
           \/ pc[q] = "store" /\ contents'[q] = contents[q]
    BY <1>1, <1>2
  <1>6. Alone' /\ CheckIsRecent'
    BY <1>1, <1>4 DEF RolloutInv, Alone, CheckIsRecent
  <1>7. OneReload'
    BY <1>1, <1>3, <1>4, <1>5 DEF RolloutInv, OneReload
  <1> QED
    BY <1>6, <1>7

LEMMA StoreRollout ==
  ASSUME RolloutInv, NEW r \in Readers, Store(r)
  PROVE  Alone' /\ CheckIsRecent' /\ OneReload'
  <1>1. /\ held' = contents[r] /\ held' # 0 /\ contents[r] \in Nat
        /\ pc' = [pc EXCEPT ![r] = "lookup"] /\ slow' = slow
        /\ age' = age /\ contents' = contents /\ checkedAgo' = checkedAgo
        /\ pc \in [Readers -> {"idle", "check", "claim", "lookup"} \cup Reloading]
    BY DEF RolloutInv, FileInv, TypeOK, NotAhead, Store, Goto, locals
  <1>2. Alone'
    BY <1>1 DEF Alone
  <1>3. CheckIsRecent'
    <2>1. CASE held = 0
      BY <1>1, <2>1 DEF RolloutInv, Alone, CheckIsRecent, Store, Reloading
    <2>2. CASE held # 0
      BY <1>1, <2>2 DEF RolloutInv, CheckIsRecent, Reloading
    <2> QED
      BY <2>1, <2>2
  <1>4. OneReload'
    BY <1>1 DEF RolloutInv, OneReload, Store, Reloading
  <1> QED
    BY <1>2, <1>3, <1>4

LEMMA ReturnRollout ==
  ASSUME RolloutInv, NEW r \in Readers, ReloadFails(r) \/ Answer(r)
  PROVE  Alone' /\ CheckIsRecent' /\ OneReload'
  <1>1. /\ held' = held /\ lastModTime' = lastModTime /\ slow' = slow
        /\ checkedAgo' = checkedAgo /\ pc[r] # "idle"
    BY DEF ReloadFails, Answer, store
  <1>2. CASE Return(r)
    BY <1>1, <1>2
    DEF RolloutInv, FileInv, TypeOK, Alone, CheckIsRecent, OneReload, Return, Goto,
        Reloading
  <1>3. CASE held # 0 /\ Goto(r, "lookup") /\ UNCHANGED locals
    BY <1>1, <1>3
    DEF RolloutInv, FileInv, TypeOK, Alone, CheckIsRecent, OneReload, Goto, locals,
        Reloading
  <1> QED
    BY <1>2, <1>3 DEF ReloadFails, Answer

LEMMA TickRollout ==
  ASSUME RolloutInv, Tick
  PROVE  Alone' /\ CheckIsRecent' /\ OneReload'
  <1>1. /\ held' = held /\ lastModTime' = lastModTime /\ pc' = pc /\ contents' = contents
        /\ age' = [r \in Readers |-> IF pc[r] = "idle" THEN 0 ELSE age[r] + 1]
        /\ checkedAgo' <= checkedAgo + 1
        /\ checkedAgo' \in Nat /\ checkedAgo \in Nat /\ age \in [Readers -> Nat]
    BY DEF RolloutInv, FileInv, TypeOK, Tick, store
  <1>2. ~slow' => ~slow /\ \A r \in Readers : ~(age'[r] >= PollInterval)
    BY Zenon DEF Tick
  <1>3. \A r \in Readers : age'[r] \in Nat
    BY <1>1
  <1>4. Alone'
    BY <1>1 DEF RolloutInv, Alone
  <1>5. CheckIsRecent'
    BY <1>1 DEF RolloutInv, CheckIsRecent, Reloading
  <1>6. OneReload'
    BY <1>1, <1>2, <1>3 DEF RolloutInv, OneReload
  <1> QED
    BY <1>4, <1>5, <1>6

LEMMA OthersRollout ==
  ASSUME RolloutInv,
         \/ \E tick \in {0, 1}, whole \in BOOLEAN : Write(tick, whole)
         \/ \E tick \in {0, 1} : WriteEnds(tick)
         \/ Heal \/ UNCHANGED vars
  PROVE  Alone' /\ CheckIsRecent' /\ OneReload'
  <1>1. UNCHANGED <<store, checkedAgo, pc, locals, slow>>
    BY Zenon DEF Write, WriteEnds, Heal, vars
  <1> QED
    BY <1>1 DEF RolloutInv, Alone, CheckIsRecent, OneReload, store, locals

LEMMA NextRollout == RolloutInv /\ [Next]_vars => RolloutInv'
  <1> SUFFICES ASSUME RolloutInv, [Next]_vars PROVE RolloutInv'
    OBVIOUS
  <1>1. FileInv'
    BY NextFile DEF RolloutInv
  <1>2. Alone' /\ CheckIsRecent' /\ OneReload'
    BY NewFileStoreRollout, LookupRollout, ClaimRollout, StatRollout, ReadRollout,
       StoreRollout, ReturnRollout, TickRollout, OthersRollout
    DEF Next, Call, Step
  <1> QED
    BY <1>1, <1>2 DEF RolloutInv

\* From version to version means from any version to any later one: there is no
\* first version that loses somebody whom an earlier one reached.
LEMMA WideningHolds ==
  ASSUME Widening, NEW v \in 1..Len(Flags), NEW w \in 1..Len(Flags), v <= w
  PROVE  Reached(v) \subseteq Reached(w)
  <1> DEFINE Kept(k) == Reached(v) \subseteq Reached(k)
             T == {k \in v..Len(Flags) : ~Kept(k)}
             R == {ss \in Nat \X Nat : ss[1] < ss[2]}
  <1>1. Kept(v)
    OBVIOUS
  <1>2. ASSUME NEW k \in v..Len(Flags), k # v, Kept(k - 1) PROVE Kept(k)
    <2>1. k - 1 \in 1..(Len(Flags) - 1) /\ (k - 1) + 1 = k
      BY <1>2, VersionsExist
    <2>2. Reached(k - 1) \subseteq Reached((k - 1) + 1)
      BY <2>1 DEF Widening
    <2> QED
      BY <1>2, <2>1, <2>2
  <1> HIDE DEF Kept
  <1>3. T = {}
    <2> SUFFICES ASSUME T # {} PROVE FALSE
      OBVIOUS
    <2>1. IsWellFoundedOn(R, Nat)
      BY NatLessThanWellFounded, Zenon DEF OpToRel
    <2>2. T \subseteq Nat
      BY VersionsExist
    <2>3. \A x, y \in Nat : x < y => <<x, y>> \in R
      OBVIOUS
    <2> HIDE DEF R
    <2>4. PICK k \in T : \A j \in T : ~(<<j, k>> \in R)
      BY <2>1, <2>2, WFMin, Zenon
    <2>5. k \in v..Len(Flags) /\ ~Kept(k) /\ k # v
      BY <1>1, <2>4
    <2>6. k - 1 \in v..Len(Flags) /\ k - 1 < k /\ k - 1 \in Nat /\ k \in Nat
      BY <2>5, VersionsExist
    <2>7. Kept(k - 1)
      BY <2>3, <2>4, <2>6, Zenon
    <2> QED
      BY <1>2, <2>5, <2>7
  <1>4. w \in v..Len(Flags)
    BY VersionsExist
  <1> QED
    BY <1>3, <1>4 DEF Kept

\* Turning a flag on, or raising its percentage as EnabledFor reads it, widens.
LEMMA RaisingWidens ==
  ASSUME NEW a \in FlagRec, NEW b \in FlagRec,
         a.present /\ a.enabled =>
             /\ b.present /\ b.enabled
             /\ effectiveRolloutPercent(a.percent) <= effectiveRolloutPercent(b.percent),
         NEW s \in Subjects, EnabledFor(a, s)
  PROVE  EnabledFor(b, s)
  <1>1. /\ effectiveRolloutPercent(a.percent) \in Nat
        /\ effectiveRolloutPercent(b.percent) \in Nat
    BY DEF FlagRec, effectiveRolloutPercent
  <1>2. s \in Int
    OBVIOUS
  <1> QED
    BY <1>1, <1>2 DEF EnabledFor

\* Along a rollout that only widens nobody who was reached is lost, as long as
\* no call takes a poll interval.
THEOREM RolloutNeverShrinks ==
  ASSUME Widening
  PROVE  Spec => RolloutWidens
  <1>1. RolloutInv /\ [Next]_vars
          => [held # 0 /\ ~slow => Reached(held) \subseteq Reached(held')]_vars
    <2> SUFFICES ASSUME RolloutInv, [Next]_vars, held # 0, ~slow
                 PROVE  Reached(held) \subseteq Reached(held')
      OBVIOUS
    <2>1. CASE held' = held
      BY <2>1
    <2>2. ASSUME NEW r \in Readers, Store(r)
          PROVE  Reached(held) \subseteq Reached(held')
      <3>1. /\ held' = contents[r] /\ held \in 1..Len(Flags)
            /\ contents[r] \in 1..Len(Flags) /\ held <= contents[r]
        BY <2>2, VersionsExist
        DEF RolloutInv, FileInv, TypeOK, NotAhead, OneReload, Store
      <3> QED
        BY <3>1, WideningHolds
    <2> QED
      BY <2>1, <2>2, Zenon
      DEF Next, Call, Step, NewFileStore, Lookup, Check, Claim, Stat, Compare, Read,
          ReloadFails, Answer, Write, WriteEnds, Tick, Heal, vars, store
  <1> QED
    BY <1>1, InitRollout, NextRollout, PTL DEF Spec, RolloutWidens
===============================================================================
