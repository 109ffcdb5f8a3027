-------------------------- MODULE SharedMemoryProofs --------------------------
(***************************************************************************)
(* What holds of the shared memory programs: of opening, closing and       *)
(* removing the buffer, for every number of runs of producer.c and         *)
(* consumer.c, killed at any point (SharedOpen), and of the ring inside an *)
(* opened buffer, for every number of slots and messages (SharedBuffer).   *)
(***************************************************************************)
EXTENDS SharedOpen, SharedBuffer, RingProofs

-----------------------------------------------------------------------------
(***************************************************************************)
(* Opening the buffer.                                                     *)
(*                                                                         *)
(* The argument is about ownership: at every step of buffer_open and of    *)
(* buffer_unlink the names that belong to a producer are exactly those     *)
(* that its position in the code says it has made and not yet removed.     *)
(***************************************************************************)

SemNames == {"full", "empty", "mutex"}
Names == {"shm", "full", "empty", "mutex"}

Labels == {"start", "size", "map", "open", "store", "check", "run", "undo",
           "unlink", "failed", "done", "killed"}

(* The order of the semaphores, spelled out.                               *)
LEMMA SemOrderFacts ==
  ASSUME NEW x
  PROVE  /\ SemOrder(x) \in Seq(SemNames) /\ Len(SemOrder(x)) = 3
         /\ SemOrder(x)[1] = "full"
         /\ SemOrder(x)[2] = "empty"
         /\ SemOrder(x)[3] = "mutex"
         /\ \A i \in {1, 2, 3} : SemOrder(x)[i] \in SemNames
         /\ \A i, j \in {1, 2, 3} : SemOrder(x)[i] = SemOrder(x)[j] => i = j
BY DEF SemOrder, SemNames

(* A process is a producer or a consumer.                                  *)
LEMMA ProcFacts ==
  /\ Procs = Producers \cup Consumers
  /\ \A p \in Producers : p \notin Consumers /\ p # None
BY OpenAssumption DEF Procs

-----------------------------------------------------------------------------
(* Types of the names, of the objects and of each process's locals.        *)
OpenTypes ==
  /\ linked \in [Names -> Producers \cup {None}]
  /\ field \in [Producers -> [SemNames -> Int]]
  /\ pc \in [Procs -> Labels]
  /\ desc \in [Procs -> Seq(Producers \X Names)]
  /\ mapped \in [Procs -> Producers \cup {None}]
  /\ sem \in [Procs -> {1, 2, 3}]
  /\ result \in [Procs -> Int]
  /\ todo \in [Producers -> Seq(Names)]

(* A consumer past shm_open has an object, one before it has none.         *)
ConsumerMapped ==
  \A c \in Consumers :
    /\ pc[c] \in {"start", "map", "open", "store", "check", "run", "failed",
                  "done", "killed"}
    /\ IF pc[c] \in {"map", "open", "store", "check", "run"}
       THEN mapped[c] \in Producers
       ELSE mapped[c] = None

(* Semaphores are opened from the first one on.                            *)
FirstSem(x) == pc[x] \in {"start", "size", "map"} => sem[x] = 1

OpenTypeInv == OpenTypes /\ ConsumerMapped /\ \A x \in Procs : FirstSem(x)

(* The names that producer p has made and not removed, read off from its   *)
(* position in the code.                                                   *)
Made(p, n) ==
  \/ n = "shm" /\ pc[p] \in {"size", "map", "open", "store", "run"}
  \/ /\ pc[p] \in {"open", "store"}
     /\ \E i \in {1, 2, 3} : i < sem[p] /\ n = SemOrder(p)[i]
  \/ pc[p] = "store" /\ result[p] # Failed /\ n = SemOrder(p)[sem[p]]
  \/ pc[p] = "run"
  \/ /\ pc[p] \in {"undo", "unlink"}
     /\ \E i \in 1 .. Len(todo[p]) : n = todo[p][i]

(* The names linked to a producer are those it has made, unless it was     *)
(* killed.                                                                 *)
OwnsMade(p) ==
  pc[p] # "killed" => \A n \in Names : linked[n] = p <=> Made(p, n)

(* A producer that removes names has a name to remove, each listed once.   *)
ListsOnce(p) ==
  pc[p] \in {"undo", "unlink"} =>
    /\ todo[p] # << >>
    /\ \A i, j \in 1 .. Len(todo[p]) : todo[p][i] = todo[p][j] => i = j

Ownership == \A p \in Producers : ListsOnce(p) /\ OwnsMade(p)

OwnInv == OpenTypeInv /\ Ownership

-----------------------------------------------------------------------------
(* A step of a consumer leaves the names and the producers alone.          *)
ProducersKept ==
  /\ linked' = linked /\ todo' = todo
  /\ \A p \in Producers :
       pc'[p] = pc[p] /\ sem'[p] = sem[p] /\ result'[p] = result[p]
         /\ desc'[p] = desc[p] /\ mapped'[p] = mapped[p]

OpeningStep(c) ==
  \/ ShmOpen(c) \/ ConsumerMaps(c) \/ SemOpen(c) \/ ConsumerStores(c)
  \/ Check(c) \/ ConsumerQuits(c)

(* The locals of process x have their types after a step, and those of the *)
(* other processes are as they were.                                       *)
OnlyLocals(x) ==
  /\ pc' \in [Procs -> Labels]
  /\ desc' \in [Procs -> Seq(Producers \X Names)]
  /\ mapped' \in [Procs -> Producers \cup {None}]
  /\ sem' \in [Procs -> {1, 2, 3}]
  /\ result' \in [Procs -> Int]
  /\ \A y \in Procs \ {x} :
       /\ pc'[y] = pc[y] /\ sem'[y] = sem[y] /\ result'[y] = result[y]
       /\ desc'[y] = desc[y] /\ mapped'[y] = mapped[y]

(* A process that opens one more object still has a sequence of            *)
(* descriptors.                                                            *)
LEMMA AppendTyped ==
  ASSUME NEW S, NEW T, NEW d \in [S -> Seq(T)], NEW x \in S, NEW y \in T
  PROVE  [d EXCEPT ![x] = Append(@, y)] \in [S -> Seq(T)]
BY AppendProperties

(* The number of the next semaphore is that of a semaphore.                *)
LEMMA NextSemTyped ==
  ASSUME NEW S, NEW s \in [S -> {1, 2, 3}], NEW x \in S
  PROVE  [s EXCEPT ![x] = IF @ = 3 THEN @ ELSE @ + 1] \in [S -> {1, 2, 3}]
<1>1. s[x] \in {1, 2, 3}
  OBVIOUS
<1>2. (IF s[x] = 3 THEN s[x] ELSE s[x] + 1) \in {1, 2, 3}
  BY <1>1
<1> QED
  BY <1>2

(* The end of a process, by itself or by a signal, changes only its        *)
(* locals.                                                                 *)
LEMMA EndsEffect ==
  ASSUME OpenTypes, NEW x \in Procs, NEW how \in Labels, Ends(x, how)
  PROVE  OnlyLocals(x) /\ pc'[x] = how /\ mapped'[x] = None /\ sem'[x] = 1
<1>1. pc' \in [Procs -> Labels] /\ pc'[x] = how
  BY DEF Ends, OpenTypes, Goto
<1>2. desc' \in [Procs -> Seq(Producers \X Names)]
  BY DEF Ends, OpenTypes
<1>3. mapped' \in [Procs -> Producers \cup {None}] /\ mapped'[x] = None
  BY DEF Ends, OpenTypes
<1>4. sem' \in [Procs -> {1, 2, 3}] /\ sem'[x] = 1
  BY DEF Ends, OpenTypes
<1>5. result' \in [Procs -> Int]
  BY DEF Ends, OpenTypes
<1>6. \A y \in Procs \ {x} :
        /\ pc'[y] = pc[y] /\ sem'[y] = sem[y] /\ result'[y] = result[y]
        /\ desc'[y] = desc[y] /\ mapped'[y] = mapped[y]
  BY DEF Ends, OpenTypes, Goto
<1> QED
  BY <1>1, <1>2, <1>3, <1>4, <1>5, <1>6 DEF OnlyLocals

(* A failed attempt of a consumer changes only its locals.                 *)
LEMMA RetryEffect ==
  ASSUME OpenTypes, NEW c \in Procs, Retry(c)
  PROVE  /\ OnlyLocals(c) /\ pc'[c] \in {"start", "failed"}
         /\ mapped'[c] = None /\ sem'[c] = 1
<1>1. CASE retries[c] > 1
  <2>1. pc' \in [Procs -> Labels] /\ pc'[c] = "start"
    BY <1>1 DEF Retry, OpenTypes, Goto, Labels
  <2>2. desc' \in [Procs -> Seq(Producers \X Names)]
    BY <1>1 DEF Retry, OpenTypes
  <2>3. mapped' \in [Procs -> Producers \cup {None}] /\ mapped'[c] = None
    BY <1>1 DEF Retry, OpenTypes
  <2>4. sem' \in [Procs -> {1, 2, 3}] /\ sem'[c] = 1
    BY <1>1 DEF Retry, OpenTypes
  <2>5. result' \in [Procs -> Int]
    BY <1>1 DEF Retry, OpenTypes
  <2>6. \A y \in Procs \ {c} :
          /\ pc'[y] = pc[y] /\ sem'[y] = sem[y] /\ result'[y] = result[y]
          /\ desc'[y] = desc[y] /\ mapped'[y] = mapped[y]
    BY <1>1 DEF Retry, OpenTypes, Goto
  <2> QED
    BY <2>1, <2>2, <2>3, <2>4, <2>5, <2>6 DEF OnlyLocals
<1>2. CASE ~(retries[c] > 1)
  BY <1>2, EndsEffect DEF Retry, Labels
<1> QED
  BY <1>1, <1>2

(* A step of a consumer keeps the types and changes only its own locals.   *)
LEMMA ConsumerFrame ==
  ASSUME OpenTypeInv, NEW c \in Consumers, OpeningStep(c)
  PROVE  OpenTypeInv' /\ ProducersKept /\ OnlyLocals(c)
<1>0. c \in Procs /\ (\A x \in Producers : x # c /\ x \in Procs) /\ OpenTypes
  BY ProcFacts DEF OpenTypeInv
<1>1. /\ OnlyLocals(c)
      /\ pc'[c] \in {"start", "map", "open", "store", "check", "run", "failed",
                     "done", "killed"}
      /\ IF pc'[c] \in {"map", "open", "store", "check", "run"}
         THEN mapped'[c] \in Producers ELSE mapped'[c] = None
      /\ FirstSem(c)'
  <2>1. CASE ShmOpen(c) /\ ~Retry(c)
    <3>1. linked["shm"] \in Producers
      BY <2>1, <1>0 DEF ShmOpen, OpenTypes, Names
    <3>2. <<linked["shm"], "shm">> \in Producers \X Names
      BY <3>1 DEF Names
    <3>3. desc' = [desc EXCEPT ![c] = Append(@, <<linked["shm"], "shm">>)]
      BY <2>1 DEF ShmOpen
    <3>4. desc' \in [Procs -> Seq(Producers \X Names)]
      BY <1>0, <3>2, <3>3, AppendTyped DEF OpenTypes
    <3>5. pc' = [pc EXCEPT ![c] = "map"] /\ mapped' = [mapped EXCEPT ![c] = linked["shm"]]
          /\ UNCHANGED <<sem, result>>
      BY <2>1 DEF ShmOpen, Goto
    <3>6. pc' \in [Procs -> Labels] /\ mapped' \in [Procs -> Producers \cup {None}]
      BY <1>0, <3>1, <3>5 DEF OpenTypes, Labels
    <3>7. pc'[c] = "map" /\ mapped'[c] \in Producers
      BY <1>0, <3>1, <3>5 DEF OpenTypes
    <3> QED
      BY <1>0, <2>1, <3>3, <3>4, <3>5, <3>6, <3>7
      DEF OnlyLocals, OpenTypes, OpenTypeInv, FirstSem, ShmOpen
  <2>2. CASE ConsumerMaps(c) /\ ~Retry(c)
    BY <1>0, <2>2
    DEF ConsumerMaps, OpenTypeInv, OpenTypes, ConsumerMapped, OnlyLocals, Labels, Goto,
        FirstSem
  <2>3. CASE SemOpen(c)
    <3> DEFINE n == SemOrder(c)[sem[c]]
    <3>1. n \in SemNames /\ n \in Names
      BY <1>0, SemOrderFacts DEF OpenTypes, SemNames, Names
    <3>2. linked[n] # None => <<linked[n], n>> \in Producers \X Names
      BY <1>0, <3>1 DEF OpenTypes
    <3>3. \/ desc' = desc
          \/ linked[n] # None
             /\ desc' = [desc EXCEPT ![c] = Append(@, <<linked[n], n>>)]
      BY <2>3 DEF SemOpen
    <3>4. desc' \in [Procs -> Seq(Producers \X Names)]
      <4> HIDE DEF n
      <4>1. desc \in [Procs -> Seq(Producers \X Names)]
        BY <1>0 DEF OpenTypes
      <4>2. CASE desc' = desc
        BY <4>1, <4>2
      <4>3. CASE linked[n] # None
                 /\ desc' = [desc EXCEPT ![c] = Append(@, <<linked[n], n>>)]
        BY <4>1, <1>0, <3>2, <4>3, AppendTyped
      <4> QED
        BY <3>3, <4>2, <4>3
    <3>5. Len(desc[c]) + 1 \in Int
      BY <1>0, LenProperties DEF OpenTypes
    <3>6. \/ result' = [result EXCEPT ![c] = Failed]
          \/ result' = [result EXCEPT ![c] = Len(desc[c]) + 1]
      BY <2>3 DEF SemOpen
    <3>7. pc' = [pc EXCEPT ![c] = "store"] /\ UNCHANGED <<sem, mapped>>
      BY <2>3 DEF SemOpen, Goto
    <3>8. result' \in [Procs -> Int] /\ pc' \in [Procs -> Labels] /\ pc'[c] = "store"
      BY <1>0, <3>5, <3>6, <3>7 DEF OpenTypes, Labels, Failed
    <3>9. mapped'[c] \in Producers
      BY <2>3, <3>7 DEF SemOpen, OpenTypeInv, ConsumerMapped
    <3> QED
      BY <1>0, <3>3, <3>4, <3>6, <3>7, <3>8, <3>9
      DEF OnlyLocals, OpenTypes, FirstSem
  <2>4. CASE ConsumerStores(c)
    <3>1. mapped[c] \in Producers
      BY <2>4 DEF ConsumerStores, OpenTypeInv, ConsumerMapped
    <3>2. sem' \in [Procs -> {1, 2, 3}]
      BY <1>0, <2>4, NextSemTyped DEF ConsumerStores, OpenTypes
    <3>3. pc' \in [Procs -> Labels] /\ pc'[c] \in {"check", "open"}
      BY <1>0, <2>4 DEF ConsumerStores, OpenTypes, Goto, Labels
    <3> QED
      BY <1>0, <2>4, <3>1, <3>2, <3>3
      DEF ConsumerStores, OpenTypes, OnlyLocals, Goto, FirstSem
  <2>5. CASE Check(c) /\ ~Retry(c)
    BY <1>0, <2>5
    DEF Check, OpenTypeInv, OpenTypes, ConsumerMapped, OnlyLocals, Labels, Goto,
        FirstSem
  <2>6. CASE ConsumerQuits(c)
    BY <1>0, <2>6, EndsEffect DEF ConsumerQuits, Labels, FirstSem
  <2>7. CASE Retry(c)
    BY <1>0, <2>7, RetryEffect DEF FirstSem
  <2> QED
    BY <2>1, <2>2, <2>3, <2>4, <2>5, <2>6, <2>7
    DEF OpeningStep
<1>2. linked' = linked /\ todo' = todo
  BY DEF OpeningStep, ShmOpen, ConsumerMaps, SemOpen, ConsumerStores, Check,
         ConsumerQuits, names
<1>3. field' \in [Producers -> [SemNames -> Int]]
  <2>1. CASE ConsumerStores(c)
    <3>1. mapped[c] \in Producers
      BY <2>1 DEF ConsumerStores, OpenTypeInv, ConsumerMapped
    <3>2. SemOrder(c)[sem[c]] \in SemNames /\ result[c] \in Int
      BY <1>0, SemOrderFacts DEF OpenTypes
    <3> QED
      BY <1>0, <2>1, <3>1, <3>2 DEF ConsumerStores, OpenTypes
  <2>2. CASE ~ConsumerStores(c)
    BY <1>0, <2>2 DEF OpenTypes, OpeningStep, ShmOpen, ConsumerMaps, SemOpen,
         Check, ConsumerQuits
  <2> QED
    BY <2>1, <2>2
<1>4. OpenTypes'
  BY <1>0, <1>1, <1>2, <1>3 DEF OpenTypes, OnlyLocals
<1>5. ConsumerMapped'
  BY <1>0, <1>1, ProcFacts, ZenonT(60) DEF OpenTypeInv, ConsumerMapped, OnlyLocals
<1>6. ProducersKept
  BY <1>0, <1>1, <1>2 DEF ProducersKept, OnlyLocals
<1>7. \A x \in Procs : FirstSem(x)'
  BY <1>0, <1>1 DEF OpenTypeInv, FirstSem, OnlyLocals
<1> QED
  BY <1>1, <1>4, <1>5, <1>6, <1>7 DEF OpenTypeInv

-----------------------------------------------------------------------------
(* What a step of producer p may change, and what must hold of p after it. *)
ProducerEffect(p) ==
  /\ OnlyLocals(p)
  /\ linked' \in [Names -> Producers \cup {None}]
  /\ \A n \in Names : linked'[n] # linked[n] =>
       linked[n] \in {None, p} /\ linked'[n] \in {None, p}
  /\ field' \in [Producers -> [SemNames -> Int]]
  /\ todo' \in [Producers -> Seq(Names)]
  /\ \A q \in Producers \ {p} : todo'[q] = todo[q]
  /\ FirstSem(p)' /\ ListsOnce(p)' /\ OwnsMade(p)'

(* A step that leaves the names and the producers alone keeps ownership.   *)
LEMMA KeptKeepsOwnership ==
  ASSUME Ownership, ProducersKept
  PROVE  Ownership'
<1> SUFFICES ASSUME NEW p \in Producers PROVE ListsOnce(p)' /\ OwnsMade(p)'
  BY DEF Ownership
<1>1. \A n \in Names : Made(p, n)' <=> Made(p, n)
  BY DEF ProducersKept, Made, SemOrder
<1> QED
  BY <1>1 DEF Ownership, ProducersKept, ListsOnce, OwnsMade

(* Then the other producers keep their names, too.                         *)
LEMMA EffectKeepsOwnInv ==
  ASSUME OwnInv, NEW p \in Producers, ProducerEffect(p)
  PROVE  OwnInv'
<1>1. OpenTypes'
  BY DEF OwnInv, OpenTypeInv, OpenTypes, ProducerEffect, OnlyLocals
<1>2. ConsumerMapped'
  BY ProcFacts, ZenonT(60)
  DEF OwnInv, OpenTypeInv, ConsumerMapped, ProducerEffect, OnlyLocals
<1>3. ASSUME NEW q \in Producers, q # p
      PROVE  ListsOnce(q)' /\ OwnsMade(q)'
  <2>1. /\ pc'[q] = pc[q] /\ sem'[q] = sem[q] /\ result'[q] = result[q]
        /\ todo'[q] = todo[q]
    BY <1>3, ProcFacts DEF ProducerEffect, OnlyLocals
  <2>2. ListsOnce(q) /\ OwnsMade(q)
    BY DEF OwnInv, Ownership
  <2>3. \A n \in Names : Made(q, n)' <=> Made(q, n)
    BY <2>1 DEF Made, SemOrder
  <2>4. \A n \in Names : linked'[n] = q <=> linked[n] = q
    BY <1>3, ProcFacts DEF ProducerEffect
  <2> QED
    BY <2>1, <2>2, <2>3, <2>4 DEF ListsOnce, OwnsMade
<1>4. \A x \in Procs : FirstSem(x)'
  BY DEF OwnInv, OpenTypeInv, FirstSem, ProducerEffect, OnlyLocals
<1> QED
  BY <1>1, <1>2, <1>3, <1>4 DEF OwnInv, OpenTypeInv, Ownership, ProducerEffect

(* shm_open gives the producer the name of the buffer, or nothing.         *)
LEMMA ShmCreateEffect ==
  ASSUME OwnInv, NEW p \in Producers, ShmCreate(p)
  PROVE  ProducerEffect(p)
<1>0. p \in Procs /\ p # None /\ OpenTypes /\ FirstSem(p)
      /\ ListsOnce(p) /\ OwnsMade(p)
  BY ProcFacts DEF OwnInv, OpenTypeInv, Ownership
<1>1. field' = field /\ todo' = todo
  BY DEF ShmCreate
<1>2. \A n \in Names : linked[n] # p
  BY <1>0 DEF OwnsMade, Made, ShmCreate
<1>3. CASE Ends(p, "failed") /\ UNCHANGED linked
  <2>1. OnlyLocals(p) /\ pc'[p] = "failed" /\ FirstSem(p)'
    BY <1>0, <1>3, EndsEffect DEF Labels, FirstSem
  <2>2. ListsOnce(p)' /\ OwnsMade(p)'
    BY <1>2, <1>3, <2>1 DEF ListsOnce, OwnsMade, Made
  <2> QED
    BY <1>0, <1>1, <1>3, <2>1, <2>2 DEF ProducerEffect, OpenTypes
<1>4. CASE ~(Ends(p, "failed") /\ UNCHANGED linked)
  <2>1. /\ linked["shm"] = None
        /\ linked' = [linked EXCEPT !["shm"] = p]
        /\ desc' = [desc EXCEPT ![p] = Append(@, <<p, "shm">>)]
        /\ pc' = [pc EXCEPT ![p] = "size"]
        /\ UNCHANGED <<mapped, sem, result>>
    BY <1>4 DEF ShmCreate, Goto
  <2>2. <<p, "shm">> \in Producers \X Names
    BY DEF Names
  <2>3. desc' \in [Procs -> Seq(Producers \X Names)]
    BY <1>0, <2>1, <2>2, AppendTyped DEF OpenTypes
  <2>4. pc' \in [Procs -> Labels] /\ pc'[p] = "size" /\ FirstSem(p)'
    BY <1>0, <2>1 DEF OpenTypes, Labels, FirstSem, ShmCreate
  <2>5. OnlyLocals(p)
    BY <1>0, <2>1, <2>3, <2>4 DEF OnlyLocals, OpenTypes
  <2>6. /\ linked' \in [Names -> Producers \cup {None}]
        /\ \A n \in Names : linked'[n] = IF n = "shm" THEN p ELSE linked[n]
    BY <1>0, <2>1 DEF OpenTypes, Names
  <2>7. ListsOnce(p)' /\ OwnsMade(p)'
    BY <1>2, <2>4, <2>6 DEF ListsOnce, OwnsMade, Made
  <2> QED
    BY <1>0, <1>1, <2>1, <2>4, <2>5, <2>6, <2>7 DEF ProducerEffect, OpenTypes
<1> QED
  BY <1>3, <1>4

(* The list of names after a failed shm_open, ftruncate or mmap.           *)
LEMMA OnlyShm ==
  /\ <<"shm">> \in Seq(Names) /\ Len(<<"shm">>) = 1 /\ <<"shm">>[1] = "shm"
  /\ <<"shm">> # << >>
BY DEF Names

(* ftruncate and mmap, when they fail, leave the name of the buffer to     *)
(* remove.                                                                 *)
LEMMA SizeAndMapEffect ==
  ASSUME OwnInv, NEW p \in Producers, Ftruncate(p) \/ MapAndZero(p)
  PROVE  ProducerEffect(p)
<1>0. p \in Procs /\ p # None /\ OpenTypes /\ FirstSem(p)
      /\ ListsOnce(p) /\ OwnsMade(p)
  BY ProcFacts DEF OwnInv, OpenTypeInv, Ownership
<1>1. linked' = linked /\ desc' = desc /\ sem' = sem /\ result' = result
  BY DEF Ftruncate, MapAndZero, names
<1>2. \A n \in Names : linked[n] = p <=> n = "shm"
  BY <1>0 DEF OwnsMade, Made, Ftruncate, MapAndZero
<1>3. field' \in [Producers -> [SemNames -> Int]]
  <2>1. CASE field' = field
    BY <1>0, <2>1 DEF OpenTypes
  <2>2. CASE field' = [field EXCEPT ![p] = [n \in DOMAIN @ |-> 0]]
    <3>1. DOMAIN field[p] = SemNames
      BY <1>0 DEF OpenTypes
    <3>2. [n \in DOMAIN field[p] |-> 0] \in [SemNames -> Int]
      BY <3>1
    <3> QED
      BY <1>0, <2>2, <3>2 DEF OpenTypes
  <2> QED
    BY <2>1, <2>2 DEF Ftruncate, MapAndZero
<1>4. mapped' \in [Procs -> Producers \cup {None}]
      /\ \A y \in Procs \ {p} : mapped'[y] = mapped[y]
  BY <1>0 DEF OpenTypes, Ftruncate, MapAndZero
<1>5. \/ todo' = todo /\ pc' = [pc EXCEPT ![p] = "map"]
      \/ todo' = todo /\ pc' = [pc EXCEPT ![p] = "open"] /\ sem[p] = 1
      \/ /\ todo' = [todo EXCEPT ![p] = <<"shm">>]
         /\ pc' = [pc EXCEPT ![p] = "undo"]
  BY <1>0 DEF Ftruncate, MapAndZero, Undo, Goto, FirstSem
<1>6. OnlyLocals(p)
  BY <1>0, <1>1, <1>4, <1>5 DEF OnlyLocals, OpenTypes, Labels
<1>7. /\ todo' \in [Producers -> Seq(Names)]
      /\ \A q \in Producers \ {p} : todo'[q] = todo[q]
  BY <1>0, <1>5, OnlyShm DEF OpenTypes
<1>8. ListsOnce(p)' /\ OwnsMade(p)'
  <2>1. CASE pc'[p] = "map"
    BY <1>1, <1>2, <2>1 DEF ListsOnce, OwnsMade, Made
  <2>2. CASE pc'[p] = "open" /\ sem[p] = 1
    BY <1>1, <1>2, <2>2 DEF ListsOnce, OwnsMade, Made
  <2>3. CASE pc'[p] = "undo" /\ todo'[p] = <<"shm">>
    BY <1>1, <1>2, <2>3, OnlyShm DEF ListsOnce, OwnsMade, Made
  <2> QED
    BY <1>0, <1>5, <2>1, <2>2, <2>3 DEF OpenTypes
<1>9. FirstSem(p)'
  BY <1>0, <1>1 DEF FirstSem, Ftruncate, MapAndZero
<1> QED
  BY <1>0, <1>1, <1>3, <1>6, <1>7, <1>8, <1>9 DEF ProducerEffect, OpenTypes

(* sem_open adds the name of one semaphore, or nothing.                    *)
LEMMA SemCreateEffect ==
  ASSUME OwnInv, NEW p \in Producers, SemCreate(p)
  PROVE  ProducerEffect(p)
<1>0. p \in Procs /\ p # None /\ OpenTypes /\ FirstSem(p)
      /\ ListsOnce(p) /\ OwnsMade(p)
  BY ProcFacts DEF OwnInv, OpenTypeInv, Ownership
<1> DEFINE n == SemOrder(p)[sem[p]]
<1>1. n \in Names
  BY <1>0, SemOrderFacts DEF OpenTypes, SemNames, Names
<1>2. /\ pc[p] = "open" /\ pc' = [pc EXCEPT ![p] = "store"]
      /\ UNCHANGED <<field, mapped, sem, todo>>
  BY DEF SemCreate, Goto
<1>3. \A m \in Names : linked[m] = p <=>
         \/ m = "shm"
         \/ \E i \in {1, 2, 3} : i < sem[p] /\ m = SemOrder(p)[i]
  BY <1>0, <1>2 DEF OwnsMade, Made
<1>4. pc' \in [Procs -> Labels] /\ pc'[p] = "store" /\ FirstSem(p)'
  BY <1>0, <1>2 DEF OpenTypes, Labels, FirstSem
<1>5. CASE result' = [result EXCEPT ![p] = Failed] /\ UNCHANGED <<linked, desc>>
  <2>1. result' \in [Procs -> Int] /\ result'[p] = Failed
    BY <1>0, <1>5 DEF OpenTypes, Failed
  <2>2. OnlyLocals(p)
    BY <1>0, <1>2, <1>4, <1>5, <2>1 DEF OnlyLocals, OpenTypes
  <2>3. ListsOnce(p)' /\ OwnsMade(p)'
    BY <1>2, <1>3, <1>4, <1>5, <2>1 DEF ListsOnce, OwnsMade, Made, SemOrder
  <2> QED
    BY <1>0, <1>2, <1>4, <1>5, <2>2, <2>3 DEF ProducerEffect, OpenTypes
<1>6. CASE /\ linked[n] = None
           /\ linked' = [linked EXCEPT ![n] = p]
           /\ desc' = [desc EXCEPT ![p] = Append(@, <<p, n>>)]
           /\ result' = [result EXCEPT ![p] = Len(desc[p]) + 1]
  <2> HIDE DEF n
  <2>1. Len(desc[p]) + 1 \in Int /\ Len(desc[p]) + 1 # Failed
    BY <1>0, LenProperties DEF OpenTypes, Failed
  <2>2. result' \in [Procs -> Int] /\ result'[p] # Failed
    BY <1>0, <1>6, <2>1 DEF OpenTypes
  <2>3. <<p, n>> \in Producers \X Names
    BY <1>1
  <2>4. desc' \in [Procs -> Seq(Producers \X Names)]
    BY <1>0, <1>6, <2>3, AppendTyped DEF OpenTypes
  <2>5. OnlyLocals(p)
    BY <1>0, <1>2, <1>4, <1>6, <2>2, <2>4 DEF OnlyLocals, OpenTypes
  <2>6. /\ linked' \in [Names -> Producers \cup {None}]
        /\ \A m \in Names : linked'[m] = IF m = n THEN p ELSE linked[m]
    BY <1>0, <1>1, <1>6 DEF OpenTypes
  <2>7. OwnsMade(p)'
    <3> SUFFICES ASSUME NEW m \in Names PROVE linked'[m] = p <=> Made(p, m)'
      BY DEF OwnsMade
    <3>1. Made(p, m)' <=> \/ m = "shm"
                          \/ \E i \in {1, 2, 3} : i < sem[p] /\ m = SemOrder(p)[i]
                          \/ m = SemOrder(p)[sem[p]]
      BY <1>2, <1>4, <2>2 DEF Made, SemOrder
    <3> QED
      BY <1>3, <2>6, <3>1 DEF n
  <2>8. ListsOnce(p)'
    BY <1>4 DEF ListsOnce
  <2> QED
    BY <1>0, <1>2, <1>4, <1>6, <2>5, <2>6, <2>7, <2>8
    DEF ProducerEffect, OpenTypes
<1> QED
  BY <1>5, <1>6 DEF SemCreate

(* The list of names after a failed sem_open: the semaphores made before,  *)
(* then the buffer.                                                        *)
LEMMA MadeSoFarFacts ==
  ASSUME NEW p, sem[p] \in {1, 2, 3}
  PROVE  /\ MadeSoFar(p) \in Seq(Names) /\ Len(MadeSoFar(p)) = sem[p]
         /\ MadeSoFar(p) # << >>
         /\ \A i \in 1 .. sem[p] :
              MadeSoFar(p)[i] = IF i < sem[p] THEN SemOrder(p)[i] ELSE "shm"
<1> DEFINE k == sem[p] - 1
           s == SubSeq(SemOrder(p), 1, k)
<1>1. k \in 0 .. 2
  OBVIOUS
<1>2. SemOrder(p) \in Seq(Names) /\ Len(SemOrder(p)) = 3
  BY DEF SemOrder, Names
<1>3. s \in Seq(Names) /\ Len(s) = k /\ \A i \in 1 .. k : s[i] = SemOrder(p)[i]
  <2> HIDE DEF k
  <2>1. \A i \in 1 .. k : i \in 1 .. 3
    BY <1>1
  <2> QED
    BY <1>1, <1>2, <2>1, SubSeqProperties, SMTT(60)
<1>4. <<"shm">> \in Seq(Names) /\ Len(<<"shm">>) = 1 /\ <<"shm">>[1] = "shm"
  BY OnlyShm
<1>5. MadeSoFar(p) = s \o <<"shm">>
  BY DEF MadeSoFar
<1> HIDE DEF s
<1>6. /\ s \o <<"shm">> \in Seq(Names)
      /\ Len(s \o <<"shm">>) = k + 1
      /\ \A i \in 1 .. k + 1 :
           (s \o <<"shm">>)[i] = IF i <= k THEN s[i] ELSE <<"shm">>[i - k]
  BY <1>1, <1>3, <1>4, ConcatProperties
<1>7. \A i \in 1 .. k + 1 :
        (s \o <<"shm">>)[i] = IF i < k + 1 THEN SemOrder(p)[i] ELSE "shm"
  BY <1>1, <1>3, <1>4, <1>6
<1> QED
  BY <1>1, <1>5, <1>6, <1>7

(* A failed sem_open leaves to remove exactly the names made before it;    *)
(* the last successful one completes the four names.                       *)
LEMMA SemStoreEffect ==
  ASSUME OwnInv, NEW p \in Producers, SemStore(p)
  PROVE  ProducerEffect(p)
<1>0. p \in Procs /\ p # None /\ OpenTypes /\ FirstSem(p)
      /\ ListsOnce(p) /\ OwnsMade(p)
  BY ProcFacts DEF OwnInv, OpenTypeInv, Ownership
<1>1. sem[p] \in {1, 2, 3} /\ result[p] \in Int /\ pc[p] = "store"
  BY <1>0 DEF OpenTypes, SemStore
<1>2. UNCHANGED <<linked, desc, mapped, result>>
  BY DEF SemStore, names
<1>3. field' \in [Producers -> [SemNames -> Int]]
  <2>1. SemOrder(p)[sem[p]] \in SemNames
    BY <1>1, SemOrderFacts
  <2> QED
    BY <1>0, <1>1, <2>1 DEF SemStore, OpenTypes
<1>4. CASE result[p] = Failed
  <2>1. /\ todo' = [todo EXCEPT ![p] = MadeSoFar(p)]
        /\ pc' = [pc EXCEPT ![p] = "undo"] /\ sem' = sem
    BY <1>4 DEF SemStore, Undo, Goto
  <2>2. pc'[p] = "undo" /\ pc' \in [Procs -> Labels]
    BY <1>0, <2>1 DEF OpenTypes, Labels
  <2>3. /\ MadeSoFar(p) \in Seq(Names) /\ Len(MadeSoFar(p)) = sem[p]
        /\ MadeSoFar(p) # << >>
        /\ \A i \in 1 .. sem[p] :
             MadeSoFar(p)[i] = IF i < sem[p] THEN SemOrder(p)[i] ELSE "shm"
    BY <1>1, MadeSoFarFacts
  <2> HIDE DEF MadeSoFar
  <2>4. todo' \in [Producers -> Seq(Names)] /\ todo'[p] = MadeSoFar(p)
        /\ \A q \in Producers \ {p} : todo'[q] = todo[q]
    BY <1>0, <2>1, <2>3 DEF OpenTypes
  <2>5. OnlyLocals(p)
    BY <1>0, <1>2, <2>1, <2>2 DEF OnlyLocals, OpenTypes
  <2>6. ListsOnce(p)'
    <3>1. ASSUME NEW i \in 1 .. sem[p], NEW j \in 1 .. sem[p],
                 MadeSoFar(p)[i] = MadeSoFar(p)[j]
          PROVE  i = j
      <4>1. i \in {1, 2, 3} /\ j \in {1, 2, 3} /\ i <= sem[p] /\ j <= sem[p]
        BY <1>1
      <4>2. /\ SemOrder(p)[i] # "shm" /\ SemOrder(p)[j] # "shm"
            /\ SemOrder(p)[i] = SemOrder(p)[j] => i = j
        BY <4>1, SemOrderFacts DEF SemNames
      <4> QED
        BY <1>1, <2>3, <3>1, <4>1, <4>2
    <3> QED
      BY <2>3, <2>4, <3>1 DEF ListsOnce
  <2>7. OwnsMade(p)'
    <3> SUFFICES ASSUME NEW m \in Names PROVE linked'[m] = p <=> Made(p, m)'
      BY DEF OwnsMade
    <3>1. Made(p, m)' <=> \E i \in 1 .. sem[p] : m = MadeSoFar(p)[i]
      BY <2>2, <2>3, <2>4 DEF Made
    <3>2. Made(p, m) <=> \/ m = "shm"
                         \/ \E i \in {1, 2, 3} : i < sem[p] /\ m = SemOrder(p)[i]
      BY <1>1, <1>4 DEF Made
    <3>3. (\E i \in 1 .. sem[p] : m = MadeSoFar(p)[i]) <=>
            \/ m = "shm"
            \/ \E i \in {1, 2, 3} : i < sem[p] /\ m = SemOrder(p)[i]
      BY <1>1, <2>3
    <3> QED
      BY <1>0, <1>1, <1>2, <3>1, <3>2, <3>3 DEF OwnsMade
  <2>8. FirstSem(p)'
    BY <2>2 DEF FirstSem
  <2> QED
    BY <1>0, <1>2, <1>3, <2>4, <2>5, <2>6, <2>7, <2>8 DEF ProducerEffect, OpenTypes
<1>5. CASE result[p] # Failed
  <2>1. /\ pc' = [pc EXCEPT ![p] = IF sem[p] = 3 THEN "run" ELSE "open"]
        /\ sem' = [sem EXCEPT ![p] = IF @ = 3 THEN @ ELSE @ + 1]
        /\ todo' = todo
    BY <1>5 DEF SemStore, Goto
  <2>2. /\ pc' \in [Procs -> Labels]
        /\ pc'[p] = IF sem[p] = 3 THEN "run" ELSE "open"
    BY <1>0, <2>1 DEF OpenTypes, Labels
  <2>3. /\ sem' \in [Procs -> {1, 2, 3}]
        /\ sem'[p] = IF sem[p] = 3 THEN sem[p] ELSE sem[p] + 1
    BY <1>0, <2>1, NextSemTyped DEF OpenTypes
  <2>4. OnlyLocals(p)
    BY <1>0, <1>2, <2>1, <2>2, <2>3 DEF OnlyLocals, OpenTypes
  <2>5. ListsOnce(p)' /\ FirstSem(p)'
    BY <2>2 DEF ListsOnce, FirstSem
  <2>6. OwnsMade(p)'
    <3> SUFFICES ASSUME NEW m \in Names PROVE linked'[m] = p <=> Made(p, m)'
      BY DEF OwnsMade
    <3>1. Made(p, m) <=> \/ m = "shm"
                         \/ \E i \in {1, 2, 3} : i <= sem[p] /\ m = SemOrder(p)[i]
      BY <1>1, <1>5 DEF Made
    <3>2. CASE sem[p] = 3
      <4>1. Made(p, m)'
        BY <2>2, <3>2 DEF Made
      <4>2. Made(p, m)
        BY <3>1, <3>2, SemOrderFacts DEF Names
      <4> QED
        BY <1>0, <1>1, <1>2, <4>1, <4>2 DEF OwnsMade
    <3>3. CASE sem[p] # 3
      <4>1. Made(p, m)' <=>
              \/ m = "shm"
              \/ \E i \in {1, 2, 3} : i < sem[p] + 1 /\ m = SemOrder(p)[i]
        BY <2>2, <2>3, <3>3 DEF Made, SemOrder
      <4> QED
        BY <1>0, <1>1, <1>2, <3>1, <4>1 DEF OwnsMade
    <3> QED
      BY <3>2, <3>3
  <2> QED
    BY <1>0, <1>2, <1>3, <2>1, <2>4, <2>5, <2>6 DEF ProducerEffect, OpenTypes
<1> QED
  BY <1>4, <1>5

(* A producer that ends its loops has all four names to remove.            *)
LEMMA ProducerQuitsEffect ==
  ASSUME OwnInv, NEW p \in Producers, ProducerQuits(p)
  PROVE  ProducerEffect(p)
<1>0. p \in Procs /\ p # None /\ OpenTypes /\ FirstSem(p)
      /\ ListsOnce(p) /\ OwnsMade(p)
  BY ProcFacts DEF OwnInv, OpenTypeInv, Ownership
<1>1. /\ pc[p] = "run" /\ pc' = [pc EXCEPT ![p] = "unlink"]
      /\ todo' = [todo EXCEPT ![p] = AllNames]
      /\ mapped' = [mapped EXCEPT ![p] = None]
      /\ UNCHANGED <<linked, field, desc, sem, result>>
  BY DEF ProducerQuits, Goto, names
<1>2. /\ AllNames \in Seq(Names) /\ Len(AllNames) = 4 /\ AllNames # << >>
      /\ AllNames[1] = "shm" /\ AllNames[2] = "full"
      /\ AllNames[3] = "empty" /\ AllNames[4] = "mutex"
  BY DEF AllNames, Names
<1> HIDE DEF AllNames
<1>3. todo' \in [Producers -> Seq(Names)] /\ todo'[p] = AllNames
      /\ \A q \in Producers \ {p} : todo'[q] = todo[q]
  BY <1>0, <1>1, <1>2 DEF OpenTypes
<1>4. pc' \in [Procs -> Labels] /\ pc'[p] = "unlink" /\ FirstSem(p)'
  BY <1>0, <1>1 DEF OpenTypes, Labels, FirstSem
<1>5. OnlyLocals(p)
  BY <1>0, <1>1, <1>4 DEF OnlyLocals, OpenTypes
<1>6. ListsOnce(p)'
  <2>1. ASSUME NEW i \in 1 .. 4, NEW j \in 1 .. 4, AllNames[i] = AllNames[j]
        PROVE  i = j
    <3>1. i \in {1, 2, 3, 4} /\ j \in {1, 2, 3, 4}
      OBVIOUS
    <3> QED
      BY <1>2, <2>1, <3>1
  <2> QED
    BY <1>2, <1>3, <2>1 DEF ListsOnce
<1>7. OwnsMade(p)'
  <2> SUFFICES ASSUME NEW m \in Names PROVE linked'[m] = p <=> Made(p, m)'
    BY DEF OwnsMade
  <2>1. linked[m] = p
    BY <1>0, <1>1 DEF OwnsMade, Made
  <2>2. \E i \in 1 .. Len(AllNames) : m = AllNames[i]
    BY <1>2 DEF Names
  <2> QED
    BY <1>1, <1>3, <1>4, <2>1, <2>2 DEF Made
<1> QED
  BY <1>0, <1>1, <1>3, <1>4, <1>5, <1>6, <1>7 DEF ProducerEffect, OpenTypes

(* A name that is removed belongs to the producer that removes it.         *)
LEMMA UnlinkEffect ==
  ASSUME OwnInv, NEW p \in Producers, UnlinkNext(p)
  PROVE  ProducerEffect(p) /\ linked[Head(todo[p])] = p
<1>0. p \in Procs /\ p # None /\ OpenTypes /\ FirstSem(p)
      /\ ListsOnce(p) /\ OwnsMade(p)
  BY ProcFacts DEF OwnInv, OpenTypeInv, Ownership
<1> DEFINE s == todo[p]
<1>1. /\ pc[p] \in {"undo", "unlink"}
      /\ linked' = [linked EXCEPT ![Head(s)] = None]
      /\ todo' = [todo EXCEPT ![p] = Tail(s)]
      /\ UNCHANGED field
  BY DEF UnlinkNext
<1>2. s \in Seq(Names) /\ s # << >>
  BY <1>0, <1>1 DEF OpenTypes, ListsOnce
<1>3. /\ Head(s) \in Names /\ Head(s) = s[1] /\ Len(s) \in Nat \ {0}
      /\ Tail(s) \in Seq(Names) /\ Len(Tail(s)) = Len(s) - 1
      /\ \A i \in 1 .. Len(Tail(s)) : Tail(s)[i] = s[i + 1]
  BY <1>2, HeadTailProperties, LenProperties, EmptySeq
<1>4. /\ \A m \in Names : linked[m] = p <=> \E i \in 1 .. Len(s) : m = s[i]
      /\ \A i, j \in 1 .. Len(s) : s[i] = s[j] => i = j
  BY <1>0, <1>1 DEF OwnsMade, Made, ListsOnce
<1>5. /\ todo' \in [Producers -> Seq(Names)] /\ todo'[p] = Tail(s)
      /\ \A q \in Producers \ {p} : todo'[q] = todo[q]
  BY <1>0, <1>1, <1>3 DEF OpenTypes
<1> HIDE DEF s
<1>6. linked[Head(s)] = p
  BY <1>3, <1>4
<1>7. /\ linked' \in [Names -> Producers \cup {None}]
      /\ \A m \in Names : linked'[m] = IF m = Head(s) THEN None ELSE linked[m]
  BY <1>0, <1>1, <1>3 DEF OpenTypes
<1>8. \A m \in Names :
        linked'[m] = p <=> \E i \in 1 .. Len(Tail(s)) : m = Tail(s)[i]
  <2> SUFFICES ASSUME NEW m \in Names
               PROVE  linked'[m] = p <=> \E i \in 1 .. Len(Tail(s)) : m = Tail(s)[i]
    OBVIOUS
  <2>1. ASSUME linked'[m] = p PROVE \E i \in 1 .. Len(Tail(s)) : m = Tail(s)[i]
    <3>1. m # Head(s) /\ linked[m] = p
      BY <1>0, <1>7, <2>1
    <3>2. PICK j \in 1 .. Len(s) : m = s[j]
      BY <1>4, <3>1
    <3>3. j # 1 /\ j - 1 \in 1 .. Len(Tail(s)) /\ (j - 1) + 1 = j
      BY <1>3, <3>1, <3>2
    <3> QED
      BY <1>3, <3>2, <3>3
  <2>2. ASSUME NEW i \in 1 .. Len(Tail(s)), m = Tail(s)[i] PROVE linked'[m] = p
    <3>1. i + 1 \in 1 .. Len(s) /\ i + 1 # 1 /\ 1 \in 1 .. Len(s) /\ m = s[i + 1]
      BY <1>3, <2>2
    <3>2. m # Head(s)
      BY <1>3, <1>4, <3>1
    <3> QED
      BY <1>4, <1>7, <3>1, <3>2
  <2> QED
    BY <2>1, <2>2
<1>9. CASE Len(s) > 1
  <2>1. UNCHANGED <<pc, desc, mapped, sem, result>>
    BY <1>9 DEF UnlinkNext, s
  <2>2. OnlyLocals(p) /\ FirstSem(p)'
    BY <1>0, <2>1 DEF OnlyLocals, OpenTypes, FirstSem
  <2>3. ListsOnce(p)'
    <3>1. Tail(s) # << >>
      <4>1. Len(Tail(s)) # 0
        BY <1>3, <1>9
      <4>2. Len(<< >>) = 0
        OBVIOUS
      <4> QED
        BY <4>1, <4>2, Zenon
    <3>2. ASSUME NEW i \in 1 .. Len(Tail(s)), NEW j \in 1 .. Len(Tail(s)),
                 Tail(s)[i] = Tail(s)[j]
          PROVE  i = j
      <4>1. i + 1 \in 1 .. Len(s) /\ j + 1 \in 1 .. Len(s) /\ s[i + 1] = s[j + 1]
        BY <1>3, <3>2
      <4>2. i + 1 = j + 1
        BY <1>4, <4>1
      <4> QED
        BY <4>2
    <3> QED
      BY <1>5, <3>1, <3>2 DEF ListsOnce
  <2>4. OwnsMade(p)'
    BY <1>1, <1>5, <1>8, <2>1 DEF OwnsMade, Made
  <2> QED
    BY <1>0, <1>1, <1>5, <1>6, <1>7, <2>2, <2>3, <2>4
    DEF ProducerEffect, OpenTypes, s
<1>10. CASE ~(Len(s) > 1)
  <2>1. Ends(p, IF pc[p] = "undo" THEN "failed" ELSE "done")
    BY <1>10 DEF UnlinkNext, s
  <2>2. /\ OnlyLocals(p) /\ pc'[p] \in {"failed", "done"}
        /\ FirstSem(p)' /\ ListsOnce(p)'
    BY <1>0, <2>1, EndsEffect DEF Labels, FirstSem, ListsOnce
  <2>3. Len(Tail(s)) = 0
    BY <1>3, <1>10
  <2>4. OwnsMade(p)'
    BY <1>8, <2>2, <2>3 DEF OwnsMade, Made
  <2> QED
    BY <1>0, <1>1, <1>5, <1>6, <1>7, <2>2, <2>4
    DEF ProducerEffect, OpenTypes, s
<1> QED
  BY <1>9, <1>10

-----------------------------------------------------------------------------
(* No name exists at first.                                                *)
LEMMA OwnInit == OpenInit => OwnInv
<1> SUFFICES ASSUME OpenInit PROVE OwnInv
  OBVIOUS
<1>1. << >> \in Seq(Names) /\ << >> \in Seq(Producers \X Names)
  OBVIOUS
<1>2. linked \in [Names -> Producers \cup {None}] /\ \A n \in Names : linked[n] = None
  BY DEF OpenInit, Names
<1>3. field \in [Producers -> [SemNames -> Int]]
  BY DEF OpenInit, SemNames
<1>4. pc \in [Procs -> Labels] /\ \A x \in Procs : pc[x] = "start"
  BY DEF OpenInit, Labels
<1>5. desc \in [Procs -> Seq(Producers \X Names)] /\ todo \in [Producers -> Seq(Names)]
  BY <1>1 DEF OpenInit
<1>6. /\ mapped \in [Procs -> Producers \cup {None}] /\ sem \in [Procs -> {1, 2, 3}]
      /\ \A x \in Procs : mapped[x] = None /\ sem[x] = 1
  BY DEF OpenInit
<1>7. result \in [Procs -> Int]
  BY DEF OpenInit
<1>8. OpenTypes
  BY <1>2, <1>3, <1>4, <1>5, <1>6, <1>7 DEF OpenTypes
<1>9. ConsumerMapped /\ \A x \in Procs : FirstSem(x)
  BY <1>4, <1>6, ProcFacts DEF ConsumerMapped, FirstSem
<1>10. Ownership
  BY <1>2, <1>4, ProcFacts DEF Ownership, ListsOnce, OwnsMade, Made
<1> QED
  BY <1>8, <1>9, <1>10 DEF OwnInv, OpenTypeInv

(* A killed producer may leave names, but takes none from others.          *)
LEMMA KillKeepsOwnInv ==
  ASSUME OwnInv, NEW x \in Procs, Kill(x)
  PROVE  OwnInv'
<1>1. OnlyLocals(x) /\ pc'[x] = "killed" /\ mapped'[x] = None /\ FirstSem(x)'
  BY EndsEffect DEF Kill, Labels, FirstSem, OwnInv, OpenTypeInv
<1>2. UNCHANGED <<linked, field, todo>>
  BY DEF Kill, names
<1>3. CASE x \in Producers
  <2>1. ListsOnce(x)' /\ OwnsMade(x)'
    BY <1>1 DEF ListsOnce, OwnsMade
  <2>2. ProducerEffect(x)
    BY <1>1, <1>2, <2>1 DEF ProducerEffect, OwnInv, OpenTypeInv, OpenTypes
  <2> QED
    BY <1>3, <2>2, EffectKeepsOwnInv
<1>4. CASE x \in Consumers
  <2>1. OpenTypeInv'
    BY <1>1, <1>2, <1>4, ProcFacts, ZenonT(60)
    DEF OwnInv, OpenTypeInv, OpenTypes, ConsumerMapped, FirstSem, OnlyLocals
  <2>2. ProducersKept
    BY <1>1, <1>2, <1>4, ProcFacts DEF ProducersKept, OnlyLocals
  <2> QED
    BY <2>1, <2>2, KeptKeepsOwnership DEF OwnInv
<1> QED
  BY <1>3, <1>4, ProcFacts

(* Every step keeps the ownership of the names.                            *)
LEMMA OwnStep == OwnInv /\ [OpenNext]_openVars => OwnInv'
<1> SUFFICES ASSUME OwnInv, [OpenNext]_openVars PROVE OwnInv'
  OBVIOUS
<1>1. ASSUME NEW p \in Producers,
             \/ ShmCreate(p) \/ Ftruncate(p) \/ MapAndZero(p) \/ SemCreate(p)
             \/ SemStore(p) \/ ProducerQuits(p) \/ UnlinkNext(p)
      PROVE  OwnInv'
  <2>1. ProducerEffect(p)
    BY <1>1, ShmCreateEffect, SizeAndMapEffect, SemCreateEffect,
       SemStoreEffect, ProducerQuitsEffect, UnlinkEffect
  <2> QED
    BY <2>1, EffectKeepsOwnInv
<1>2. ASSUME NEW c \in Consumers, OpeningStep(c) PROVE OwnInv'
  BY <1>2, ConsumerFrame, KeptKeepsOwnership DEF OwnInv
<1>3. ASSUME NEW x \in Procs, Kill(x) PROVE OwnInv'
  BY <1>3, KillKeepsOwnInv
<1>4. CASE UNCHANGED openVars
  BY <1>4
  DEF openVars, OwnInv, OpenTypeInv, OpenTypes, ConsumerMapped, FirstSem, Ownership,
      ListsOnce, OwnsMade, Made, SemOrder
<1> QED
  BY <1>1, <1>2, <1>3, <1>4 DEF OpenNext, OpeningStep

(* The names that are linked to a producer are always those that it has    *)
(* made and not removed.                                                   *)
THEOREM OwnCorrect == OpenSpec => []OwnInv
BY OwnInit, OwnStep, PTL DEF OpenSpec

(* No name outlives its producer unless the producer was killed.           *)
THEOREM NamesAreNotStale == OpenSpec => []NoStaleNames
<1>1. OwnInv => NoStaleNames
  <2> SUFFICES ASSUME OwnInv, NEW n \in DOMAIN linked, linked[n] # None
               PROVE  pc[linked[n]] \notin {"start", "failed", "done"}
    BY DEF NoStaleNames
  <2>1. n \in Names /\ linked[n] \in Producers
    BY DEF OwnInv, OpenTypeInv, OpenTypes
  <2>2. pc[linked[n]] # "killed" => Made(linked[n], n)
    BY <2>1 DEF OwnInv, Ownership, OwnsMade
  <2> QED
    BY <2>1, <2>2 DEF Made
<1> QED
  BY <1>1, OwnCorrect, PTL

(* Only a producer that has made a name removes it.                        *)
THEOREM NamesAreRemovedByTheirOwner == OpenSpec => OnlyOwnNames
<1> DEFINE Own ==
      \A n \in DOMAIN linked :
        linked[n] # None /\ linked'[n] = None =>
          \E p \in Producers : linked[n] = p /\ pc[p] \in {"undo", "unlink"}
<1>1. OwnInv /\ [OpenNext]_openVars => [Own]_openVars
  <2> SUFFICES ASSUME OwnInv, OpenNext, NEW n \in DOMAIN linked,
                      linked[n] # None, linked'[n] = None
               PROVE  \E p \in Producers : linked[n] = p /\ pc[p] \in {"undo", "unlink"}
    OBVIOUS
  <2>0. n \in Names /\ linked \in [Names -> Producers \cup {None}]
    BY DEF OwnInv, OpenTypeInv, OpenTypes
  <2>1. ASSUME NEW p \in Producers, UnlinkNext(p)
        PROVE  linked[n] = p /\ pc[p] \in {"undo", "unlink"}
    <3>1. linked[Head(todo[p])] = p
      BY <2>1, UnlinkEffect
    <3>2. linked' = [linked EXCEPT ![Head(todo[p])] = None]
      BY <2>1 DEF UnlinkNext
    <3>3. n = Head(todo[p])
      BY <2>0, <3>2
    <3> QED
      BY <2>1, <3>1, <3>3 DEF UnlinkNext
  <2>2. ASSUME NEW p \in Producers, ShmCreate(p) \/ SemCreate(p) PROVE FALSE
    <3>1. p # None
      BY ProcFacts
    <3>2. \/ linked' = linked
          \/ linked' = [linked EXCEPT !["shm"] = p]
          \/ linked' = [linked EXCEPT ![SemOrder(p)[sem[p]]] = p]
      BY <2>2 DEF ShmCreate, SemCreate
    <3> QED
      BY <2>0, <3>1, <3>2
  <2>3. CASE linked' = linked
    BY <2>3
  <2> QED
    BY <2>1, <2>2, <2>3
    DEF OpenNext, Ftruncate, MapAndZero, SemStore, ProducerQuits, ShmOpen,
        ConsumerMaps, SemOpen, ConsumerStores, Check, ConsumerQuits, Kill, names
<1> QED
  BY <1>1, OwnCorrect, PTL DEF OpenSpec, OnlyOwnNames

-----------------------------------------------------------------------------
(* The pointers in the buffer.  They are descriptor numbers; they lead     *)
(* every process to the right semaphores because every process opens the   *)
(* same objects in the same order, starting from the same number.          *)

(* Process x has opened the buffer of p and k of its semaphores, in order. *)
Holds(x, p, k) ==
  /\ Len(desc[x]) = k + 1
  /\ \A i \in {1, 2, 3} : i <= k => desc[x][i + 1] = <<p, SemOrder(x)[i]>>

(* That many as its position in the code says.                             *)
Opened(x, p) ==
  /\ pc[x] \in {"size", "map"} => Holds(x, p, 0)
  /\ pc[x] = "open" => Holds(x, p, sem[x] - 1)
  /\ pc[x] = "store" /\ result[x] # Failed =>
       Holds(x, p, sem[x]) /\ result[x] = sem[x] + 1
  /\ pc[x] \in {"check", "run"} => Holds(x, p, 3)

(* What a producer has, and, as long as no consumer has disturbed its      *)
(* buffer, what it has stored there.                                       *)
ProducerHas(p) ==
  /\ pc[p] = "start" => desc[p] = << >>
  /\ pc[p] \in {"open", "store", "run"} => mapped[p] = p
  /\ pc[p] # "check" /\ Opened(p, p)

BufferHas(p) ==
  p \notin disturbed =>
    /\ \A i \in {1, 2, 3} :
         (pc[p] \in {"open", "store"} /\ i < sem[p]) \/ pc[p] = "run" =>
           field[p][SemOrder(p)[i]] = i + 1
    /\ pc[p] \in {"start", "size", "map", "open", "store"} =>
         \A c \in Consumers : mapped[c] # p

(* A consumer of a running producer that has not been disturbed.           *)
ConsumerHas(c) ==
  \A p \in Producers :
    mapped[c] = p /\ p \notin disturbed /\ pc[p] = "run" =>
      Opened(c, p) /\ (pc[c] = "store" => result[c] # Failed)

ReachInv ==
  /\ \A p \in Producers : ProducerHas(p) /\ BufferHas(p)
  /\ \A c \in Consumers : ConsumerHas(c)

(* Opening one more semaphore.                                             *)
LEMMA OpensNext ==
  ASSUME NEW x, NEW p \in Producers, NEW k \in {0, 1, 2},
         desc[x] \in Seq(Producers \X Names), Holds(x, p, k),
         desc'[x] = Append(desc[x], <<p, SemOrder(x)[k + 1]>>)
  PROVE  Holds(x, p, k + 1)'
<1> DEFINE d == <<p, SemOrder(x)[k + 1]>>
<1>1. k + 1 \in {1, 2, 3}
  OBVIOUS
<1>2. d \in Producers \X Names
  <2>1. SemOrder(x)[k + 1] \in Names
    BY <1>1, SemOrderFacts DEF SemNames, Names
  <2> QED
    BY <2>1
<1> HIDE DEF d
<1>3. /\ Len(desc'[x]) = Len(desc[x]) + 1
      /\ \A i \in 1 .. Len(desc[x]) : desc'[x][i] = desc[x][i]
      /\ desc'[x][Len(desc[x]) + 1] = d
  BY <1>2, AppendProperties DEF d
<1>4. Len(desc[x]) = k + 1
  BY DEF Holds
<1>5. ASSUME NEW i \in {1, 2, 3}, i <= k + 1
      PROVE  desc'[x][i + 1] = <<p, SemOrder(x)[i]>>
  <2>1. CASE i = k + 1
    BY <1>3, <1>4, <2>1 DEF d
  <2>2. CASE i <= k
    <3>1. i + 1 \in 1 .. Len(desc[x])
      BY <1>4, <2>2
    <3>2. desc[x][i + 1] = <<p, SemOrder(x)[i]>>
      BY <2>2 DEF Holds
    <3> QED
      BY <1>3, <3>1, <3>2
  <2>3. i = k + 1 \/ i <= k
    BY <1>5
  <2> QED
    BY <2>1, <2>2, <2>3
<1>6. \A i \in {1, 2, 3} : i <= k + 1 => desc'[x][i + 1] = <<p, SemOrder(x)[i]>>
  BY <1>5
<1>7. Len(desc'[x]) = (k + 1) + 1
  BY <1>3, <1>4
<1> QED
  BY <1>6, <1>7 DEF Holds, SemOrder

(* What has been opened does not depend on the other processes.            *)
LEMMA OpenedFrame ==
  ASSUME NEW x, NEW p,
         pc'[x] = pc[x], sem'[x] = sem[x], result'[x] = result[x],
         desc'[x] = desc[x]
  PROVE  Opened(x, p)' <=> Opened(x, p)
BY DEF Opened, Holds, SemOrder

(* A step of producer p leaves the other buffers and the consumers alone.  *)
LEMMA ReachByProducer ==
  ASSUME OwnInv, ReachInv, NEW p \in Producers, ProducerEffect(p),
         disturbed' = disturbed,
         \A q \in Producers \ {p} : field'[q] = field[q],
         pc'[p] = "run" => pc[p] = "store",
         ProducerHas(p)', BufferHas(p)'
  PROVE  ReachInv'
<1>0. \A y \in Procs \ {p} :
        /\ pc'[y] = pc[y] /\ sem'[y] = sem[y] /\ result'[y] = result[y]
        /\ desc'[y] = desc[y] /\ mapped'[y] = mapped[y]
  BY DEF ProducerEffect, OnlyLocals
<1>1. ASSUME NEW q \in Producers, q # p PROVE ProducerHas(q)' /\ BufferHas(q)'
  <2>1. q \in Procs \ {p} /\ \A c \in Consumers : c \in Procs \ {p}
    BY <1>1, ProcFacts
  <2>2. ProducerHas(q) /\ BufferHas(q)
    BY DEF ReachInv
  <2>3. ProducerHas(q)'
    BY <1>0, <2>1, <2>2, OpenedFrame DEF ProducerHas
  <2>4. BufferHas(q)'
    BY <1>0, <1>1, <2>1, <2>2 DEF BufferHas, SemOrder
  <2> QED
    BY <2>3, <2>4
<1>2. ASSUME NEW c \in Consumers PROVE ConsumerHas(c)'
  <2>1. c \in Procs \ {p} /\ ConsumerHas(c)
    BY ProcFacts DEF ReachInv
  <2> SUFFICES ASSUME NEW q \in Producers, mapped'[c] = q, q \notin disturbed',
                      pc'[q] = "run"
               PROVE  Opened(c, q)' /\ (pc'[c] = "store" => result'[c] # Failed)
    BY DEF ConsumerHas
  <2>2. q # p
    BY <1>0, <2>1 DEF ReachInv, BufferHas
  <2>3. pc[q] = "run" /\ mapped[c] = q
    BY <1>0, <2>1, <2>2, ProcFacts
  <2>4. Opened(c, q) /\ (pc[c] = "store" => result[c] # Failed)
    BY <2>1, <2>3 DEF ConsumerHas
  <2> QED
    BY <1>0, <2>1, <2>4, OpenedFrame
<1> QED
  BY <1>1, <1>2 DEF ReachInv

(* A producer opens and stores the descriptors in order.                   *)
LEMMA ReachProducerSteps ==
  ASSUME OwnInv, ReachInv, NEW p \in Producers, ProducerEffect(p),
         \/ ShmCreate(p) \/ Ftruncate(p) \/ MapAndZero(p) \/ SemCreate(p)
         \/ SemStore(p) \/ ProducerQuits(p) \/ UnlinkNext(p)
  PROVE  ReachInv'
<1>0. /\ p \in Procs /\ OpenTypes /\ FirstSem(p) /\ ProducerHas(p) /\ BufferHas(p)
      /\ pc' \in [Procs -> Labels] /\ sem[p] \in {1, 2, 3}
      /\ desc[p] \in Seq(Producers \X Names)
  BY ProcFacts DEF OwnInv, OpenTypeInv, ReachInv, ProducerEffect, OnlyLocals, OpenTypes
<1>1. disturbed' = disturbed /\ \A c \in Consumers : mapped'[c] = mapped[c]
  BY ProcFacts DEF ProducerEffect, OnlyLocals, ShmCreate, Ftruncate, MapAndZero,
     SemCreate, SemStore, ProducerQuits, UnlinkNext
<1>2. \A q \in Producers \ {p} : field'[q] = field[q]
  BY <1>0 DEF ShmCreate, Ftruncate, MapAndZero, SemCreate, SemStore,
     ProducerQuits, UnlinkNext, OpenTypes
<1>3. SUFFICES (pc'[p] = "run" => pc[p] = "store") /\ ProducerHas(p)' /\ BufferHas(p)'
  BY <1>1, <1>2, ReachByProducer
<1>4. CASE pc'[p] \in {"undo", "unlink", "failed", "done"}
  BY <1>4 DEF ProducerHas, BufferHas, Opened
<1>5. CASE ShmCreate(p) /\ pc'[p] \notin {"failed"}
  <2>1. /\ pc[p] = "start" /\ pc'[p] = "size"
        /\ desc'[p] = Append(desc[p], <<p, "shm">>)
    BY <1>0, <1>5 DEF ShmCreate, Goto, Ends, OpenTypes
  <2>2. Len(desc[p]) = 0
    BY <1>0, <2>1 DEF ProducerHas
  <2>3. Len(desc'[p]) = 1
    <3>1. <<p, "shm">> \in Producers \X Names
      BY DEF Names
    <3> QED
      BY <1>0, <2>1, <2>2, <3>1, AppendProperties
  <2>4. Holds(p, p, 0)'
    BY <2>3 DEF Holds
  <2> QED
    BY <1>0, <1>1, <2>1, <2>4 DEF ProducerHas, BufferHas, Opened
<1>6. CASE Ftruncate(p) /\ pc'[p] # "undo"
  <2>1. /\ pc[p] = "size" /\ pc'[p] = "map" /\ desc' = desc
    BY <1>0, <1>6 DEF Ftruncate, Goto, Undo, OpenTypes
  <2>2. Holds(p, p, 0)'
    BY <1>0, <2>1 DEF Holds, ProducerHas, Opened, SemOrder
  <2> QED
    BY <1>0, <1>1, <2>1, <2>2 DEF ProducerHas, BufferHas, Opened
<1>7. CASE MapAndZero(p) /\ pc'[p] # "undo"
  <2>1. /\ pc[p] = "map" /\ pc'[p] = "open" /\ desc' = desc /\ mapped'[p] = p
        /\ sem'[p] = 1
    BY <1>0, <1>7 DEF MapAndZero, Goto, Undo, OpenTypes, FirstSem
  <2>2. Holds(p, p, 0)'
    BY <1>0, <2>1 DEF Holds, ProducerHas, Opened, SemOrder
  <2>3. ProducerHas(p)'
    BY <2>1, <2>2 DEF ProducerHas, Opened
  <2>4. BufferHas(p)'
    BY <1>0, <1>1, <2>1 DEF BufferHas
  <2> QED
    BY <2>1, <2>3, <2>4
<1>8. CASE SemCreate(p)
  <2>1. /\ pc[p] = "open" /\ pc'[p] = "store" /\ field' = field
        /\ sem' = sem /\ mapped' = mapped
    BY <1>0, <1>8 DEF SemCreate, Goto, OpenTypes
  <2>2. ASSUME result'[p] # Failed
        PROVE  Holds(p, p, sem[p])' /\ result'[p] = sem[p] + 1
    <3>1. /\ desc'[p] = Append(desc[p], <<p, SemOrder(p)[sem[p]]>>)
          /\ result'[p] = Len(desc[p]) + 1
      BY <1>0, <1>8, <2>2 DEF SemCreate, OpenTypes
    <3>2. Holds(p, p, sem[p] - 1)
      BY <1>0, <2>1 DEF ProducerHas, Opened
    <3>3. PICK k \in {0, 1, 2} : k = sem[p] - 1 /\ k + 1 = sem[p]
      BY <1>0
    <3>4. Holds(p, p, k)
      BY <3>2, <3>3
    <3>5. Holds(p, p, k + 1)'
      BY <1>0, <3>1, <3>3, <3>4, OpensNext
    <3>6. k + 1 = sem'[p] /\ Len(desc[p]) = k + 1
      BY <2>1, <3>3, <3>4 DEF Holds
    <3> QED
      BY <3>1, <3>3, <3>5, <3>6
  <2>3. ProducerHas(p)'
    BY <1>0, <2>1, <2>2 DEF ProducerHas, Opened
  <2>4. BufferHas(p)'
    BY <1>0, <1>1, <2>1 DEF BufferHas, SemOrder
  <2> QED
    BY <2>1, <2>3, <2>4
<1>9. CASE SemStore(p) /\ pc'[p] # "undo"
  <2>1. /\ pc[p] = "store" /\ result[p] # Failed
        /\ field' = [field EXCEPT ![p][SemOrder(p)[sem[p]]] = result[p]]
        /\ pc'[p] = IF sem[p] = 3 THEN "run" ELSE "open"
        /\ sem'[p] = IF sem[p] = 3 THEN sem[p] ELSE sem[p] + 1
        /\ mapped' = mapped /\ desc' = desc
    BY <1>0, <1>9 DEF SemStore, Goto, Undo, OpenTypes
  <2>2. Holds(p, p, sem[p]) /\ result[p] = sem[p] + 1 /\ mapped[p] = p
    BY <1>0, <2>1 DEF ProducerHas, Opened
  <2>3. ProducerHas(p)'
    <3>1. CASE sem[p] = 3
      <4>1. pc'[p] = "run" /\ Holds(p, p, 3)'
        BY <2>1, <2>2, <3>1 DEF Holds, SemOrder
      <4> QED
        BY <2>1, <2>2, <4>1 DEF ProducerHas, Opened
    <3>2. CASE sem[p] # 3
      <4>1. pc'[p] = "open" /\ sem'[p] = sem[p] + 1 /\ sem'[p] - 1 = sem[p]
        BY <1>0, <2>1, <3>2
      <4>2. Holds(p, p, sem[p] - 1)'
        BY <2>1, <2>2, <4>1 DEF Holds, SemOrder
      <4> QED
        BY <2>1, <2>2, <4>1, <4>2 DEF ProducerHas, Opened
    <3> QED
      BY <3>1, <3>2
  <2>4. BufferHas(p)'
    <3> SUFFICES ASSUME p \notin disturbed PROVE BufferHas(p)'
      BY <1>1 DEF BufferHas
    <3>1. /\ \A i \in {1, 2, 3} : i < sem[p] => field[p][SemOrder(p)[i]] = i + 1
          /\ \A c \in Consumers : mapped[c] # p
      BY <1>0, <2>1 DEF BufferHas
    <3>2. ASSUME NEW i \in {1, 2, 3}, i <= sem[p]
          PROVE  field'[p][SemOrder(p)[i]] = i + 1
      <4>1. SemOrder(p)[i] \in SemNames /\ SemOrder(p)[sem[p]] \in SemNames
            /\ (SemOrder(p)[i] = SemOrder(p)[sem[p]] => i = sem[p])
        BY <1>0, SemOrderFacts
      <4>2. field[p] \in [SemNames -> Int]
        BY <1>0 DEF OpenTypes
      <4>3. field'[p] = [field[p] EXCEPT ![SemOrder(p)[sem[p]]] = result[p]]
        BY <1>0, <2>1 DEF OpenTypes
      <4>4. CASE i = sem[p]
        BY <2>2, <4>1, <4>2, <4>3, <4>4
      <4>5. CASE i # sem[p]
        <5>1. field'[p][SemOrder(p)[i]] = field[p][SemOrder(p)[i]]
          BY <4>1, <4>2, <4>3, <4>5
        <5> QED
          BY <1>0, <3>1, <3>2, <4>5, <5>1
      <4> QED
        BY <4>4, <4>5
    <3>3. \A i \in {1, 2, 3} : i <= sem[p] => field'[p][SemOrder(p)[i]] = i + 1
      BY <3>2
    <3> QED
      BY <1>0, <1>1, <2>1, <3>1, <3>3 DEF BufferHas, SemOrder
  <2> QED
    BY <2>1, <2>3, <2>4
<1>10. CASE UnlinkNext(p)
  BY <1>0, <1>10, <1>4 DEF UnlinkNext, Ends, Goto, OpenTypes
<1>11. CASE ProducerQuits(p)
  BY <1>0, <1>11, <1>4 DEF ProducerQuits, Goto, OpenTypes
<1> QED
  BY <1>4, <1>5, <1>6, <1>7, <1>8, <1>9, <1>10, <1>11

(* The store of a consumer repeats what the producer has stored.           *)
LEMMA BufferByConsumer ==
  ASSUME OwnInv, ReachInv, NEW c \in Consumers, OpeningStep(c),
         NEW p \in Producers
  PROVE  BufferHas(p)'
<1>0. /\ c \in Procs /\ OpenTypes /\ ConsumerMapped /\ BufferHas(p) /\ ConsumerHas(c)
      /\ sem[c] \in {1, 2, 3}
  BY ProcFacts DEF OwnInv, OpenTypeInv, ReachInv, OpenTypes
<1>1. /\ pc'[p] = pc[p] /\ sem'[p] = sem[p]
      /\ \A d \in Consumers \ {c} : mapped'[d] = mapped[d]
  BY ConsumerFrame, ProcFacts DEF OwnInv, ProducersKept, OnlyLocals
<1> SUFFICES ASSUME p \notin disturbed' PROVE BufferHas(p)'
  BY DEF BufferHas
<1>2. p \notin disturbed
  BY DEF OpeningStep, ShmOpen, ConsumerMaps, SemOpen, ConsumerStores, Check,
         ConsumerQuits
<1>3. ASSUME pc[p] \in {"start", "size", "map", "open", "store"}
      PROVE  mapped'[c] # p
  <2>1. mapped[c] # p
    BY <1>0, <1>2, <1>3 DEF BufferHas
  <2>2. mapped' = mapped \/ mapped'[c] = None
        \/ (ShmOpen(c) /\ mapped'[c] = linked["shm"] /\ linked["shm"] # None
            /\ disturbed' = IF pc[linked["shm"]] = "run" /\ desc[c] = << >>
                            THEN disturbed ELSE disturbed \cup {linked["shm"]})
    BY <1>0 DEF OpeningStep, ShmOpen, ConsumerMaps, SemOpen, ConsumerStores,
         Check, ConsumerQuits, Retry, Ends, OpenTypes
  <2> QED
    BY <1>3, <2>1, <2>2, ProcFacts
<1>4. ASSUME NEW i \in {1, 2, 3},
             (pc[p] \in {"open", "store"} /\ i < sem[p]) \/ pc[p] = "run"
      PROVE  field'[p][SemOrder(p)[i]] = i + 1
  <2>1. field[p][SemOrder(p)[i]] = i + 1
    BY <1>0, <1>2, <1>4 DEF BufferHas
  <2>2. CASE ~(ConsumerStores(c) /\ mapped[c] = p)
    <3>1. field'[p] = field[p]
      BY <1>0, <2>2 DEF OpeningStep, ShmOpen, ConsumerMaps, SemOpen,
         ConsumerStores, Check, ConsumerQuits, OpenTypes
    <3> QED
      BY <2>1, <3>1
  <2>3. CASE ConsumerStores(c) /\ mapped[c] = p
    <3>1. pc[p] = "run" /\ pc[c] = "store"
      BY <1>0, <1>2, <1>4, <2>3 DEF BufferHas, ConsumerStores
    <3>2. result[c] = sem[c] + 1
      BY <1>0, <1>2, <2>3, <3>1 DEF ConsumerHas, Opened
    <3>3. SemOrder(p)[i] \in SemNames /\ SemOrder(p)[sem[c]] \in SemNames
          /\ (SemOrder(p)[i] = SemOrder(p)[sem[c]] => i = sem[c])
      BY <1>0, SemOrderFacts
    <3>4. field[p] \in [SemNames -> Int] /\ SemOrder(c) = SemOrder(p)
      BY <1>0 DEF OpenTypes, SemOrder
    <3>5. field'[p] = [field[p] EXCEPT ![SemOrder(p)[sem[c]]] = result[c]]
      BY <1>0, <2>3, <3>4 DEF OpenTypes, ConsumerStores
    <3>6. CASE i = sem[c]
      BY <3>2, <3>3, <3>4, <3>5, <3>6
    <3>7. CASE i # sem[c]
      BY <2>1, <3>3, <3>4, <3>5, <3>7
    <3> QED
      BY <3>6, <3>7
  <2> QED
    BY <2>2, <2>3
<1>5. \A d \in Consumers :
        pc[p] \in {"start", "size", "map", "open", "store"} => mapped'[d] # p
  BY <1>0, <1>1, <1>2, <1>3 DEF BufferHas
<1> QED
  BY <1>1, <1>4, <1>5 DEF BufferHas, SemOrder

(* A consumer of an undisturbed buffer opens the same objects in the same  *)
(* order as the producer.                                                  *)
LEMMA ReachConsumerSteps ==
  ASSUME OwnInv, ReachInv, NEW c \in Consumers, OpeningStep(c)
  PROVE  ReachInv'
<1>0. /\ c \in Procs /\ OpenTypes /\ ConsumerMapped /\ ConsumerHas(c) /\ FirstSem(c)
      /\ sem[c] \in {1, 2, 3} /\ desc[c] \in Seq(Producers \X Names)
  BY ProcFacts DEF OwnInv, OpenTypeInv, ReachInv, OpenTypes
<1>1. /\ \A y \in Procs \ {c} :
           /\ pc'[y] = pc[y] /\ sem'[y] = sem[y] /\ result'[y] = result[y]
           /\ desc'[y] = desc[y] /\ mapped'[y] = mapped[y]
      /\ \A p \in Producers : p \in Procs \ {c}
  BY ConsumerFrame, ProcFacts DEF OwnInv, OnlyLocals
<1>2. disturbed \subseteq disturbed'
  BY DEF OpeningStep, ShmOpen, ConsumerMaps, SemOpen, ConsumerStores, Check,
         ConsumerQuits
<1>3. ASSUME NEW p \in Producers PROVE ProducerHas(p)'
  BY <1>1, OpenedFrame DEF ReachInv, ProducerHas
<1>4. ASSUME NEW d \in Consumers, d # c PROVE ConsumerHas(d)'
  <2>1. d \in Procs \ {c} /\ ConsumerHas(d)
    BY <1>4, ProcFacts DEF ReachInv
  <2> QED
    BY <1>1, <1>2, <2>1, OpenedFrame DEF ConsumerHas
<1>5. ConsumerHas(c)'
  <2> SUFFICES ASSUME NEW p \in Producers, mapped'[c] = p, p \notin disturbed',
                      pc'[p] = "run"
               PROVE  Opened(c, p)' /\ (pc'[c] = "store" => result'[c] # Failed)
    BY DEF ConsumerHas
  <2>0. pc[p] = "run" /\ p \notin disturbed /\ p # None
    BY <1>1, <1>2, ProcFacts
  <2>1. CASE mapped'[c] = None
    BY <2>0, <2>1
  <2>2. CASE ShmOpen(c) /\ mapped'[c] # None
    <3>1. /\ linked["shm"] = p /\ desc'[c] = Append(desc[c], <<p, "shm">>)
          /\ pc'[c] = "map" /\ desc[c] = << >>
      BY <1>0, <2>2, RetryEffect DEF ShmOpen, Goto, OpenTypes
    <3>2. Len(desc[c]) = 0
      BY <3>1
    <3>3. <<p, "shm">> \in Producers \X Names
      BY DEF Names
    <3>4. Len(desc'[c]) = 1
      BY <1>0, <3>1, <3>2, <3>3, AppendProperties
    <3>5. Holds(c, p, 0)'
      BY <3>4 DEF Holds
    <3> QED
      BY <3>1, <3>5 DEF Opened
  <2>3. CASE ~ShmOpen(c) /\ mapped'[c] # None
    <3>1. mapped[c] = p /\ mapped' = mapped /\ ~Retry(c) /\ ~ConsumerQuits(c)
      BY <1>0, <2>3, RetryEffect DEF OpeningStep, ConsumerMaps, SemOpen,
         ConsumerStores, Check, ConsumerQuits, Ends, OpenTypes
    <3>2. Opened(c, p) /\ (pc[c] = "store" => result[c] # Failed)
      BY <1>0, <2>0, <3>1 DEF ConsumerHas
    <3>3. CASE ConsumerMaps(c)
      <4>1. pc[c] = "map" /\ pc'[c] = "open" /\ sem'[c] = 1 /\ desc' = desc
        BY <1>0, <3>1, <3>3 DEF ConsumerMaps, Goto, OpenTypes, FirstSem
      <4>2. Holds(c, p, 0)'
        BY <3>2, <4>1 DEF Opened, Holds, SemOrder
      <4> QED
        BY <4>1, <4>2 DEF Opened
    <3>4. CASE SemOpen(c)
      <4>1. pc[c] = "open" /\ pc'[c] = "store" /\ sem'[c] = sem[c]
        BY <1>0, <3>4 DEF SemOpen, Goto, OpenTypes
      <4>2. linked[SemOrder(c)[sem[c]]] = p
        <5>1. SemOrder(c)[sem[c]] \in Names
          BY <1>0, SemOrderFacts DEF SemNames, Names
        <5> QED
          BY <2>0, <5>1 DEF OwnInv, Ownership, OwnsMade, Made
      <4>3. /\ desc'[c] = Append(desc[c], <<p, SemOrder(c)[sem[c]]>>)
            /\ result'[c] = Len(desc[c]) + 1
        BY <1>0, <3>1, <3>4, <4>2 DEF SemOpen, OpenTypes
      <4>4. PICK k \in {0, 1, 2} : k = sem[c] - 1 /\ k + 1 = sem[c]
        BY <1>0
      <4>5. Holds(c, p, k)
        BY <3>2, <4>1, <4>4 DEF Opened
      <4>6. Holds(c, p, k + 1)'
        BY <1>0, <4>3, <4>4, <4>5, OpensNext
      <4>7. k + 1 = sem'[c] /\ result'[c] = sem'[c] + 1
        BY <4>1, <4>3, <4>4, <4>5 DEF Holds
      <4>8. result'[c] # Failed
        BY <4>4, <4>7 DEF Failed
      <4> QED
        BY <4>1, <4>6, <4>7, <4>8 DEF Opened
    <3>5. CASE ConsumerStores(c)
      <4>1. /\ pc[c] = "store" /\ desc' = desc /\ result' = result
            /\ pc'[c] = IF sem[c] = 3 THEN "check" ELSE "open"
            /\ sem'[c] = IF sem[c] = 3 THEN sem[c] ELSE sem[c] + 1
        BY <1>0, <3>5 DEF ConsumerStores, Goto, OpenTypes
      <4>2. Holds(c, p, sem[c])
        BY <3>2, <4>1 DEF Opened
      <4>3. CASE sem[c] = 3
        <5>1. pc'[c] = "check" /\ Holds(c, p, 3)'
          BY <4>1, <4>2, <4>3 DEF Holds, SemOrder
        <5> QED
          BY <5>1 DEF Opened
      <4>4. CASE sem[c] # 3
        <5>1. pc'[c] = "open" /\ sem'[c] - 1 = sem[c]
          BY <1>0, <4>1, <4>4
        <5>2. Holds(c, p, sem[c] - 1)'
          BY <4>1, <4>2, <5>1 DEF Holds, SemOrder
        <5> QED
          BY <5>1, <5>2 DEF Opened
      <4> QED
        BY <4>3, <4>4
    <3>6. CASE Check(c)
      <4>1. pc[c] = "check" /\ pc'[c] = "run" /\ desc' = desc
        BY <1>0, <3>1, <3>6 DEF Check, Goto, OpenTypes
      <4>2. Holds(c, p, 3)'
        BY <3>2, <4>1 DEF Opened, Holds, SemOrder
      <4> QED
        BY <4>1, <4>2 DEF Opened
    <3> QED
      BY <2>3, <3>1, <3>3, <3>4, <3>5, <3>6 DEF OpeningStep
  <2> QED
    BY <2>1, <2>2, <2>3
<1> QED
  BY <1>3, <1>4, <1>5, BufferByConsumer DEF ReachInv

(* Every step keeps what is stored in line with what is opened.            *)
LEMMA ReachStep == OwnInv /\ ReachInv /\ [OpenNext]_openVars => ReachInv'
<1> SUFFICES ASSUME OwnInv, ReachInv, [OpenNext]_openVars PROVE ReachInv'
  OBVIOUS
<1>1. ASSUME NEW p \in Producers,
             \/ ShmCreate(p) \/ Ftruncate(p) \/ MapAndZero(p) \/ SemCreate(p)
             \/ SemStore(p) \/ ProducerQuits(p) \/ UnlinkNext(p)
      PROVE  ReachInv'
  <2>1. ProducerEffect(p)
    BY <1>1, ShmCreateEffect, SizeAndMapEffect, SemCreateEffect,
       SemStoreEffect, ProducerQuitsEffect, UnlinkEffect
  <2> QED
    BY <1>1, <2>1, ReachProducerSteps
<1>2. ASSUME NEW c \in Consumers, OpeningStep(c) PROVE ReachInv'
  BY <1>2, ReachConsumerSteps
<1>3. ASSUME NEW x \in Procs, Kill(x) PROVE ReachInv'
  <2>1. OnlyLocals(x) /\ pc'[x] = "killed" /\ mapped'[x] = None /\ FirstSem(x)'
    BY <1>3, EndsEffect DEF Kill, Labels, FirstSem, OwnInv, OpenTypeInv
  <2>2. UNCHANGED <<linked, field, todo, disturbed>>
    BY <1>3 DEF Kill, names
  <2>3. CASE x \in Producers
    <3>1. ProducerHas(x)' /\ BufferHas(x)'
      BY <2>1 DEF ProducerHas, BufferHas, Opened
    <3>2. ProducerEffect(x)
      BY <2>1, <2>2 DEF ProducerEffect, OwnInv, OpenTypeInv, OpenTypes, ListsOnce,
         OwnsMade
    <3> QED
      BY <2>1, <2>2, <2>3, <3>1, <3>2, ReachByProducer
  <2>4. CASE x \in Consumers
    <3>1. /\ \A y \in Procs \ {x} :
               /\ pc'[y] = pc[y] /\ sem'[y] = sem[y] /\ result'[y] = result[y]
               /\ desc'[y] = desc[y] /\ mapped'[y] = mapped[y]
          /\ \A p \in Producers : p \in Procs \ {x} /\ p # None
      BY <2>1, <2>4, ProcFacts DEF OnlyLocals
    <3>2. ASSUME NEW p \in Producers PROVE ProducerHas(p)'
      BY <3>1, OpenedFrame DEF ReachInv, ProducerHas
    <3>3. ASSUME NEW p \in Producers PROVE BufferHas(p)'
      <4>1. BufferHas(p) /\ pc'[p] = pc[p] /\ sem'[p] = sem[p] /\ field' = field
        BY <2>2, <3>1 DEF ReachInv
      <4>2. \A c \in Consumers : mapped'[c] = mapped[c] \/ mapped'[c] # p
        BY <2>1, <3>1, ProcFacts
      <4> QED
        BY <2>2, <4>1, <4>2 DEF BufferHas, SemOrder
    <3>4. ASSUME NEW c \in Consumers PROVE ConsumerHas(c)'
      <4>1. CASE c = x
        BY <2>1, <3>1, <4>1 DEF ConsumerHas
      <4>2. CASE c # x
        <5>1. c \in Procs \ {x} /\ ConsumerHas(c)
          BY <4>2, ProcFacts DEF ReachInv
        <5> QED
          BY <2>2, <3>1, <5>1, OpenedFrame DEF ConsumerHas
      <4> QED
        BY <4>1, <4>2
    <3> QED
      BY <3>2, <3>3, <3>4 DEF ReachInv
  <2> QED
    BY <2>3, <2>4, ProcFacts
<1>4. CASE UNCHANGED openVars
  BY <1>4 DEF openVars, ReachInv, ProducerHas, BufferHas, ConsumerHas, Opened, Holds,
     SemOrder
<1> QED
  BY <1>1, <1>2, <1>3, <1>4 DEF OpenNext, OpeningStep

(* The pointers stored by one process lead another to the right semaphore. *)
THEOREM PointersAreRight == OpenSpec => []RightSemaphores
<1>1. OpenInit => ReachInv
  <2> SUFFICES ASSUME OpenInit PROVE ReachInv
    OBVIOUS
  <2>1. \A x \in Procs : pc[x] = "start" /\ mapped[x] = None /\ desc[x] = << >>
    BY DEF OpenInit
  <2> QED
    BY <2>1, ProcFacts
    DEF ReachInv, ProducerHas, BufferHas, ConsumerHas, Opened
<1>2. OwnInv /\ ReachInv => RightSemaphores
  <2> SUFFICES ASSUME OwnInv, ReachInv, NEW x \in Procs, pc[x] = "run",
                      pc[mapped[x]] = "run", mapped[x] \notin disturbed,
                      NEW n \in {"full", "empty", "mutex"}
               PROVE  Reached(x, n) = <<mapped[x], n>>
    BY DEF RightSemaphores
  <2> DEFINE p == mapped[x]
  <2>1. p \in Producers /\ Holds(x, p, 3)
    <3>1. CASE x \in Producers
      BY <3>1 DEF ReachInv, ProducerHas, Opened
    <3>2. CASE x \in Consumers
      BY <3>2 DEF OwnInv, OpenTypeInv, ConsumerMapped, ReachInv, ConsumerHas, Opened
    <3> QED
      BY <3>1, <3>2, ProcFacts
  <2>2. PICK i \in {1, 2, 3} : n = SemOrder(p)[i]
    BY SemOrderFacts
  <2>3. field[p][n] = i + 1
    BY <2>1, <2>2 DEF ReachInv, BufferHas
  <2>4. Len(desc[x]) = 4 /\ desc[x][i + 1] = <<p, n>>
    BY <2>1, <2>2 DEF Holds, SemOrder
  <2>5. DOMAIN desc[x] = 1 .. 4
    BY <2>4, LenProperties DEF OwnInv, OpenTypeInv, OpenTypes
  <2>6. i + 1 \in 1 .. 4
    OBVIOUS
  <2> QED
    BY <2>3, <2>4, <2>5, <2>6 DEF Reached
<1> QED
  BY <1>1, <1>2, OwnCorrect, ReachStep, PTL DEF OpenSpec

-----------------------------------------------------------------------------
(***************************************************************************)
(* Using the buffer.                                                       *)
(*                                                                         *)
(* Every consumer posts sem_empty for what it has read, so that two of     *)
(* them free each slot twice: what holds for a consumer depends on whether *)
(* others have read too, and is proved for any number of consumers.        *)
(*                                                                         *)
(* The argument: as long as c alone has read, sem_empty is exact, and the  *)
(* producer writes only to a slot whose message c has read, so the slots   *)
(* from my_read_pos up to write_pos hold exactly the messages of these     *)
(* positions.  Whoever reads, what a slot holds only grows.                *)
(***************************************************************************)

(* Positions that are less than a ring apart have different slots.         *)
LEMMA MessageSlotsDiffer ==
  ASSUME NEW a \in Nat, NEW b \in Nat, a < b, b - a < MAX_MESSAGES
  PROVE  SlotOf(a) # SlotOf(b)
BY BufferAssumption, RemaindersDiffer DEF SlotOf

(* The slot of a position is a slot of the ring.                           *)
LEMMA MessageSlotInRing ==
  ASSUME NEW a \in Nat
  PROVE  SlotOf(a) \in 0 .. MAX_MESSAGES - 1
BY BufferAssumption, DivMod DEF SlotOf

-----------------------------------------------------------------------------
(* The producer holds the mutex exactly between its wait and its post, and *)
(* has a message left to write while it writes.                            *)
ProducerInv ==
  /\ sem_mutex = IF producer \in {"copy", "advance", "post_mutex"} THEN 0 ELSE 1
  /\ producer \in {"empty", "mutex", "copy", "advance"} => write_pos < num_messages

TypeInv == TypeOK /\ ProducerInv

(* The zeroed buffer and the semaphores have their types.                  *)
LEMMA TypeInit == Init => TypeInv
<1> SUFFICES ASSUME Init PROVE TypeInv
  OBVIOUS
<1>1. 0 \in 0 .. num_messages /\ 0 \in 0 .. MAX_IDLE /\ MAX_MESSAGES \in Nat
      /\ 1 \in 0 .. 1
  BY BufferAssumption
<1> QED
  BY <1>1 DEF Init, TypeInv, TypeOK, ProducerInv

(* Every step keeps the types: one case per action.                        *)
LEMMA TypeStep == TypeInv /\ [Next]_vars => TypeInv'
<1> SUFFICES ASSUME TypeInv, [Next]_vars PROVE TypeInv'
  OBVIOUS
<1> USE BufferAssumption
<1>1. CASE ProducerLoop
  BY <1>1 DEF TypeInv, TypeOK, ProducerInv, ProducerLoop, shared, consumerState
<1>2. CASE WaitEmpty
  BY <1>2 DEF TypeInv, TypeOK, ProducerInv, WaitEmpty, consumerState
<1>3. CASE WaitEmptyInterrupted \/ ProducerLeaves \/ SignalProducer
  BY <1>3 DEF TypeInv, TypeOK, ProducerInv, WaitEmptyInterrupted, ProducerLeaves,
     SignalProducer, shared, consumerState
<1>4. CASE WaitMutex
  BY <1>4 DEF TypeInv, TypeOK, ProducerInv, WaitMutex, consumerState
<1>5. CASE WaitMutexInterrupted
  BY <1>5 DEF TypeInv, TypeOK, ProducerInv, WaitMutexInterrupted, consumerState
<1>6. CASE CopyBegins
  <2>1. data' \in [0 .. MAX_MESSAGES - 1 -> Nat \cup {Torn, Blank}]
    BY <1>6 DEF TypeInv, TypeOK, CopyBegins
  <2> QED
    BY <1>6, <2>1 DEF TypeInv, TypeOK, ProducerInv, CopyBegins, consumerState
<1>7. CASE CopyEnds
  <2>1. write_pos \in Nat
    BY DEF TypeInv, TypeOK
  <2>2. data' \in [0 .. MAX_MESSAGES - 1 -> Nat \cup {Torn, Blank}]
    BY <1>7, <2>1 DEF TypeInv, TypeOK, CopyEnds
  <2>3. write_pos' \in 0 .. num_messages
    BY <1>7, <2>1 DEF TypeInv, ProducerInv, CopyEnds
  <2> QED
    BY <1>7, <2>2, <2>3 DEF TypeInv, TypeOK, ProducerInv, CopyEnds, consumerState
<1>8. CASE PostMutex
  BY <1>8 DEF TypeInv, TypeOK, ProducerInv, PostMutex, consumerState
<1>9. CASE PostFull
  BY <1>9 DEF TypeInv, TypeOK, ProducerInv, PostFull, consumerState
<1>10. ASSUME NEW c \in Readers,
              Attach(c) \/ CheckPosition(c) \/ WaitFullInterrupted(c) \/ Leave(c)
                \/ SignalConsumer(c)
       PROVE  TypeInv'
  BY <1>10 DEF TypeInv, TypeOK, ProducerInv, Attach, CheckPosition,
     WaitFullInterrupted, Leave, SignalConsumer, shared
<1>11. ASSUME NEW c \in Readers, Idle(c) \/ ReadCall(c) PROVE TypeInv'
  <2>1. idle_count' \in [Readers -> 0 .. MAX_IDLE]
    <3>1. idle_count[c] \in 0 .. MAX_IDLE
      BY DEF TypeInv, TypeOK
    <3>2. 0 \in 0 .. MAX_IDLE /\ (~GivesUp(c) => idle_count[c] + 1 \in 0 .. MAX_IDLE)
      BY <3>1 DEF GivesUp
    <3>3. \E n \in 0 .. MAX_IDLE : idle_count' = [idle_count EXCEPT ![c] = n]
      BY <1>11, <3>2 DEF Idle, ReadCall
    <3> QED
      BY <3>3 DEF TypeInv, TypeOK
  <2> QED
    BY <1>11, <2>1 DEF TypeInv, TypeOK, ProducerInv, Idle, ReadCall, shared
<1>12. ASSUME NEW c \in Readers, WaitFull(c) PROVE TypeInv'
  BY <1>12 DEF TypeInv, TypeOK, ProducerInv, WaitFull
<1>13. ASSUME NEW c \in Readers, CopyOut(c) PROVE TypeInv'
  <2>1. my_read_pos[c] \in Nat /\ SlotOf(my_read_pos[c]) \in 0 .. MAX_MESSAGES - 1
    BY MessageSlotInRing DEF TypeInv, TypeOK
  <2>2. msg' \in [Readers -> Nat \cup {Torn, Blank}]
    BY <1>13, <2>1 DEF TypeInv, TypeOK, CopyOut
  <2>3. my_read_pos' \in [Readers -> Nat]
    BY <1>13, <2>1 DEF TypeInv, TypeOK, CopyOut
  <2> QED
    BY <1>13, <2>2, <2>3 DEF TypeInv, TypeOK, ProducerInv, CopyOut, shared
<1>14. ASSUME NEW c \in Readers, PostEmpty(c) PROVE TypeInv'
  BY <1>14 DEF TypeInv, TypeOK, ProducerInv, PostEmpty
<1>15. CASE UNCHANGED vars
  BY <1>15 DEF TypeInv, TypeOK, ProducerInv, vars
<1> QED
  BY <1>1, <1>2, <1>3, <1>4, <1>5, <1>6, <1>7, <1>8, <1>9, <1>10, <1>11, <1>12,
     <1>13, <1>14, <1>15
  DEF Next, ProducerStep, ConsumerStep

(* The shared buffer, the semaphores and the locals have their types, for  *)
(* any number of consumers; the mutex is never posted twice.               *)
THEOREM BufferTypes == Spec => []TypeInv
BY TypeInit, TypeStep, PTL DEF Spec

-----------------------------------------------------------------------------
(* A consumer that polls is never ahead of the producer and never blocks;  *)
(* one that gives a slot back has read.                                    *)
ReaderInv ==
  \A c \in Readers :
    /\ consumer[c] = "post_empty" => my_read_pos[c] > 0
    /\ polls[c] => /\ consumer[c] # "full"
                   /\ my_read_pos[c] <= write_pos
                   /\ consumer[c] \in {"read", "copy"} => my_read_pos[c] < write_pos

(* What any step does to the positions and to one consumer.                *)
LEMMA ReaderFrame ==
  ASSUME TypeInv, [Next]_vars, NEW c \in Readers
  PROVE  /\ polls' = polls
         /\ my_read_pos[c] \in Nat /\ my_read_pos'[c] \in Nat
         /\ write_pos \in Nat /\ write_pos' \in Nat /\ write_pos <= write_pos'
         /\ \/ consumer'[c] = consumer[c] /\ my_read_pos'[c] = my_read_pos[c]
            \/ Idle(c) \/ ReadCall(c) \/ CheckPosition(c) \/ WaitFull(c)
            \/ CopyOut(c) \/ PostEmpty(c) \/ Leave(c) \/ Attach(c)
            \/ WaitFullInterrupted(c) \/ SignalConsumer(c)
<1>1. /\ my_read_pos[c] \in Nat /\ my_read_pos'[c] \in Nat
      /\ write_pos \in Nat /\ write_pos' \in Nat
  BY TypeStep DEF TypeInv, TypeOK
<1>2. polls' = polls /\ write_pos <= write_pos'
  BY <1>1 DEF Next, ProducerStep, ConsumerStep, ProducerLoop, WaitEmpty, WaitMutex,
     CopyBegins, CopyEnds, PostMutex, PostFull, ProducerLeaves, WaitEmptyInterrupted,
     WaitMutexInterrupted, SignalProducer, Attach, Idle, ReadCall, CheckPosition,
     WaitFull, Leave, WaitFullInterrupted, SignalConsumer, CopyOut, PostEmpty, vars,
     shared, consumerState
<1>3. CASE \/ ProducerStep \/ WaitEmptyInterrupted \/ WaitMutexInterrupted
           \/ SignalProducer \/ UNCHANGED vars
  <2>1. UNCHANGED <<consumer, my_read_pos>>
    BY <1>3 DEF ProducerStep, ProducerLoop, WaitEmpty, WaitMutex, CopyBegins,
       CopyEnds, PostMutex, PostFull, ProducerLeaves, WaitEmptyInterrupted,
       WaitMutexInterrupted, SignalProducer, consumerState, vars
  <2> QED
    BY <1>1, <1>2, <2>1
<1>4. ASSUME NEW d \in Readers, d # c,
             ConsumerStep(d) \/ Attach(d) \/ WaitFullInterrupted(d) \/ SignalConsumer(d)
      PROVE  consumer'[c] = consumer[c] /\ my_read_pos'[c] = my_read_pos[c]
  BY <1>4 DEF TypeInv, TypeOK, ConsumerStep, Attach, Idle, ReadCall, CheckPosition,
     WaitFull, Leave, WaitFullInterrupted, SignalConsumer, CopyOut, PostEmpty
<1> QED
  BY <1>1, <1>2, <1>3, <1>4 DEF Next, ConsumerStep

(* Every step of c or of anybody else keeps ReaderInv.                     *)
LEMMA ReaderStep == TypeInv /\ ReaderInv /\ [Next]_vars => ReaderInv'
<1> SUFFICES ASSUME TypeInv, ReaderInv, [Next]_vars, NEW c \in Readers
             PROVE  /\ consumer'[c] = "post_empty" => my_read_pos'[c] > 0
                    /\ polls'[c] =>
                         /\ consumer'[c] # "full"
                         /\ my_read_pos'[c] <= write_pos'
                         /\ consumer'[c] \in {"read", "copy"} =>
                              my_read_pos'[c] < write_pos'
  BY DEF ReaderInv
<1>1. /\ polls' = polls
      /\ my_read_pos[c] \in Nat
      /\ write_pos \in Nat /\ write_pos' \in Nat /\ write_pos <= write_pos'
  BY ReaderFrame
<1>2. /\ consumer[c] = "post_empty" => my_read_pos[c] > 0
      /\ polls[c] => /\ consumer[c] # "full"
                     /\ my_read_pos[c] <= write_pos
                     /\ consumer[c] \in {"read", "copy"} => my_read_pos[c] < write_pos
  BY DEF ReaderInv
<1>3. CASE consumer'[c] = consumer[c] /\ my_read_pos'[c] = my_read_pos[c]
  BY <1>1, <1>2, <1>3
<1>4. CASE CopyOut(c)
  BY <1>1, <1>2, <1>4 DEF TypeInv, TypeOK, CopyOut, shared
<1>5. CASE \/ Idle(c) \/ ReadCall(c) \/ CheckPosition(c) \/ WaitFull(c)
           \/ PostEmpty(c) \/ Leave(c) \/ Attach(c)
           \/ WaitFullInterrupted(c) \/ SignalConsumer(c)
  BY <1>1, <1>2, <1>5 DEF TypeInv, TypeOK, Idle, ReadCall, CheckPosition, WaitFull,
     PostEmpty, Leave, Attach, WaitFullInterrupted, SignalConsumer, Available, shared
<1> QED
  BY <1>3, <1>4, <1>5, ReaderFrame

(* ReaderInv is an invariant.                                              *)
THEOREM ReadersWaitForMessages == Spec => []ReaderInv
<1>1. Init => ReaderInv
  BY DEF Init, ReaderInv
<1> QED
  BY <1>1, BufferTypes, ReaderStep, PTL DEF Spec

-----------------------------------------------------------------------------
(* What the producer has taken, what is unread and what has been read but  *)
(* not given back add up to the ring.                                      *)

(* Whoever has read stays one who has read.                                *)
LEMMA OthersStay ==
  ASSUME TypeInv, [Next]_vars, NEW c \in Readers, ~OthersRead(c)'
  PROVE  /\ ~OthersRead(c)
         /\ \A d \in Readers \ {c} : my_read_pos[d] = 0 /\ ~CopyOut(d)
<1> SUFFICES ASSUME NEW d \in Readers, d # c
             PROVE  my_read_pos[d] = 0 /\ ~CopyOut(d)
  BY DEF OthersRead
<1>1. my_read_pos'[d] = 0 /\ my_read_pos[d] \in Nat
  BY ReaderFrame DEF OthersRead
<1>2. ~CopyOut(d)
  BY <1>1 DEF TypeInv, TypeOK, CopyOut
<1>3. my_read_pos'[d] = my_read_pos[d]
  BY <1>2, ReaderFrame DEF TypeInv, TypeOK, Idle, ReadCall, CheckPosition, WaitFull,
     PostEmpty, Leave, Attach, WaitFullInterrupted, SignalConsumer
<1> QED
  BY <1>1, <1>2, <1>3

(* Every step of the producer or of a consumer keeps the sum.              *)
LEMMA SlotsStep == TypeInv /\ ReaderInv /\ SlotsAddUp /\ [Next]_vars => SlotsAddUp'
<1> SUFFICES ASSUME TypeInv, ReaderInv, SlotsAddUp, [Next]_vars,
                    NEW c \in Readers, polls'[c], ~OthersRead(c)'
             PROVE  /\ my_read_pos'[c] <= write_pos'
                    /\ sem_empty'
                         + (IF producer' \in {"mutex", "copy", "advance"} THEN 1 ELSE 0)
                         + (write_pos' - my_read_pos'[c])
                         + (IF consumer'[c] = "post_empty" THEN 1 ELSE 0) = MAX_MESSAGES
  BY DEF SlotsAddUp
<1>a. polls[c] /\ ~OthersRead(c)
  BY ReaderFrame, OthersStay
<1>b. my_read_pos'[c] <= write_pos'
  BY ReaderStep DEF ReaderInv
<1>c. \A d \in Readers \ {c} : consumer[d] # "post_empty" /\ ~CopyOut(d)
  BY OthersStay DEF ReaderInv
<1> SUFFICES sem_empty'
               + (IF producer' \in {"mutex", "copy", "advance"} THEN 1 ELSE 0)
               + (write_pos' - my_read_pos'[c])
               + (IF consumer'[c] = "post_empty" THEN 1 ELSE 0) = MAX_MESSAGES
  BY <1>b
<1>0. /\ sem_empty \in Nat /\ write_pos \in Nat /\ my_read_pos[c] \in Nat
      /\ MAX_MESSAGES \in Nat
      /\ sem_empty
           + (IF producer \in {"mutex", "copy", "advance"} THEN 1 ELSE 0)
           + (write_pos - my_read_pos[c])
           + (IF consumer[c] = "post_empty" THEN 1 ELSE 0) = MAX_MESSAGES
  BY <1>a, BufferAssumption DEF TypeInv, TypeOK, SlotsAddUp
<1>1. CASE UNCHANGED <<consumer, my_read_pos>> /\
             (ProducerStep \/ WaitEmptyInterrupted \/ WaitMutexInterrupted
                \/ SignalProducer)
  BY <1>0, <1>1 DEF ProducerStep, ProducerLoop, WaitEmpty, WaitMutex, CopyBegins,
     CopyEnds, PostMutex, PostFull, ProducerLeaves, WaitEmptyInterrupted,
     WaitMutexInterrupted, SignalProducer, shared
<1>2. ASSUME NEW d \in Readers,
             \/ Attach(d) \/ Idle(d) \/ ReadCall(d) \/ CheckPosition(d) \/ WaitFull(d)
             \/ Leave(d) \/ WaitFullInterrupted(d) \/ SignalConsumer(d)
      PROVE  /\ UNCHANGED <<sem_empty, producer, write_pos, my_read_pos>>
             /\ consumer'[c] = "post_empty" <=> consumer[c] = "post_empty"
  BY <1>2 DEF TypeInv, TypeOK, Attach, Idle, ReadCall, CheckPosition, WaitFull, Leave,
     WaitFullInterrupted, SignalConsumer, shared
<1>3. ASSUME NEW d \in Readers, CopyOut(d)
      PROVE  /\ UNCHANGED <<sem_empty, producer, write_pos>>
             /\ my_read_pos'[c] = my_read_pos[c] + 1
             /\ consumer[c] = "copy" /\ consumer'[c] = "post_empty"
  <2>1. d = c
    BY <1>c, <1>3
  <2> QED
    BY <1>3, <2>1 DEF TypeInv, TypeOK, CopyOut, shared
<1>4. ASSUME NEW d \in Readers, PostEmpty(d)
      PROVE  /\ UNCHANGED <<producer, write_pos, my_read_pos>>
             /\ sem_empty' = sem_empty + 1
             /\ consumer[c] = "post_empty" /\ consumer'[c] = "loop"
  <2>1. d = c
    BY <1>c, <1>4 DEF PostEmpty
  <2> QED
    BY <1>4, <2>1 DEF TypeInv, TypeOK, PostEmpty
<1>5. CASE UNCHANGED vars
  BY <1>0, <1>5 DEF vars
<1>6. CASE \E d \in Readers : CopyOut(d)
  BY <1>0, <1>3, <1>6
<1>7. CASE \E d \in Readers : PostEmpty(d)
  BY <1>0, <1>4, <1>7
<1>8. CASE /\ UNCHANGED <<sem_empty, producer, write_pos, my_read_pos>>
           /\ consumer'[c] = "post_empty" <=> consumer[c] = "post_empty"
  BY <1>0, <1>8
<1>9. ProducerStep \/ WaitEmptyInterrupted \/ WaitMutexInterrupted \/ SignalProducer
        => UNCHANGED <<consumer, my_read_pos>>
  BY DEF ProducerStep, ProducerLoop, WaitEmpty, WaitMutex, CopyBegins,
     CopyEnds, PostMutex, PostFull, ProducerLeaves, WaitEmptyInterrupted,
     WaitMutexInterrupted, SignalProducer, consumerState
<1> QED
  BY <1>1, <1>2, <1>5, <1>6, <1>7, <1>8, <1>9 DEF Next, ConsumerStep

(* sem_empty is the number of free slots, for any number of consumers, as  *)
(* long as one that polls is the only one that has read.                   *)
THEOREM FreeSlotsAreCounted == Spec => []SlotsAddUp
<1>1. Init => SlotsAddUp
  BY BufferAssumption DEF Init, SlotsAddUp
<1> QED
  BY <1>1, BufferTypes, ReadersWaitForMessages, SlotsStep, PTL DEF Spec

-----------------------------------------------------------------------------
(* The slot of a message that was written holds it, a later message, or    *)
(* one that is being written, whoever reads.                               *)
SlotsGrow ==
  \A i \in Nat : i < write_pos =>
    data[SlotOf(i)] = Torn \/ data[SlotOf(i)] \in i .. write_pos - 1

(* For a consumer that polls and alone has read, the slots from its        *)
(* position up to write_pos hold the messages of these positions.          *)
WindowInv ==
  \A c \in Readers :
    polls[c] /\ ~OthersRead(c) =>
      \A i \in Nat : my_read_pos[c] <= i /\ i < write_pos => data[SlotOf(i)] = i

(* A step changes the data only by writing to the slot of write_pos.       *)
LEMMA DataFrame ==
  ASSUME TypeInv, [Next]_vars
  PROVE  \/ UNCHANGED <<data, write_pos>>
         \/ /\ CopyBegins
            /\ data' = [data EXCEPT ![SlotOf(write_pos)] = Torn]
            /\ UNCHANGED <<write_pos, my_read_pos>> /\ producer = "copy"
         \/ /\ CopyEnds
            /\ data' = [data EXCEPT ![SlotOf(write_pos)] = write_pos]
            /\ write_pos' = write_pos + 1
            /\ UNCHANGED my_read_pos /\ producer = "advance"
<1>1. CASE CopyBegins
  BY <1>1 DEF CopyBegins, consumerState
<1>2. CASE CopyEnds
  BY <1>2 DEF CopyEnds, consumerState
<1>3. CASE \/ ProducerLoop \/ WaitEmpty \/ WaitMutex \/ PostMutex \/ PostFull
           \/ ProducerLeaves \/ WaitEmptyInterrupted \/ WaitMutexInterrupted
           \/ SignalProducer \/ UNCHANGED vars
  BY <1>3 DEF ProducerLoop, WaitEmpty, WaitMutex, PostMutex, PostFull,
     ProducerLeaves, WaitEmptyInterrupted, WaitMutexInterrupted, SignalProducer,
     shared, vars
<1>4. CASE \E c \in Readers :
             \/ Attach(c) \/ ConsumerStep(c)
             \/ WaitFullInterrupted(c) \/ SignalConsumer(c)
  BY <1>4 DEF ConsumerStep, Attach, Idle, ReadCall, CheckPosition, WaitFull, CopyOut,
     PostEmpty, Leave, WaitFullInterrupted, SignalConsumer, shared
<1> QED
  BY <1>1, <1>2, <1>3, <1>4 DEF Next, ProducerStep

(* Only the producer writes to the slots, and each of its messages is      *)
(* later than all before.                                                  *)
LEMMA GrowStep == TypeInv /\ SlotsGrow /\ [Next]_vars => SlotsGrow'
<1> SUFFICES ASSUME TypeInv, SlotsGrow, [Next]_vars, NEW i \in Nat, i < write_pos'
             PROVE  data'[SlotOf(i)] = Torn \/ data'[SlotOf(i)] \in i .. write_pos' - 1
  BY DEF SlotsGrow, SlotOf
<1>0. /\ write_pos \in Nat
      /\ data \in [0 .. MAX_MESSAGES - 1 -> Nat \cup {Torn, Blank}]
      /\ SlotOf(i) \in 0 .. MAX_MESSAGES - 1
  BY MessageSlotInRing DEF TypeInv, TypeOK
<1>1. i < write_pos =>
        data[SlotOf(i)] = Torn \/ data[SlotOf(i)] \in i .. write_pos - 1
  BY DEF SlotsGrow
<1>2. CASE UNCHANGED <<data, write_pos>>
  BY <1>1, <1>2
<1>3. CASE data' = [data EXCEPT ![SlotOf(write_pos)] = Torn] /\ write_pos' = write_pos
  BY <1>0, <1>1, <1>3
<1>4. CASE /\ data' = [data EXCEPT ![SlotOf(write_pos)] = write_pos]
           /\ write_pos' = write_pos + 1
  <2>1. CASE SlotOf(i) = SlotOf(write_pos)
    <3>1. data'[SlotOf(i)] = write_pos
      BY <1>0, <1>4, <2>1
    <3> QED
      BY <1>0, <1>4, <3>1
  <2>2. CASE SlotOf(i) # SlotOf(write_pos)
    <3>1. data'[SlotOf(i)] = data[SlotOf(i)]
      BY <1>0, <1>4, <2>2
    <3>2. i < write_pos
      BY <1>0, <1>4, <2>2
    <3> QED
      BY <1>0, <1>1, <1>4, <3>1, <3>2
  <2> QED
    BY <2>1, <2>2
<1> QED
  BY <1>2, <1>3, <1>4, DataFrame

(* The producer writes to a slot that holds no unread message.             *)
LEMMA WritesFreeSlot ==
  ASSUME TypeInv, SlotsAddUp, NEW c \in Readers, polls[c], ~OthersRead(c),
         producer \in {"copy", "advance"},
         NEW i \in Nat, my_read_pos[c] <= i, i < write_pos
  PROVE  SlotOf(i) # SlotOf(write_pos)
<1>1. sem_empty \in Nat /\ write_pos \in Nat /\ my_read_pos[c] \in Nat
      /\ MAX_MESSAGES \in Nat
  BY BufferAssumption DEF TypeInv, TypeOK
<1>2. write_pos - my_read_pos[c] < MAX_MESSAGES
  BY <1>1 DEF SlotsAddUp
<1>3. write_pos - i < MAX_MESSAGES
  BY <1>1, <1>2
<1> QED
  BY <1>1, <1>3, MessageSlotsDiffer

(* Every step keeps the window of unread messages intact.                  *)
LEMMA WindowStep ==
  TypeInv /\ SlotsAddUp /\ WindowInv /\ [Next]_vars => WindowInv'
<1> SUFFICES ASSUME TypeInv, SlotsAddUp, WindowInv, [Next]_vars,
                    NEW c \in Readers, polls'[c], ~OthersRead(c)',
                    NEW i \in Nat, my_read_pos'[c] <= i, i < write_pos'
             PROVE  data'[SlotOf(i)] = i
  BY DEF WindowInv, SlotOf
<1>0. /\ write_pos \in Nat /\ my_read_pos[c] \in Nat /\ my_read_pos'[c] \in Nat
      /\ data \in [0 .. MAX_MESSAGES - 1 -> Nat \cup {Torn, Blank}]
      /\ SlotOf(i) \in 0 .. MAX_MESSAGES - 1
      /\ SlotOf(write_pos) \in 0 .. MAX_MESSAGES - 1
  <2>1. write_pos \in Nat /\ my_read_pos[c] \in Nat /\ my_read_pos'[c] \in Nat
    BY ReaderFrame
  <2>2. data \in [0 .. MAX_MESSAGES - 1 -> Nat \cup {Torn, Blank}]
    BY DEF TypeInv, TypeOK
  <2> QED
    BY <2>1, <2>2, MessageSlotInRing
<1>a. polls[c] /\ ~OthersRead(c)
  BY ReaderFrame, OthersStay
<1>b. my_read_pos[c] <= i
  <2>1. CASE CopyOut(c)
    BY <1>0, <2>1 DEF CopyOut, TypeInv, TypeOK
  <2>2. CASE my_read_pos'[c] = my_read_pos[c]
    BY <2>2
  <2>3. my_read_pos'[c] = my_read_pos[c] \/ CopyOut(c)
    BY ReaderFrame DEF Idle, ReadCall, CheckPosition, WaitFull, PostEmpty, Leave,
       Attach, WaitFullInterrupted, SignalConsumer
  <2> QED
    BY <2>1, <2>2, <2>3
<1>1. i < write_pos => data[SlotOf(i)] = i
  BY <1>a, <1>b DEF WindowInv
<1>2. CASE UNCHANGED <<data, write_pos>>
  BY <1>1, <1>2
<1>3. CASE /\ data' = [data EXCEPT ![SlotOf(write_pos)] = Torn]
           /\ write_pos' = write_pos /\ producer = "copy"
  <2>1. SlotOf(i) # SlotOf(write_pos)
    BY <1>a, <1>b, <1>3, WritesFreeSlot
  <2> QED
    BY <1>0, <1>1, <1>3, <2>1
<1>4. CASE /\ data' = [data EXCEPT ![SlotOf(write_pos)] = write_pos]
           /\ write_pos' = write_pos + 1 /\ producer = "advance"
  <2>1. CASE i = write_pos
    BY <1>0, <1>4, <2>1
  <2>2. CASE i # write_pos
    <3>1. i < write_pos
      BY <1>0, <1>4, <2>2
    <3>2. SlotOf(i) # SlotOf(write_pos)
      BY <1>a, <1>b, <1>4, <3>1, WritesFreeSlot
    <3> QED
      BY <1>0, <1>1, <1>4, <3>1, <3>2
  <2> QED
    BY <2>1, <2>2
<1> QED
  BY <1>2, <1>3, <1>4, DataFrame

(* The message that a copy out of the buffer takes is the right one, or a  *)
(* later one because others have read.                                     *)
LEMMA ReadStep ==
  /\ TypeInv /\ ReaderInv /\ SlotsGrow /\ WindowInv /\ ReadsInOrder /\ [Next]_vars
  => ReadsInOrder'
<1> SUFFICES ASSUME TypeInv, ReaderInv, SlotsGrow, WindowInv, ReadsInOrder, [Next]_vars,
                    NEW c \in Readers, polls'[c], my_read_pos'[c] > 0
             PROVE  \/ msg'[c] = my_read_pos'[c] - 1
                    \/ /\ OthersRead(c)'
                       /\ \/ msg'[c] = Torn
                          \/ msg'[c] \in my_read_pos'[c] .. write_pos' - 1
  BY DEF ReadsInOrder
<1>0. /\ polls[c]
      /\ write_pos \in Nat /\ write_pos' \in Nat /\ write_pos <= write_pos'
      /\ my_read_pos[c] \in Nat /\ my_read_pos'[c] \in Nat
  BY ReaderFrame
<1>1. OthersRead(c) => OthersRead(c)'
  BY OthersStay
<1>2. CASE CopyOut(c)
  <2>1. /\ msg'[c] = data[SlotOf(my_read_pos[c])]
        /\ my_read_pos'[c] = my_read_pos[c] + 1
        /\ write_pos' = write_pos
        /\ my_read_pos[c] < write_pos
    BY <1>0, <1>2 DEF CopyOut, TypeInv, TypeOK, ReaderInv, shared
  <2>2. CASE ~OthersRead(c)
    <3>1. msg'[c] = my_read_pos[c]
      BY <1>0, <2>1, <2>2 DEF WindowInv
    <3> QED
      BY <1>0, <2>1, <3>1
  <2>3. CASE OthersRead(c)
    <3>1. msg'[c] = Torn \/ msg'[c] \in my_read_pos[c] .. write_pos - 1
      BY <1>0, <2>1 DEF SlotsGrow
    <3> QED
      BY <1>0, <1>1, <2>1, <2>3, <3>1
  <2> QED
    BY <2>2, <2>3
<1>3. CASE ~CopyOut(c)
  <2>1. my_read_pos'[c] = my_read_pos[c]
    BY <1>3, ReaderFrame DEF Idle, ReadCall, CheckPosition, WaitFull, PostEmpty, Leave,
       Attach, WaitFullInterrupted, SignalConsumer
  <2>2. msg'[c] = msg[c]
    <3>1. CASE \E d \in Readers : CopyOut(d)
      BY <1>3, <3>1 DEF TypeInv, TypeOK, CopyOut
    <3>2. CASE ~\E d \in Readers : CopyOut(d)
      BY <3>2 DEF Next, ProducerStep, ConsumerStep, ProducerLoop, WaitEmpty, WaitMutex,
         CopyBegins, CopyEnds, PostMutex, PostFull, ProducerLeaves,
         WaitEmptyInterrupted, WaitMutexInterrupted, SignalProducer, Attach, Idle,
         ReadCall, CheckPosition, WaitFull, Leave, WaitFullInterrupted, SignalConsumer,
         PostEmpty, vars, consumerState
    <3> QED
      BY <3>1, <3>2
  <2>3. \/ msg[c] = my_read_pos[c] - 1
        \/ /\ OthersRead(c)
           /\ msg[c] = Torn \/ msg[c] \in my_read_pos[c] .. write_pos - 1
    BY <1>0, <2>1 DEF ReadsInOrder
  <2> QED
    BY <1>0, <1>1, <2>1, <2>2, <2>3
<1> QED
  BY <1>2, <1>3

(* For any number of consumers, what consumer.c reads at position n is     *)
(* message n, unless others have read: then it may be a later one or torn. *)
THEOREM MessagesAreReadInOrder == Spec => []ReadsInOrder
<1> DEFINE Inv == SlotsGrow /\ WindowInv /\ ReadsInOrder
<1>1. Init => Inv
  BY DEF Init, SlotsGrow, WindowInv, ReadsInOrder
<1>2. TypeInv /\ ReaderInv /\ SlotsAddUp /\ Inv /\ [Next]_vars => Inv'
  BY GrowStep, WindowStep, ReadStep
<1>3. Spec => []Inv
  BY <1>1, <1>2, BufferTypes, ReadersWaitForMessages, FreeSlotsAreCounted, PTL DEF Spec
<1> QED
  BY <1>3, PTL

===============================================================================
