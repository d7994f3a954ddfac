-------------------------- MODULE NodeStartupProofs --------------------------
(***************************************************************************)
(* Proofs about NodeStartup, for any vertices, indexes, choices of enabled *)
(* indexes, migrations and number of starts.                               *)
(*                                                                         *)
(* RunsOnSoundStorage speaks of the node that runs; the inductive          *)
(* invariant says what each phase of the start, and a storage without a    *)
(* process, owe to it: an index whose stamp is the database's was complete *)
(* when both were written (FreshIsComplete over Stamps), the indexes being *)
(* rebuilt hold exactly the vertices gone through so far (Rebuilding), and *)
(* a completed migration was completed on an empty database, so that every *)
(* vertex is as new as it (Formats).                                       *)
(***************************************************************************)
EXTENDS NodeStartup, WellFoundedInduction, TLAPS

Starting == {"check", "migrate", "unstamp", "clear", "build", "stamp"}
Serving == {"running", "crashed", "stopping"}
States == {NotStarted, Started, Completed, Failed}

(* Types: what the storage and the process can hold, phase by phase.       *)
TypeOK ==
    /\ disk \subseteq Vertices /\ cached \subseteq Vertices
    /\ content \in [Indexes -> SUBSET Vertices]
    /\ lastStarted \in Nat /\ indexStarted \in [Indexes -> Nat] /\ now \in Nat
    /\ migration \in [Migrations -> States]
    /\ running \in BOOLEAN /\ crashed \in BOOLEAN /\ lost \in BOOLEAN
    /\ pc \in {"down"} \cup Starting \cup Serving
    /\ enabled \subseteq Indexes /\ toInit \subseteq Indexes
    /\ version \in Migrations
    /\ format \in [Vertices -> Nat]

(* What the loops have left, and the flags, in each phase.                 *)
Phases ==
    /\ pc = "check" => todo \subseteq 1..version
    /\ pc \in {"unstamp", "clear"} => todo \subseteq toInit
    /\ pc = "clear" => todo # {}
    /\ pc = "build" => todo \subseteq disk
    /\ pc = "stamp" => todo \subseteq enabled \ InMemory
    /\ pc \in Starting => ~running /\ ~crashed
    /\ pc \in Starting \cup {"down"} => cached = {}
    /\ pc = "running" => running
    /\ pc = "crashed" => crashed

(* The stamps grow, and only the indexes of the last start have its stamp. *)
Stamps ==
    /\ lastStarted >= 1 /\ lastStarted <= now
    /\ \A i \in Indexes : indexStarted[i] <= lastStarted
    /\ \A i \in InMemory : indexStarted[i] = NullIndexLastStartedAt
    /\ pc \in Starting \ {"stamp"} => lastStarted < now
    /\ pc \in Serving \cup {"stamp"} =>
          /\ lastStarted = now
          /\ \A i \in Indexes : indexStarted[i] = now => i \in enabled

(* An index that is as new as the database has what the database has.      *)
FreshIsComplete ==
    pc \in {"down"} \cup (Starting \ {"stamp"}) /\ ~running /\ ~crashed /\ ~lost =>
        \A i \in Indexes : indexStarted[i] = lastStarted => content[i] = disk

(* The indexes to be rebuilt are the stale ones of those enabled; they are *)
(* emptied, and then have the vertices gone through so far.                *)
Rebuilding ==
    /\ pc \in {"unstamp", "clear", "build"} =>
          /\ toInit \subseteq enabled
          /\ \A i \in enabled : i \in toInit <=> indexStarted[i] # lastStarted
    /\ pc \in {"unstamp", "clear"} => \A i \in toInit \ todo : content[i] = {}
    /\ pc = "build" => \A i \in toInit : content[i] = disk \ todo

(* From then on every enabled index has every vertex.                      *)
ServingIsComplete ==
    pc \in Serving \cup {"stamp"} /\ ~lost => \A i \in enabled : content[i] = disk \cup cached

(* A migration that counts as completed was so before any vertex was       *)
(* written, and a start goes on only when all it knows are completed.      *)
Formats ==
    /\ \A m \in Migrations : migration[m] # NotStarted => m <= version
    /\ \A m \in Migrations : migration[m] = Completed =>
          \A v \in disk \cup cached : format[v] >= m
    /\ pc = "check" => \A m \in 1..version : m \in todo \/ migration[m] # Failed
    /\ pc = "migrate" => ToRun # {}
    /\ pc \in Serving \cup {"unstamp", "clear", "build", "stamp"} =>
          \A m \in 1..version : migration[m] = Completed

IInv ==
    /\ TypeOK /\ Phases /\ Stamps /\ FreshIsComplete /\ Rebuilding /\ ServingIsComplete
    /\ Formats

----------------------------------------------------------------------------
(* The least element of a set, for the loops that go in order.          *)
LEMMA MinIsLeast ==
    ASSUME NEW I, I \subseteq Nat, I # {}
    PROVE  Min(I) \in I
<1>1. PICK x \in I : \A y \in I : ~ (<<y, x>> \in OpToRel(<, Nat))
  BY WFMin, NatLessThanWellFounded
<1>2. ASSUME NEW y \in I PROVE x <= y
  <2>1. x \in Nat /\ y \in Nat
    OBVIOUS
  <2>2. ~ (<<y, x>> \in {ss \in Nat \X Nat : ss[1] < ss[2]})
    BY <1>1 DEF OpToRel
  <2>3. ~ (y < x)
    BY <2>1, <2>2
  <2> QED BY <2>1, <2>3
<1> QED BY <1>2 DEF Min

----------------------------------------------------------------------------
(* Every step preserves the invariant.                                     *)

LEMMA StartPreserves ==
    ASSUME StartupAssumption, IInv, NEW indexes \in EnabledChoices, NEW v \in Migrations, Start(indexes, v)
    PROVE  IInv'
<1> USE DEF IInv, durable, process, Starting, Serving
<1>1. /\ pc = "down" /\ pc' = "check" /\ ~crashed /\ ~running /\ todo' = 1..v
      /\ enabled' = indexes /\ version' = v /\ now' = now + 1 /\ v >= version
      /\ UNCHANGED <<disk, lastStarted, indexStarted, migration, running, crashed, cached, content,
                     toInit, format, lost>>
  BY DEF Start
<1>2. v \in Nat /\ version \in Nat /\ \A m \in Migrations : m \in Nat
  BY DEF TypeOK, StartupAssumption
<1>3. TypeOK'
  BY <1>1, <1>2 DEF TypeOK, States, StartupAssumption
<1>4. Phases'
  BY <1>1, <1>2 DEF Phases
<1>5. Stamps'
  BY <1>1, <1>2 DEF Stamps, TypeOK
<1>6. FreshIsComplete'
  BY <1>1, <1>2 DEF FreshIsComplete
<1>7. Rebuilding'
  BY <1>1, <1>2 DEF Rebuilding
<1>8. ServingIsComplete'
  BY <1>1, <1>2 DEF ServingIsComplete
<1>9. Formats'
  BY <1>1, <1>2 DEF Formats
<1> QED BY <1>3, <1>4, <1>5, <1>6, <1>7, <1>8, <1>9

LEMMA SelectIndexesPreserves ==
    ASSUME StartupAssumption, IInv, SelectIndexes
    PROVE  IInv'
<1> USE DEF IInv, durable, process, Starting, Serving
<1>1. /\ pc = "check" /\ pc' = "unstamp" /\ todo = {} /\ ToRun = {}
      /\ toInit' = {i \in enabled : NeedsInit(i)} /\ todo' = toInit'
      /\ UNCHANGED <<disk, lastStarted, indexStarted, migration, running, crashed, cached, content,
                     enabled, version, now, format, lost>>
  BY DEF SelectIndexes
<1>2. \A i \in enabled : NeedsInit(i) <=> indexStarted[i] # lastStarted
  BY DEF NeedsInit, Stamps, NullIndexLastStartedAt
<1>3. \A m \in 1..version : migration[m] = Completed
  <2>1. \A m \in 1..version : migration[m] \in States
    BY DEF TypeOK, StartupAssumption
  <2> QED BY <1>1, <2>1 DEF ToRun, States, Formats
<1>4. TypeOK'
  BY <1>1, <1>2, <1>3 DEF TypeOK, States, StartupAssumption
<1>5. Phases'
  BY <1>1, <1>2, <1>3 DEF Phases
<1>6. Stamps'
  BY <1>1, <1>2, <1>3 DEF Stamps, TypeOK
<1>7. FreshIsComplete'
  BY <1>1, <1>2, <1>3 DEF FreshIsComplete
<1>8. Rebuilding'
  BY <1>1, <1>2, <1>3 DEF Rebuilding
<1>9. ServingIsComplete'
  BY <1>1, <1>2, <1>3 DEF ServingIsComplete
<1>10. Formats'
  BY <1>1, <1>2, <1>3 DEF Formats
<1> QED BY <1>4, <1>5, <1>6, <1>7, <1>8, <1>9, <1>10

LEMMA UnstampPreserves ==
    ASSUME StartupAssumption, IInv, Unstamp
    PROVE  IInv'
<1> USE DEF IInv, durable, process, Starting, Serving
<1> DEFINE j == Min(todo)
<1>1. j \in todo /\ j \in toInit /\ j \in Indexes /\ todo # {} /\ pc = "unstamp"
  <2>1. todo # {} /\ pc = "unstamp"
    BY DEF Unstamp
  <2>2. todo \subseteq toInit /\ todo \subseteq Nat
    BY <2>1 DEF Phases, TypeOK, StartupAssumption
  <2> QED BY <2>1, <2>2, MinIsLeast DEF TypeOK
<1>2. /\ indexStarted' = [indexStarted EXCEPT ![j] =
                             IF j \in InMemory THEN indexStarted[j] ELSE NullIndexLastStartedAt]
      /\ pc' = "clear"
      /\ UNCHANGED <<disk, lastStarted, migration, running, crashed, enabled, version, toInit, now,
                     cached, content, todo, format, lost>>
  BY DEF Unstamp
<1> HIDE DEF j
<1>3. indexStarted' \in [Indexes -> Nat] /\ indexStarted'[j] = 0
  BY <1>1, <1>2 DEF TypeOK, NullIndexLastStartedAt, Stamps
<1>4. \A i \in Indexes : i # j => indexStarted'[i] = indexStarted[i]
  BY <1>1, <1>2 DEF TypeOK
<1>5. lastStarted \in Nat /\ lastStarted > 0 /\ indexStarted[j] # lastStarted
  BY <1>1 DEF TypeOK, Stamps, Rebuilding
<1>6. TypeOK'
  BY <1>1, <1>2, <1>3, <1>4, <1>5 DEF TypeOK, States, StartupAssumption
<1>7. Phases'
  BY <1>1, <1>2, <1>3, <1>4, <1>5 DEF Phases
<1>8. Stamps'
  BY <1>1, <1>2, <1>3, <1>4, <1>5 DEF Stamps, TypeOK, StartupAssumption, NullIndexLastStartedAt
<1>9. FreshIsComplete'
  BY <1>1, <1>2, <1>3, <1>4, <1>5 DEF FreshIsComplete
<1>10. Rebuilding'
  BY <1>1, <1>2, <1>3, <1>4, <1>5 DEF Rebuilding, TypeOK
<1>11. ServingIsComplete'
  BY <1>1, <1>2, <1>3, <1>4, <1>5 DEF ServingIsComplete
<1>12. Formats'
  BY <1>1, <1>2, <1>3, <1>4, <1>5 DEF Formats
<1> QED BY <1>6, <1>7, <1>8, <1>9, <1>10, <1>11, <1>12

LEMMA ForceClearPreserves ==
    ASSUME StartupAssumption, IInv, ForceClear
    PROVE  IInv'
<1> USE DEF IInv, durable, process, Starting, Serving
<1> DEFINE j == Min(todo)
<1>1. j \in todo /\ j \in toInit /\ j \in Indexes /\ pc = "clear"
  <2>1. todo # {} /\ pc = "clear"
    BY DEF ForceClear, Phases
  <2>2. todo \subseteq toInit /\ todo \subseteq Nat
    BY <2>1 DEF Phases, TypeOK, StartupAssumption
  <2> QED BY <2>1, <2>2, MinIsLeast DEF TypeOK
<1>2. /\ content' = [content EXCEPT ![j] = {}] /\ todo' = todo \ {j} /\ pc' = "unstamp"
      /\ UNCHANGED <<disk, lastStarted, indexStarted, migration, running, crashed, enabled, version,
                     toInit, now, cached, format, lost>>
  BY DEF ForceClear
<1> HIDE DEF j
<1>3. content'[j] = {} /\ \A i \in Indexes : i # j => content'[i] = content[i]
  BY <1>1, <1>2 DEF TypeOK
<1>4. indexStarted[j] # lastStarted
  BY <1>1 DEF TypeOK, Rebuilding
<1>5. TypeOK'
  BY <1>1, <1>2, <1>3, <1>4 DEF TypeOK, States, StartupAssumption
<1>6. Phases'
  BY <1>1, <1>2, <1>3, <1>4 DEF Phases
<1>7. Stamps'
  BY <1>1, <1>2, <1>3, <1>4 DEF Stamps, TypeOK
<1>8. FreshIsComplete'
  BY <1>1, <1>2, <1>3, <1>4 DEF FreshIsComplete
<1>9. Rebuilding'
  BY <1>1, <1>2, <1>3, <1>4 DEF Rebuilding, TypeOK
<1>10. ServingIsComplete'
  BY <1>1, <1>2, <1>3, <1>4 DEF ServingIsComplete
<1>11. Formats'
  BY <1>1, <1>2, <1>3, <1>4 DEF Formats
<1> QED BY <1>5, <1>6, <1>7, <1>8, <1>9, <1>10, <1>11

LEMMA StartBuildPreserves ==
    ASSUME StartupAssumption, IInv, StartBuild
    PROVE  IInv'
<1> USE DEF IInv, durable, process, Starting, Serving
<1>1. /\ pc = "unstamp" /\ pc' = "build" /\ todo = {}
      /\ todo' = IF toInit = {} THEN {} ELSE disk
      /\ UNCHANGED <<disk, lastStarted, indexStarted, migration, running, crashed, enabled, version,
                     toInit, now, cached, content, format, lost>>
  BY DEF StartBuild
<1>2. TypeOK'
  BY <1>1 DEF TypeOK, States, StartupAssumption
<1>3. Phases'
  BY <1>1 DEF Phases
<1>4. Stamps'
  BY <1>1 DEF Stamps, TypeOK
<1>5. FreshIsComplete'
  BY <1>1 DEF FreshIsComplete
<1>6. Rebuilding'
  BY <1>1 DEF Rebuilding
<1>7. ServingIsComplete'
  BY <1>1 DEF ServingIsComplete
<1>8. Formats'
  BY <1>1 DEF Formats
<1> QED BY <1>2, <1>3, <1>4, <1>5, <1>6, <1>7, <1>8

LEMMA InitLoopStepPreserves ==
    ASSUME StartupAssumption, IInv, NEW v \in Vertices, InitLoopStep(v)
    PROVE  IInv'
<1> USE DEF IInv, durable, process, Starting, Serving
<1>1. /\ pc = "build" /\ v \in todo /\ todo' = todo \ {v}
      /\ content' = [i \in Indexes |-> IF i \in toInit THEN content[i] \cup {v} ELSE content[i]]
      /\ UNCHANGED <<disk, lastStarted, indexStarted, migration, running, crashed, enabled, version,
                     toInit, now, cached, pc, format, lost>>
  BY DEF InitLoopStep
<1>2. v \in disk /\ toInit \subseteq Indexes /\ enabled \subseteq Indexes
  BY <1>1 DEF Phases, TypeOK
<1>3. \A i \in Indexes : content'[i] = IF i \in toInit THEN content[i] \cup {v} ELSE content[i]
  BY <1>1
<1>4. \A i \in Indexes : indexStarted[i] = lastStarted => i \notin toInit
  BY <1>1 DEF Rebuilding
<1>5. TypeOK'
  BY <1>1, <1>2, <1>3, <1>4 DEF TypeOK, States, StartupAssumption
<1>6. Phases'
  BY <1>1, <1>2, <1>3, <1>4 DEF Phases
<1>7. Stamps'
  BY <1>1, <1>2, <1>3, <1>4 DEF Stamps, TypeOK
<1>8. FreshIsComplete'
  BY <1>1, <1>2, <1>3, <1>4 DEF FreshIsComplete
<1>9. Rebuilding'
  BY <1>1, <1>2, <1>3, <1>4 DEF Rebuilding
<1>10. ServingIsComplete'
  BY <1>1, <1>2, <1>3, <1>4 DEF ServingIsComplete
<1>11. Formats'
  BY <1>1, <1>2, <1>3, <1>4 DEF Formats
<1> QED BY <1>5, <1>6, <1>7, <1>8, <1>9, <1>10, <1>11

LEMMA StampDatabasePreserves ==
    ASSUME StartupAssumption, IInv, StampDatabase
    PROVE  IInv'
<1> USE DEF IInv, durable, process, Starting, Serving
<1>1. /\ pc = "build" /\ pc' = "stamp" /\ todo = {} /\ todo' = enabled \ InMemory /\ lastStarted' = now
      /\ UNCHANGED <<disk, indexStarted, migration, running, crashed, enabled, version, toInit, now,
                     cached, content, format, lost>>
  BY DEF StampDatabase
<1>2. lastStarted < now /\ lastStarted \in Nat /\ now \in Nat /\ indexStarted \in [Indexes -> Nat]
  BY <1>1 DEF Stamps, TypeOK
<1>3. \A i \in Indexes : indexStarted[i] <= lastStarted
  BY DEF Stamps
<1>4. \A i \in Indexes : indexStarted[i] < now /\ indexStarted[i] <= now
  BY <1>2, <1>3
<1>5. ~lost => \A i \in enabled : content[i] = disk
  BY <1>1 DEF FreshIsComplete, Rebuilding, Phases, TypeOK
<1>6. cached = {}
  BY <1>1 DEF Phases
<1>7. TypeOK'
  BY <1>1, <1>2, <1>3, <1>4, <1>5, <1>6 DEF TypeOK, States, StartupAssumption
<1>8. Phases'
  BY <1>1, <1>2, <1>3, <1>4, <1>5, <1>6 DEF Phases
<1>9. Stamps'
  BY <1>1, <1>2, <1>4 DEF Stamps
<1>10. FreshIsComplete'
  BY <1>1, <1>2, <1>3, <1>4, <1>5, <1>6 DEF FreshIsComplete
<1>11. Rebuilding'
  BY <1>1, <1>2, <1>3, <1>4, <1>5, <1>6 DEF Rebuilding
<1>12. ServingIsComplete'
  BY <1>1, <1>2, <1>3, <1>4, <1>5, <1>6 DEF ServingIsComplete
<1>13. Formats'
  BY <1>1, <1>2, <1>3, <1>4, <1>5, <1>6 DEF Formats
<1> QED BY <1>7, <1>8, <1>9, <1>10, <1>11, <1>12, <1>13

LEMMA StampIndexPreserves ==
    ASSUME StartupAssumption, IInv, StampIndex
    PROVE  IInv'
<1> USE DEF IInv, durable, process, Starting, Serving
<1> DEFINE j == Min(todo)
<1>1. j \in todo /\ j \in enabled /\ j \in Indexes /\ pc = "stamp"
  <2>1. todo # {} /\ pc = "stamp"
    BY DEF StampIndex
  <2>2. todo \subseteq enabled /\ todo \subseteq Nat
    BY <2>1 DEF Phases, TypeOK, StartupAssumption
  <2> QED BY <2>1, <2>2, MinIsLeast DEF TypeOK
<1>2. /\ indexStarted' = [indexStarted EXCEPT ![j] = now] /\ todo' = todo \ {j}
      /\ UNCHANGED <<disk, lastStarted, migration, running, crashed, enabled, version, toInit, now,
                     cached, content, pc, format, lost>>
  BY DEF StampIndex
<1>3. j \notin InMemory
  BY <1>1 DEF Phases
<1> HIDE DEF j
<1>4. indexStarted'[j] = now /\ \A i \in Indexes : i # j => indexStarted'[i] = indexStarted[i]
  BY <1>1, <1>2 DEF TypeOK
<1>5. TypeOK'
  BY <1>1, <1>2, <1>3, <1>4 DEF TypeOK, States, StartupAssumption
<1>6. Phases'
  BY <1>1, <1>2, <1>3, <1>4 DEF Phases
<1>7. Stamps'
  BY <1>1, <1>2, <1>3, <1>4 DEF Stamps, TypeOK, StartupAssumption, NullIndexLastStartedAt
<1>8. FreshIsComplete'
  BY <1>1, <1>2, <1>3, <1>4 DEF FreshIsComplete
<1>9. Rebuilding'
  BY <1>1, <1>2, <1>3, <1>4 DEF Rebuilding
<1>10. ServingIsComplete'
  BY <1>1, <1>2, <1>3, <1>4 DEF ServingIsComplete
<1>11. Formats'
  BY <1>1, <1>2, <1>3, <1>4 DEF Formats
<1> QED BY <1>5, <1>6, <1>7, <1>8, <1>9, <1>10, <1>11

LEMMA StartRunningPreserves ==
    ASSUME StartupAssumption, IInv, StartRunningManager
    PROVE  IInv'
<1> USE DEF IInv, durable, process, Starting, Serving
<1>1. /\ pc = "stamp" /\ pc' = "running" /\ running' = TRUE
      /\ UNCHANGED <<disk, lastStarted, indexStarted, migration, crashed, enabled, version, toInit, now,
                     cached, content, todo, format, lost>>
  BY DEF StartRunningManager
<1>2. TypeOK'
  BY <1>1 DEF TypeOK, States, StartupAssumption
<1>3. Phases'
  BY <1>1 DEF Phases
<1>4. Stamps'
  BY <1>1 DEF Stamps, TypeOK
<1>5. FreshIsComplete'
  BY <1>1 DEF FreshIsComplete
<1>6. Rebuilding'
  BY <1>1 DEF Rebuilding
<1>7. ServingIsComplete'
  BY <1>1 DEF ServingIsComplete
<1>8. Formats'
  BY <1>1 DEF Formats
<1> QED BY <1>2, <1>3, <1>4, <1>5, <1>6, <1>7, <1>8

(* The end of the process, however it comes about.                         *)
LEMMA ExitPreserves ==
    ASSUME StartupAssumption, IInv, Exit,
           UNCHANGED <<lastStarted, indexStarted>>, disk' \subseteq disk \cup cached,
           running' \in BOOLEAN, crashed' \in BOOLEAN, lost' \in BOOLEAN,
           migration' \in [Migrations -> States],
           \A m \in Migrations :
              migration'[m] = migration[m] \/ (migration'[m] = Failed /\ m <= version),
           ~running' /\ ~crashed' /\ ~lost' =>
              \A i \in Indexes : indexStarted[i] = lastStarted => content[i] = disk'
    PROVE  IInv'
<1> USE DEF IInv, durable, process, Starting, Serving
<1>1. /\ pc' = "down" /\ cached' = {} /\ todo' = {} /\ toInit' = {} /\ enabled' = {}
      /\ content' = [i \in Indexes |-> IF i \in InMemory THEN {} ELSE content[i]]
      /\ UNCHANGED <<version, now, format>>
  BY DEF Exit
<1>2. \A i \in Indexes : indexStarted[i] = lastStarted => content'[i] = content[i]
  BY <1>1 DEF Stamps, NullIndexLastStartedAt
<1>3. NotStarted # Failed /\ Completed # Failed
  BY DEF NotStarted, Failed, Completed
<1>4. TypeOK'
  BY <1>1, <1>2, <1>3 DEF TypeOK, States, StartupAssumption
<1>5. Phases'
  BY <1>1, <1>2, <1>3 DEF Phases
<1>6. Stamps'
  BY <1>1, <1>2, <1>3 DEF Stamps, TypeOK
<1>7. FreshIsComplete'
  BY <1>1, <1>2, <1>3 DEF FreshIsComplete
<1>8. Rebuilding'
  BY <1>1, <1>2, <1>3 DEF Rebuilding
<1>9. ServingIsComplete'
  BY <1>1, <1>2, <1>3 DEF ServingIsComplete
<1>10. Formats'
  BY <1>1, <1>2, <1>3 DEF Formats
<1> QED BY <1>4, <1>5, <1>6, <1>7, <1>8, <1>9, <1>10

LEMMA CheckMigrationPreserves ==
    ASSUME StartupAssumption, IInv, CheckMigration
    PROVE  IInv'
<1> USE DEF IInv, durable, process, Starting, Serving
<1> DEFINE j == Min(todo)
<1>1. j \in todo /\ j \in 1..version /\ j \in Migrations /\ pc = "check"
  <2>1. todo # {} /\ pc = "check"
    BY DEF CheckMigration
  <2>2. todo \subseteq 1..version /\ 1..version \subseteq Migrations /\ 1..version \subseteq Nat
    BY <2>1 DEF Phases, TypeOK, StartupAssumption
  <2>3. todo \subseteq Nat
    BY <2>2
  <2> QED BY <2>1, <2>2, <2>3, MinIsLeast
<1>2. UNCHANGED <<disk, lastStarted, indexStarted, running, crashed, lost>>
  BY DEF CheckMigration
<1>3. \/ /\ IsEmpty /\ migration' = [migration EXCEPT ![j] = Completed] /\ todo' = todo \ {j}
         /\ UNCHANGED <<process, cached, content, pc, format>>
      \/ /\ migration[j] # Failed /\ todo' = todo \ {j}
         /\ UNCHANGED <<migration, process, cached, content, pc, format>>
      \/ Exit /\ UNCHANGED migration
  BY DEF CheckMigration
<1> HIDE DEF j
<1>4. CASE Exit /\ UNCHANGED migration
  <2>1. running' \in BOOLEAN /\ crashed' \in BOOLEAN /\ lost' \in BOOLEAN
    BY <1>2 DEF TypeOK
  <2>2. migration' \in [Migrations -> States]
    BY <1>4 DEF TypeOK
  <2>3. ~running' /\ ~crashed' /\ ~lost' =>
           \A i \in Indexes : indexStarted[i] = lastStarted => content[i] = disk'
    BY <1>1, <1>2 DEF FreshIsComplete
  <2> QED BY <1>2, <1>4, <2>1, <2>2, <2>3, ExitPreserves
<1>5. CASE /\ todo' = todo \ {j} /\ UNCHANGED <<process, cached, content, pc, format>>
           /\ \/ IsEmpty /\ migration' = [migration EXCEPT ![j] = Completed]
              \/ migration[j] # Failed /\ UNCHANGED migration
  <2>1. /\ migration' \in [Migrations -> States]
        /\ \A m \in Migrations : m # j => migration'[m] = migration[m]
        /\ migration'[j] # Failed
    BY <1>1, <1>5 DEF TypeOK, States, Completed, Failed
  <2>2. UNCHANGED <<enabled, version, toInit, now, cached, content, pc, format>>
    BY <1>5
  <2>3. TypeOK' /\ Phases'
    BY <1>1, <1>2, <1>5, <2>1, <2>2 DEF TypeOK, Phases
  <2>4. Stamps' /\ FreshIsComplete' /\ Rebuilding' /\ ServingIsComplete'
    BY <1>1, <1>2, <2>2 DEF Stamps, FreshIsComplete, Rebuilding, ServingIsComplete
  <2>5. cached = {}
    BY <1>1 DEF Phases
  <2>6. \A m \in Migrations : migration'[m] # NotStarted => m <= version
    BY <1>1, <2>1 DEF Formats, TypeOK, StartupAssumption
  <2>7. \A m \in Migrations : migration'[m] = Completed => \A v \in disk \cup cached : format[v] >= m
    BY <1>1, <1>5, <2>1, <2>5 DEF Formats, IsEmpty
  <2>8. \A m \in 1..version : m \in todo \ {j} \/ migration'[m] # Failed
    BY <1>1, <2>1 DEF Formats, TypeOK, StartupAssumption
  <2>9. Formats'
    BY <1>1, <1>2, <1>5, <2>2, <2>6, <2>7, <2>8 DEF Formats
  <2> QED BY <2>3, <2>4, <2>9
<1> QED BY <1>3, <1>4, <1>5

LEMMA RunMigrationPreserves ==
    ASSUME StartupAssumption, IInv, RunMigration
    PROVE  IInv'
<1> USE DEF IInv, durable, process, Starting, Serving
<1> DEFINE j == Min(ToRun)
<1>1. j \in 1..version /\ j \in Migrations /\ j <= version
  <2>1. ToRun # {} /\ 1..version \subseteq Nat /\ 1..version \subseteq Migrations
    BY DEF RunMigration, TypeOK, StartupAssumption
  <2>2. ToRun \subseteq 1..version /\ ToRun \subseteq Nat
    BY <2>1 DEF ToRun
  <2>3. j \in 1..version
    BY <2>1, <2>2, MinIsLeast
  <2> QED BY <2>1, <2>3
<1>2. /\ pc = "check" /\ pc' = "migrate" /\ migration' = [migration EXCEPT ![j] = Started]
      /\ UNCHANGED <<disk, lastStarted, indexStarted, running, crashed, enabled, version, toInit, now,
                     cached, content, todo, format, lost>>
  BY DEF RunMigration
<1> HIDE DEF j
<1>3. /\ migration' \in [Migrations -> States] /\ Started # Completed
      /\ \A m \in Migrations : m # j => migration'[m] = migration[m]
      /\ migration'[j] = Started
  BY <1>1, <1>2 DEF TypeOK, States, Started, Completed
<1>4. ToRun' # {}
  BY <1>1, <1>2, <1>3 DEF ToRun
<1>5. TypeOK'
  BY <1>1, <1>2, <1>3 DEF TypeOK, States, StartupAssumption
<1>6. Phases'
  BY <1>1, <1>2, <1>3 DEF Phases
<1>7. Stamps'
  BY <1>1, <1>2, <1>3 DEF Stamps, TypeOK
<1>8. FreshIsComplete'
  BY <1>1, <1>2, <1>3 DEF FreshIsComplete
<1>9. Rebuilding'
  BY <1>1, <1>2, <1>3 DEF Rebuilding
<1>10. ServingIsComplete'
  BY <1>1, <1>2, <1>3 DEF ServingIsComplete
<1>11. Formats'
  BY <1>1, <1>2, <1>3, <1>4 DEF Formats
<1> QED BY <1>5, <1>6, <1>7, <1>8, <1>9, <1>10, <1>11

LEMMA MigrationRaisesPreserves ==
    ASSUME StartupAssumption, IInv, MigrationRaises
    PROVE  IInv'
<1> USE DEF IInv, Starting, Serving
<1> DEFINE j == Min(ToRun)
<1>1. /\ pc = "migrate" /\ migration' = [migration EXCEPT ![j] = Failed] /\ Exit
      /\ UNCHANGED <<disk, lastStarted, indexStarted, running, crashed, lost>>
  BY DEF MigrationRaises
<1>2. j \in 1..version /\ j \in Migrations /\ j <= version
  <2>1. 1..version \subseteq Nat /\ 1..version \subseteq Migrations
    BY DEF TypeOK, StartupAssumption
  <2>2. ToRun \subseteq 1..version /\ ToRun \subseteq Nat
    BY <2>1 DEF ToRun
  <2>3. ToRun # {}
    BY <1>1 DEF Formats
  <2>4. j \in 1..version
    BY <2>2, <2>3, MinIsLeast
  <2> QED BY <2>1, <2>4
<1> HIDE DEF j
<1>3. /\ migration' \in [Migrations -> States]
      /\ \A m \in Migrations :
            migration'[m] = migration[m] \/ (migration'[m] = Failed /\ m <= version)
  BY <1>1, <1>2 DEF TypeOK, States
<1>4. running' \in BOOLEAN /\ crashed' \in BOOLEAN /\ lost' \in BOOLEAN
  BY <1>1 DEF TypeOK
<1>5. ~running' /\ ~crashed' /\ ~lost' =>
         \A i \in Indexes : indexStarted[i] = lastStarted => content[i] = disk'
  BY <1>1 DEF FreshIsComplete
<1> QED BY <1>1, <1>3, <1>4, <1>5, ExitPreserves

LEMMA VertexPreserves ==
    ASSUME StartupAssumption, IInv, NEW v \in Vertices, Accept(v) \/ Remove(v) \/ Evict(v)
    PROVE  IInv'
<1> USE DEF IInv, durable, process, Starting, Serving
<1>1. /\ pc = "running"
      /\ UNCHANGED <<lastStarted, indexStarted, migration, running, crashed, enabled, version, toInit,
                     now, pc, todo, lost>>
  BY DEF Accept, Remove, Evict
<1>2. /\ disk' \subseteq Vertices /\ cached' \subseteq Vertices
      /\ content' \in [Indexes -> SUBSET Vertices] /\ enabled \subseteq Indexes
  BY DEF Accept, Remove, Evict, TypeOK
<1>3. ~lost => \A i \in enabled : content'[i] = disk' \cup cached'
  <2>1. ~lost => \A i \in enabled : content[i] = disk \cup cached
    BY <1>1 DEF ServingIsComplete
  <2>2. CASE Accept(v)
    BY <1>2, <2>1, <2>2 DEF Accept
  <2>3. CASE Remove(v)
    BY <1>2, <2>1, <2>3 DEF Remove
  <2>4. CASE Evict(v)
    BY <1>2, <2>1, <2>4 DEF Evict
  <2> QED BY <2>2, <2>3, <2>4
<1>4. format' \in [Vertices -> Nat]
  BY DEF Accept, Remove, Evict, TypeOK, StartupAssumption
<1>5. \A u \in disk' \cup cached' : (u \in disk \cup cached /\ format'[u] = format[u]) \/ format'[u] = version
  BY DEF Accept, Remove, Evict, TypeOK
<1>6. \A m \in Migrations : migration[m] = Completed => m <= version
  BY DEF Formats, Completed, NotStarted
<1>7. version \in Nat /\ \A m \in Migrations : m \in Nat
  BY DEF TypeOK, StartupAssumption
<1>8. TypeOK'
  BY <1>1, <1>2, <1>3, <1>4, <1>5, <1>6, <1>7 DEF TypeOK, States, StartupAssumption
<1>9. Phases'
  BY <1>1, <1>2, <1>3, <1>4, <1>5, <1>6, <1>7 DEF Phases
<1>10. Stamps'
  BY <1>1, <1>2, <1>3, <1>4, <1>5, <1>6, <1>7 DEF Stamps, TypeOK
<1>11. FreshIsComplete'
  BY <1>1, <1>2, <1>3, <1>4, <1>5, <1>6, <1>7 DEF FreshIsComplete
<1>12. Rebuilding'
  BY <1>1, <1>2, <1>3, <1>4, <1>5, <1>6, <1>7 DEF Rebuilding
<1>13. ServingIsComplete'
  BY <1>1, <1>2, <1>3, <1>4, <1>5, <1>6, <1>7 DEF ServingIsComplete
<1>14. Formats'
  BY <1>1, <1>2, <1>3, <1>4, <1>5, <1>6, <1>7 DEF Formats
<1> QED BY <1>8, <1>9, <1>10, <1>11, <1>12, <1>13, <1>14

LEMMA CrashPreserves ==
    ASSUME StartupAssumption, IInv, Crash
    PROVE  IInv'
<1> USE DEF IInv, Starting, Serving, durable, process
<1>1. /\ pc = "running" /\ crashed' = TRUE
      /\ UNCHANGED <<disk, lastStarted, indexStarted, migration, running, lost>>
  BY DEF Crash
<1>2. CASE Exit
  <2>1. running' \in BOOLEAN /\ crashed' \in BOOLEAN /\ lost' \in BOOLEAN
    BY <1>1 DEF TypeOK
  <2>2. migration' \in [Migrations -> States]
    BY <1>1 DEF TypeOK
  <2> QED BY <1>1, <1>2, <2>1, <2>2, ExitPreserves
<1>3. CASE pc' = "crashed" /\ UNCHANGED <<process, cached, content, todo, format>>
  <2>1. TypeOK'
    BY <1>1, <1>3 DEF TypeOK
  <2>2. Phases' /\ Stamps' /\ FreshIsComplete' /\ Rebuilding'
    BY <1>1, <1>3 DEF Phases, Stamps, FreshIsComplete, Rebuilding
  <2>3. ServingIsComplete' /\ Formats'
    BY <1>1, <1>3 DEF ServingIsComplete, Formats
  <2> QED BY <2>1, <2>2, <2>3
<1> QED BY <1>2, <1>3 DEF Crash

LEMMA StopPreserves ==
    ASSUME StartupAssumption, IInv, Stop
    PROVE  IInv'
<1> USE DEF IInv, durable, process, Starting, Serving
<1>1. /\ pc \in {"running", "crashed"} /\ pc' = "stopping" /\ running' = FALSE
      /\ UNCHANGED <<disk, lastStarted, indexStarted, migration, crashed, enabled, version, toInit, now,
                     cached, content, todo, format, lost>>
  BY DEF Stop
<1>2. TypeOK'
  BY <1>1 DEF TypeOK, States, StartupAssumption
<1>3. Phases'
  BY <1>1 DEF Phases
<1>4. Stamps'
  BY <1>1 DEF Stamps, TypeOK
<1>5. FreshIsComplete'
  BY <1>1 DEF FreshIsComplete
<1>6. Rebuilding'
  BY <1>1 DEF Rebuilding
<1>7. ServingIsComplete'
  BY <1>1 DEF ServingIsComplete
<1>8. Formats'
  BY <1>1 DEF Formats
<1> QED BY <1>2, <1>3, <1>4, <1>5, <1>6, <1>7, <1>8

LEMMA FlushAndEndPreserves ==
    ASSUME StartupAssumption, IInv, FlushAndEnd
    PROVE  IInv'
<1> USE DEF IInv, Starting, Serving
<1>1. /\ pc = "stopping" /\ disk' = disk \cup cached /\ Exit
      /\ UNCHANGED <<lastStarted, indexStarted, migration, running, crashed, lost>>
  BY DEF FlushAndEnd
<1>2. running' \in BOOLEAN /\ crashed' \in BOOLEAN /\ lost' \in BOOLEAN
  BY <1>1 DEF TypeOK
<1>3. migration' \in [Migrations -> States]
  BY <1>1 DEF TypeOK
<1>4. ~lost' => \A i \in Indexes : indexStarted[i] = lastStarted => content[i] = disk'
  BY <1>1 DEF ServingIsComplete, Stamps
<1> QED BY <1>1, <1>2, <1>3, <1>4, ExitPreserves

LEMMA KillPreserves ==
    ASSUME StartupAssumption, IInv, Kill
    PROVE  IInv'
<1> USE DEF IInv, Starting, Serving
<1>1. /\ pc # "down" /\ lost' = (lost \/ (pc = "stopping" /\ cached # {})) /\ Exit
      /\ UNCHANGED <<disk, lastStarted, indexStarted, migration, running, crashed>>
  BY DEF Kill, durable
<1>2. running' \in BOOLEAN /\ crashed' \in BOOLEAN /\ lost' \in BOOLEAN
  BY <1>1 DEF TypeOK
<1>3. migration' \in [Migrations -> States]
  BY <1>1 DEF TypeOK
<1>4. ASSUME ~running, ~crashed, ~lost, ~ (pc = "stopping" /\ cached # {}),
             NEW i \in Indexes, indexStarted[i] = lastStarted
      PROVE  content[i] = disk
  <2>1. CASE pc \in Starting \ {"stamp"}
    BY <1>4, <2>1 DEF FreshIsComplete
  <2>2. CASE pc = "stamp"
    BY <1>4, <2>2 DEF ServingIsComplete, Stamps, Phases
  <2>3. CASE pc = "stopping"
    BY <1>4, <2>3 DEF ServingIsComplete, Stamps
  <2> QED BY <1>1, <1>4, <2>1, <2>2, <2>3 DEF Phases, TypeOK
<1>5. ~running' /\ ~crashed' /\ ~lost' =>
         \A i \in Indexes : indexStarted[i] = lastStarted => content[i] = disk'
  BY <1>1, <1>4
<1> QED BY <1>1, <1>2, <1>3, <1>5, ExitPreserves

LEMMA InitIsSound ==
    ASSUME StartupAssumption, Init
    PROVE  IInv
<1> USE DEF Init, Starting, Serving, NullLastStartedAt, NullIndexLastStartedAt
<1>1. TypeOK
  BY DEF TypeOK, States, StartupAssumption
<1>2. Phases /\ Stamps /\ FreshIsComplete
  BY DEF Phases, Stamps, FreshIsComplete, StartupAssumption
<1>3. Rebuilding /\ ServingIsComplete /\ Formats
  BY DEF Rebuilding, ServingIsComplete, Formats
<1> QED BY <1>1, <1>2, <1>3 DEF IInv

LEMMA NextPreserves ==
    ASSUME StartupAssumption, IInv, [Next]_vars
    PROVE  IInv'
<1>1. CASE Next
  BY <1>1, StartPreserves, CheckMigrationPreserves, RunMigrationPreserves,
     MigrationRaisesPreserves, SelectIndexesPreserves, UnstampPreserves, ForceClearPreserves,
     StartBuildPreserves, InitLoopStepPreserves, StampDatabasePreserves, StampIndexPreserves,
     StartRunningPreserves, VertexPreserves, CrashPreserves, StopPreserves, FlushAndEndPreserves,
     KillPreserves DEF Next
<1>2. CASE UNCHANGED vars
  <2> USE <1>2 DEF vars, durable, process
  <2>1. TypeOK' /\ Phases'
    BY DEF IInv, TypeOK, Phases
  <2>2. Stamps' /\ FreshIsComplete' /\ Rebuilding'
    BY DEF IInv, Stamps, FreshIsComplete, Rebuilding
  <2>3. ServingIsComplete' /\ Formats'
    BY DEF IInv, ServingIsComplete, Formats, ToRun
  <2> QED BY <2>1, <2>2, <2>3 DEF IInv
<1> QED BY <1>1, <1>2

----------------------------------------------------------------------------
(* The inductive invariant: what the storage owes to the next start, and   *)
(* each phase of a start to the node that will run, through kills between  *)
(* any two durable writes.                                                 *)
THEOREM Invariance ==
    ASSUME StartupAssumption
    PROVE  Spec => []IInv
<1>1. Init => IInv
  BY InitIsSound
<1>2. IInv /\ [Next]_vars => IInv'
  BY NextPreserves
<1> QED BY <1>1, <1>2, PTL DEF Spec

(* The storage and the process always hold what their types say.           *)
THEOREM TypeCorrect ==
    ASSUME StartupAssumption
    PROVE  Spec => []TypeOK
<1>1. IInv => TypeOK
  BY DEF IInv
<1> QED BY <1>1, Invariance, PTL

(* A node that runs has its enabled indexes exactly as its storage is, and *)
(* no vertex older than a migration it takes as done, whatever indexes and *)
(* versions the earlier starts had and wherever they were killed           *)
(* (_manually_initialize, update_last_started_at,                          *)
(* _check_and_apply_migrations).                                           *)
THEOREM StartIsSound ==
    ASSUME StartupAssumption
    PROVE  Spec => []RunsOnSoundStorage
<1>1. ASSUME IInv, pc = "running" PROVE ~lost => \A i \in enabled : content[i] = disk \cup cached
  BY <1>1 DEF IInv, ServingIsComplete, Serving
<1>2. ASSUME IInv, pc = "running", NEW v \in disk \cup cached PROVE format[v] >= version
  <2>1. version \in Migrations /\ version \in 1..version
    BY <1>2 DEF IInv, TypeOK, StartupAssumption
  <2>2. migration[version] = Completed
    BY <1>2, <2>1 DEF IInv, Formats, Serving
  <2> QED BY <1>2, <2>1, <2>2 DEF IInv, Formats
<1>3. IInv => RunsOnSoundStorage
  BY <1>1, <1>2 DEF RunsOnSoundStorage
<1> QED BY <1>3, Invariance, PTL

(* Without the window of stop(): an index that carries the stamp of the    *)
(* database is complete whenever a start could trust it, so that skipping  *)
(* its rebuild is safe (NeedsInit, _manually_initialize).                  *)
THEOREM TrustedIndexIsComplete ==
    ASSUME StartupAssumption
    PROVE  Spec => []FreshIsComplete
<1>1. IInv => FreshIsComplete
  BY DEF IInv
<1> QED BY <1>1, Invariance, PTL
=============================================================================
