------------------------- MODULE FetchPipelineProofs -------------------------
(***************************************************************************)
(* Theorems about FetchPipeline, for any packages, sinks and numbers of    *)
(* records and events.                                                     *)
(*                                                                         *)
(* The argument: of what a fetch has read, or has been told by the state,  *)
(* every record is still held or is in the table, file or collection the   *)
(* fetch writes to.  What a fetch empties is either all held still, since  *)
(* nothing of the schema has been written yet, or is what no state that is *)
(* kept says to be there: the fetch was forced, which wiped remembers, or  *)
(* there was no state, or the state did not say that all is there.         *)
(*                                                                         *)
(* That a record is not written twice has an invariant of its own, at the  *)
(* end: what is open has nothing of what the fetch still has to write.     *)
(***************************************************************************)
EXTENDS FetchPipeline, TLAPS

-----------------------------------------------------------------------------
(* The invariant.                                                          *)

\* The states a fetch can be in.
Modes == {"closed", "direct", "staged", "dropped"}
Fetches ==
    [phase : Phases, read : 0..MaxRecords, preview : 0..MaxRecords, note : 0..MaxRecords,
     held : SUBSET Records, filtering : BOOLEAN, stopped : BOOLEAN, short : BOOLEAN,
     open : [Schemas -> Modes]]

\* TypeOK, but for the bound of the events.
Typed ==
    /\ <<package, sink, method, format>> \in Combinations
    /\ source \in [Sets -> 0..MaxRecords]
    /\ target \in [Schemas -> {None} \cup Content] /\ staging \in [Schemas -> {None} \cup Content]
    /\ saved \in State \cup {None, Torn} /\ base \in State \cup {None}
    /\ forced \in BOOLEAN /\ wiped \subseteq Sets /\ cut \subseteq Sets
    /\ fetch \in [Sets -> Fetches]
    /\ \A s \in Sets : fetch[s].read <= source[s] /\ fetch[s].preview <= source[s]

\* The combinations of sink and method that the two properties are about.
Kept == sink # "log" /\ (method = FullSet \/ sink = "file")

Active(s) == fetch[s].phase # "off"

\* Below, f is the fetch of s, x and y what stands in the sink and beside it,
\* b the state that was loaded, st any state, w and k the sets wiped and cut,
\* and n the number of records of the source.

\* A fetch that has loaded b replaces what is there.
Replaces(b) == b = None \/ method = FullSet

\* Record i of s is in x.
Has(x, s, i) == x[SchemaOf(s, i)] # None /\ x[SchemaOf(s, i)][i] > 0

\* Record i is where the fetch writes the records of its schema.
Stored(s, i, f, x, y) ==
    IF f.open[SchemaOf(s, i)] \in {"staged", "dropped"} THEN Has(y, s, i) ELSE Has(x, s, i)

\* Offsets up to which the fetch has dealt with the records.
Upto(f) == f.held \cup {f.read} \cup (IF method = FullSet THEN {} ELSE {f.note})

\* Nothing that the fetch is past is lost.
Covered(s, f, x, y, b, w) ==
    f.phase # "off" /\ (s \notin w \/ Replaces(b)) =>
       \A m \in Upto(f) : \A i \in 1..m : i \in f.held \/ Stored(s, i, f, x, y)

\* A fetch that replaces has written nothing of a schema it has still to open.
Unopened(s, f, b) ==
    f.phase # "off" /\ Replaces(b) =>
       \A c \in SchemasOf(s) :
          f.open[c] = "closed" /\ (f.phase = "reading" \/ \E i \in f.held : SchemaOf(s, i) = c) =>
             \A m \in Upto(f) : \A i \in 1..m : SchemaOf(s, i) = c => i \in f.held

\* What the phases of a fetch say.
PhaseSays(s, f, b) ==
    /\ f.phase = "off" => f = Off
    /\ f.phase = "committing" => f.held = {} /\ \A c \in SchemasOf(s) : f.open[c] = "closed"
    /\ f.phase \in {"ending", "committing"} /\ ~f.short /\ ~f.stopped => f.preview <= f.read
    /\ f.filtering => b # None /\ method # FullSet

\* A state that does not say that all n records are there.
News(s, st, n) == Known(s, st) => st[s].hash = None \/ st[s].hash # n

\* A fetch that is not forced is about records that no state says are there.
NewsOnly(s, f, b, force, st, n) ==
    ~force /\ f.phase # "off" => News(s, b, n) /\ News(s, st, n) /\ (b = None => ~Known(s, st))

\* What a state says of a stream set is so.
OffsetStands(s, st, x, w) ==
    method # FullSet /\ s \notin w /\ Known(s, st) => \A i \in 1..st[s].offset : Has(x, s, i)
HashStands(s, st, x, w, k, n) ==
    Known(s, st) /\ st[s].hash # None =>
       /\ st[s].hash <= n
       /\ s \notin w \cup k /\ st[s].hash = n => \A i \in 1..n : Has(x, s, i)
Stands(s, st, x, w, k, n) == OffsetStands(s, st, x, w) /\ HashStands(s, st, x, w, k, n)

Fits(s, f, x, y, b, w) == Covered(s, f, x, y, b, w) /\ Unopened(s, f, b) /\ PhaseSays(s, f, b)

SetInv(s) ==
    /\ Fits(s, fetch[s], target, staging, base, wiped)
    /\ NewsOnly(s, fetch[s], base, forced, Loaded, source[s])
    /\ Stands(s, Loaded, target, wiped, cut, source[s])
    /\ Stands(s, base, target, wiped, cut, source[s])

\* What is open is there, and a target that was dropped has nothing.
Right(store, x, y, how) ==
    /\ how = "direct" => x # None
    /\ how \in {"staged", "dropped"} => y # None /\ store # "file"
    /\ how = "dropped" => x = None \/ \A i \in Records : x[i] = 0
OpenThere(s) == \A c \in SchemasOf(s) : Right(sink, target[c], staging[c], fetch[s].open[c])

Inv ==
    /\ Typed
    /\ \A s \in Sets : OpenThere(s)
    /\ forced => base = None
    /\ sink = "log" => saved = None
    /\ Kept => \A s \in Sets : SetInv(s)

-----------------------------------------------------------------------------
(* Packages and fetches.                                                   *)

\* The remainder by a positive number.
LEMMA Remainder == ASSUME NEW a \in Nat, NEW n \in Nat \ {0} PROVE a % n \in 0..(n - 1)
OBVIOUS

\* Every record has a schema of its stream set, and no two stream sets share one.
LEMMA PackageFacts ==
    ASSUME Typed
    PROVE  /\ sink \in Sinks /\ method \in {FullSet, AppendOnly, Continuous}
           /\ Sets \subseteq StreamSets
           /\ \A s \in Sets : SchemasOf(s) \subseteq Schemas
           /\ \A s \in Sets, i \in Records : SchemaOf(s, i) \in SchemasOf(s)
           /\ \A s, t \in Sets : s # t => SchemasOf(s) \cap SchemasOf(t) = {}
<1>1. PICK combination \in Combinations :
         package = combination[1] /\ sink = combination[2] /\ method = combination[3]
  BY DEF Typed
<1>2. /\ \A s \in Sets : package[s] \in Seq(Schemas) \ {<<>>}
      /\ sink \in Sinks /\ method \in {FullSet, AppendOnly, Continuous}
      /\ \A s, t \in Sets : s # t => SchemasOf(s) \cap SchemasOf(t) = {}
  BY <1>1, CombinationsAssumption DEF Sets, SchemasOf
<1>3. Sets \subseteq StreamSets
  BY <1>1 DEF Sets, StreamSets
<1>4. ASSUME NEW s \in Sets PROVE SchemasOf(s) \subseteq Schemas
  BY <1>2 DEF SchemasOf, Range
<1>5. ASSUME NEW s \in Sets, NEW i \in Records PROVE SchemaOf(s, i) \in SchemasOf(s)
  <2>1. Len(package[s]) \in Nat \ {0} /\ DOMAIN package[s] = 1..Len(package[s])
    BY <1>2
  <2>2. i - 1 \in Nat
    BY DEF Records
  <2>3. (i - 1) % Len(package[s]) \in 0..(Len(package[s]) - 1)
    BY <2>1, <2>2, Remainder
  <2>4. ((i - 1) % Len(package[s])) + 1 \in DOMAIN package[s]
    BY <2>1, <2>3
  <2> QED BY <2>4 DEF SchemaOf, SchemasOf, Range
<1> QED BY <1>2, <1>3, <1>4, <1>5

\* The package stays as it is.
LEMMA PackageStays ==
    ASSUME UNCHANGED fixed
    PROVE  /\ Sets' = Sets /\ Kept' = Kept
           /\ \A s : SchemasOf(s)' = SchemasOf(s)
           /\ \A s, i : SchemaOf(s, i)' = SchemaOf(s, i)
BY DEF fixed, Sets, Kept, SchemasOf, SchemaOf

\* Where one writable stands has changed.
LEMMA OpenedFact ==
    ASSUME fetch \in [Sets -> Fetches], NEW s \in Sets, NEW c \in Schemas, NEW how \in Modes,
           Opened(s, c, how)
    PROVE  /\ fetch' \in [Sets -> Fetches]
           /\ \A t \in Sets \ {s} : fetch'[t] = fetch[t]
           /\ fetch'[s] = [fetch[s] EXCEPT !.open = fetch'[s].open]
           /\ fetch'[s].open[c] = how
           /\ \A d \in Schemas \ {c} : fetch'[s].open[d] = fetch[s].open[d]
<1>1. fetch[s] \in Fetches /\ fetch[s].open \in [Schemas -> Modes]
  BY DEF Fetches
<1>2. fetch'[s] = [fetch[s] EXCEPT !.open = [fetch[s].open EXCEPT ![c] = how]]
  BY <1>1 DEF Opened
<1>3. [fetch[s].open EXCEPT ![c] = how] \in [Schemas -> Modes]
  BY <1>1
<1>4. fetch'[s] \in Fetches
  BY <1>1, <1>2, <1>3 DEF Fetches
<1>5. fetch'[s].open = [fetch[s].open EXCEPT ![c] = how]
  BY <1>1, <1>2 DEF Fetches
<1>6. fetch' = [fetch EXCEPT ![s] = fetch'[s]]
  BY DEF Opened
<1> QED BY <1>1, <1>2, <1>4, <1>5, <1>6

LEMMA OpenedHow ==
    ASSUME fetch \in [Sets -> Fetches], NEW s \in Sets, NEW c \in Schemas, NEW how \in Modes,
           Opened(s, c, how)
    PROVE  fetch'[s].open[c] = how
<1>1. fetch[s] \in Fetches /\ fetch[s].open \in [Schemas -> Modes]
  BY DEF Fetches
<1>2. fetch'[s].open = [fetch[s].open EXCEPT ![c] = how]
  BY <1>1 DEF Opened, Fetches
<1> QED BY <1>1, <1>2

-----------------------------------------------------------------------------
(* Types.                                                                  *)

\* What a step that opens or closes a writable changes.
Moved(s, c, x, y, how, w) ==
    /\ target' = [target EXCEPT ![c] = x] /\ staging' = [staging EXCEPT ![c] = y]
    /\ Opened(s, c, how)
    /\ wiped' = w
    /\ UNCHANGED <<fixed, source, saved, base, forced, cut>>

\* No record.
LEMMA NothingFact == Nothing \in Content /\ Nothing # None /\ \A i \in Records : Nothing[i] = 0
BY NoneAssumption DEF Nothing, Content

Moves(s, c) == Open(s, c) \/ CloseDirect(s, c) \/ Upload(s, c) \/ DropOld(s, c) \/ RenameNew(s, c)

\* What there is, when a writable is opened or closed.
LEMMA MoveFact ==
    ASSUME Typed, NEW s \in Sets, OpenThere(s), NEW c \in SchemasOf(s), Moves(s, c)
    PROVE  \E x, y \in {None} \cup Content, how \in Modes, w \in {wiped, wiped \cup {s}} :
              Right(sink, x, y, how) /\ Moved(s, c, x, y, how, w)
<1> DEFINE Goal(x, y, how, w) == Right(sink, x, y, how) /\ Moved(s, c, x, y, how, w)
<1> SUFFICES \E x, y \in {None} \cup Content, how \in Modes, w \in {wiped, wiped \cup {s}} : Goal(x, y, how, w)
  OBVIOUS
<1>1. /\ c \in Schemas /\ target[c] \in {None} \cup Content /\ staging[c] \in {None} \cup Content
      /\ target = [target EXCEPT ![c] = target[c]] /\ staging = [staging EXCEPT ![c] = staging[c]]
      /\ fetch[s].open[c] \in Modes
  BY PackageFacts DEF Typed, Fetches
<1>2. Right(sink, target[c], staging[c], fetch[s].open[c])
  BY DEF OpenThere
<1>w. ASSUME Wipe(s, c) PROVE wiped' \in {wiped, wiped \cup {s}}
  BY <1>w DEF Wipe
<1> USE NothingFact DEF Moved, Right, Modes, sinkVars
<1>3. CASE OpenFile(s, c)
  <2>1. target' = [target EXCEPT ![c] = target'[c]] /\ target'[c] \in Content
    BY <1>1, <1>3 DEF OpenFile, Emptied, Created, Typed
  <2>2. wiped' \in {wiped, wiped \cup {s}}
    BY <1>3, <1>w DEF OpenFile
  <2>3. Goal(target'[c], staging[c], "direct", wiped')
    BY <1>1, <1>3, <2>1, NoneAssumption DEF OpenFile
  <2> QED BY <1>1, <2>1, <2>2, <2>3
<1>4. CASE OpenObject(s, c)
  <2>1. Goal(target[c], Nothing, "staged", wiped)
    BY <1>1, <1>4 DEF OpenObject, Emptied
  <2> QED BY <1>1, <2>1
<1>5. CASE OpenTable(s, c)
  <2>1. CASE Exists(c)
    <3>1. staging' = [staging EXCEPT ![c] = staging'[c]] /\ staging'[c] \in Content
      BY <1>1, <1>5, <2>1 DEF OpenTable, Emptied, Created, Typed
    <3>2. Goal(target[c], staging'[c], "staged", wiped)
      BY <1>1, <1>5, <2>1, <3>1, NoneAssumption DEF OpenTable
    <3> QED BY <1>1, <3>1, <3>2
  <2>2. CASE ~Exists(c)
    <3>1. Goal(Nothing, staging[c], "direct", wiped')
      BY <1>1, <1>5, <2>2 DEF OpenTable, Emptied
    <3> QED BY <1>1, <1>5, <1>w, <2>2, <3>1 DEF OpenTable
  <2> QED BY <2>1, <2>2
<1>6. CASE OpenRedshift(s, c)
  <2>1. Goal(Nothing, Nothing, "staged", wiped')
    BY <1>1, <1>6 DEF OpenRedshift, Emptied
  <2> QED BY <1>6, <1>w, <2>1 DEF OpenRedshift
<1>7. CASE OpenWarehouse(s, c)
  <2>1. Goal(target[c], Nothing, "staged", wiped) \/ Goal(Nothing, staging[c], "direct", wiped)
    BY <1>1, <1>7 DEF OpenWarehouse, Emptied
  <2> QED BY <1>1, <2>1
<1>8. CASE OpenCollection(s, c)
  <2>1. CASE target[c] # None
    <3>1. staging' = [staging EXCEPT ![c] = staging'[c]] /\ staging'[c] \in Content
      BY <1>1, <1>8, <2>1 DEF OpenCollection, Emptied, Created, Typed
    <3>2. Goal(target[c], staging'[c], "staged", wiped)
      BY <1>1, <1>8, <2>1, <3>1, NoneAssumption DEF OpenCollection
    <3> QED BY <1>1, <3>1, <3>2
  <2>2. CASE target[c] = None
    <3>1. Goal(Nothing, staging[c], "direct", wiped)
      BY <1>1, <1>8, <2>2 DEF OpenCollection, Emptied
    <3> QED BY <1>1, <3>1
  <2> QED BY <2>1, <2>2
<1>9. CASE OpenTopic(s, c)
  <2>1. target' = [target EXCEPT ![c] = target'[c]] /\ target'[c] \in Content
    BY <1>1, <1>9 DEF OpenTopic, Emptied, Created, Typed
  <2>2. Goal(target'[c], staging[c], "direct", wiped)
    BY <1>1, <1>9, <2>1, NoneAssumption DEF OpenTopic
  <2> QED BY <1>1, <2>1, <2>2
<1>10. CASE CloseDirect(s, c)
  <2>1. Goal(target[c], staging[c], "closed", wiped)
    BY <1>1, <1>10 DEF CloseDirect
  <2> QED BY <1>1, <2>1
<1>11. CASE Upload(s, c) \/ RenameNew(s, c)
  <2>1. Goal(staging[c], None, "closed", wiped')
    BY <1>1, <1>11 DEF Upload, RenameNew
  <2>2. wiped' \in {wiped, wiped \cup {s}}
    BY <1>11, <1>w DEF Upload, RenameNew
  <2> QED BY <1>1, <2>1, <2>2
<1>12. CASE DropOld(s, c)
  <2>1. fetch[s].open[c] = "staged" /\ sink # "file"
    BY <1>12 DEF DropOld, Completing
  <2>2. Goal(IF sink = "warehouse" THEN Nothing ELSE None, staging[c], "dropped", wiped')
    BY <1>1, <1>2, <1>12, <2>1 DEF DropOld
  <2> QED BY <1>1, <1>12, <1>w, <2>2 DEF DropOld
<1> HIDE DEF Goal
<1> QED BY <1>3, <1>4, <1>5, <1>6, <1>7, <1>8, <1>9, <1>10, <1>11, <1>12 DEF Moves, Open

\* A step of one stream set leaves the others as they are.
Alone(s) ==
    \A t \in Sets \ {s} :
       /\ fetch'[t] = fetch[t] /\ source'[t] = source[t]
       /\ (t \in wiped' <=> t \in wiped) /\ (t \in cut' <=> t \in cut)
       /\ \A c \in SchemasOf(t) : target'[c] = target[c] /\ staging'[c] = staging[c]

AllThere == \A s \in Sets : OpenThere(s)

\* What Right says of a writable depends on the sink, which stays.
LEMMA RightStays ==
    ASSUME Typed, UNCHANGED fixed, NEW s \in Sets,
           \A c \in SchemasOf(s) : Right(sink, target'[c], staging'[c], fetch'[s].open[c])
    PROVE  OpenThere(s)'
<1>1. SchemasOf(s)' = SchemasOf(s)
  BY PackageStays
<1>2. sink' = sink
  BY DEF fixed
<1> QED BY <1>1, <1>2 DEF OpenThere

\* The others' writables are where they were.
LEMMA AloneThere ==
    ASSUME Typed, AllThere, UNCHANGED fixed, NEW s \in Sets, Alone(s), OpenThere(s)'
    PROVE  AllThere'
<1>1. ASSUME NEW t \in Sets \ {s} PROVE OpenThere(t)'
  <2>1. \A c \in SchemasOf(t) : Right(sink, target'[c], staging'[c], fetch'[t].open[c])
    BY DEF Alone, AllThere, OpenThere
  <2> QED BY <2>1, RightStays
<1>2. Sets' = Sets
  BY PackageStays
<1> QED BY <1>1, <1>2 DEF AllThere

\* A writable is opened or closed.
LEMMA MoveType ==
    ASSUME Typed, AllThere, NEW s \in Sets, NEW c \in SchemasOf(s), Moves(s, c)
    PROVE  Typed' /\ AllThere' /\ Alone(s)
<1>1. PICK x \in {None} \cup Content, y \in {None} \cup Content, how \in Modes,
           w \in {wiped, wiped \cup {s}} : Right(sink, x, y, how) /\ Moved(s, c, x, y, how, w)
  BY MoveFact DEF AllThere
<1>2. c \in Schemas
  BY PackageFacts
<1>3. /\ fetch' \in [Sets -> Fetches]
      /\ \A t \in Sets \ {s} : fetch'[t] = fetch[t]
      /\ fetch'[s] = [fetch[s] EXCEPT !.open = fetch'[s].open]
      /\ fetch'[s].open[c] = how
      /\ \A d \in Schemas \ {c} : fetch'[s].open[d] = fetch[s].open[d]
  BY <1>1, <1>2, OpenedFact DEF Moved, Typed
<1>4. fetch'[s].read = fetch[s].read /\ fetch'[s].preview = fetch[s].preview
  BY <1>3 DEF Typed, Fetches
<1>5. /\ target' \in [Schemas -> {None} \cup Content] /\ target'[c] = x
      /\ \A d \in Schemas \ {c} : target'[d] = target[d]
      /\ staging' \in [Schemas -> {None} \cup Content] /\ staging'[c] = y
      /\ \A d \in Schemas \ {c} : staging'[d] = staging[d]
  BY <1>1, <1>2 DEF Moved, Typed
<1>6. /\ UNCHANGED <<package, sink, method, format, source, saved, base, forced, cut>>
      /\ wiped' \in {wiped, wiped \cup {s}} /\ UNCHANGED fixed
  BY <1>1 DEF Moved, fixed
<1>7. Sets' = Sets
  BY <1>6, PackageStays
<1>8. Typed'
  <2>1. \A t \in Sets : fetch'[t].read <= source'[t] /\ fetch'[t].preview <= source'[t]
    BY <1>3, <1>4, <1>6 DEF Typed
  <2>2. /\ State' = State /\ Content' = Content /\ Fetches' = Fetches
    BY DEF State, SetState, Content, Fetches, Records
  <2> QED BY <1>3, <1>5, <1>6, <1>7, <2>1, <2>2 DEF Typed
<1>9. Alone(s)
  <2>1. \A t \in Sets \ {s} : SchemasOf(t) \subseteq Schemas \ {c}
    BY PackageFacts
  <2> QED BY <1>3, <1>5, <1>6, <2>1 DEF Alone
<1>10. OpenThere(s)'
  <2>1. \A d \in SchemasOf(s) : Right(sink, target'[d], staging'[d], fetch'[s].open[d])
    BY <1>1, <1>3, <1>5, PackageFacts DEF AllThere, OpenThere
  <2> QED BY <1>6, <2>1, RightStays
<1> QED BY <1>6, <1>8, <1>9, <1>10, AloneThere

\* Fetches change, the sink and its writables do not, but that they may close.
LEMMA FetchesType ==
    ASSUME Typed, AllThere, UNCHANGED <<fixed, source, sinkVars>>,
           fetch' \in [Sets -> Fetches],
           \A s \in Sets : /\ fetch'[s].open \in {fetch[s].open, Off.open}
                          /\ fetch'[s].read <= source[s] /\ fetch'[s].preview <= source[s],
           saved' \in State \cup {None, Torn}, base' \in State \cup {None}, forced' \in BOOLEAN,
           wiped' \subseteq Sets, cut' \subseteq Sets
    PROVE  Typed' /\ AllThere'
<1>1. UNCHANGED fixed /\ UNCHANGED <<package, sink, method, format, source, target, staging>>
  BY DEF fixed, sinkVars
<1>2. /\ State' = State /\ Content' = Content /\ Fetches' = Fetches /\ Sets' = Sets
  BY <1>1, PackageStays DEF State, SetState, Content, Fetches, Records
<1>3. Typed'
  BY <1>1, <1>2 DEF Typed
<1>4. ASSUME NEW s \in Sets PROVE OpenThere(s)'
  <2>1. \A c \in SchemasOf(s) : Right(sink, target'[c], staging'[c], fetch'[s].open[c])
    BY <1>1, PackageFacts DEF AllThere, OpenThere, Off, Right
  <2> QED BY <1>1, <2>1, RightStays
<1> QED BY <1>2, <1>3, <1>4 DEF AllThere

\* Once adds what is written, and takes nothing away.
LEMMA OnceFact ==
    ASSUME NEW content \in Content, NEW written
    PROVE  /\ Once(content, written) \in Content
           /\ \A i \in Records : Once(content, written)[i] > 0 <=> content[i] > 0 \/ i \in written
<1>1. \A i \in Records : content[i] \in 0..2
  BY DEF Content
<1>2. \A i \in Records : (IF i \in written /\ content[i] < 2 THEN content[i] + 1 ELSE content[i]) \in 0..2
  BY <1>1
<1> QED BY <1>1, <1>2 DEF Once, Content

\* Where a writable of mode how writes to.
Grown(old, new, c, written) ==
    /\ \A d \in Schemas \ {c} : new[d] = old[d]
    /\ old[c] # None /\ new[c] \in Content
    /\ \A i \in Records : new[c][i] > 0 <=> old[c][i] > 0 \/ i \in written

\* A writable writes what it holds.
LEMMA FlushFact ==
    ASSUME Typed, AllThere, NEW s \in Sets, NEW c \in SchemasOf(s), Flush(s, c)
    PROVE  /\ \E last \in HeldFor(s, c) :
                 /\ fetch'[s] = [fetch[s] EXCEPT !.note = Notes(s, last), !.held = fetch[s].held \ HeldFor(s, c)]
                 /\ fetch'[s] \in Fetches
           /\ \A t \in Sets \ {s} : fetch'[t] = fetch[t]
           /\ fetch' \in [Sets -> Fetches]
           /\ target' \in [Schemas -> {None} \cup Content] /\ staging' \in [Schemas -> {None} \cup Content]
           /\ \/ fetch[s].open[c] = "direct" /\ staging' = staging /\ Grown(target, target', c, HeldFor(s, c))
              \/ fetch[s].open[c] \in {"staged", "dropped"} /\ target' = target
                 /\ Grown(staging, staging', c, HeldFor(s, c))
<1>1. /\ c \in Schemas /\ fetch[s] \in Fetches /\ fetch[s].open[c] \in Modes
      /\ Right(sink, target[c], staging[c], fetch[s].open[c])
  BY PackageFacts DEF Typed, AllThere, OpenThere, Fetches
<1>2. PICK last \in HeldFor(s, c) :
         fetch' = [fetch EXCEPT ![s].note = Notes(s, last), ![s].held = @ \ HeldFor(s, c)]
  BY DEF Flush
<1>3. Notes(s, last) \in 0..MaxRecords
  BY <1>1 DEF HeldFor, Fetches, Records, Notes
<1>4. fetch'[s] = [fetch[s] EXCEPT !.note = Notes(s, last), !.held = fetch[s].held \ HeldFor(s, c)]
  BY <1>2 DEF Typed
<1>5. fetch'[s] \in Fetches
  BY <1>1, <1>3, <1>4 DEF Fetches
<1>6. fetch' \in [Sets -> Fetches] /\ \A t \in Sets \ {s} : fetch'[t] = fetch[t]
  BY <1>2, <1>5 DEF Typed
<1>7. CASE fetch[s].open[c] = "direct"
  <2>1. target[c] \in Content /\ target[c] # None
    BY <1>1, <1>7 DEF Right, Typed
  <2>2. target' = [target EXCEPT ![c] = Once(target[c], HeldFor(s, c))] /\ staging' = staging
    BY <1>7 DEF Flush
  <2>3. target'[c] = Once(target[c], HeldFor(s, c)) /\ \A d \in Schemas \ {c} : target'[d] = target[d]
    BY <1>1, <2>2 DEF Typed
  <2>4. target' \in [Schemas -> {None} \cup Content]
    BY <1>1, <2>1, <2>2, OnceFact DEF Typed
  <2>5. Grown(target, target', c, HeldFor(s, c))
    BY <2>1, <2>3, OnceFact DEF Grown
  <2>6. staging' \in [Schemas -> {None} \cup Content]
    BY <2>2 DEF Typed
  <2> QED BY <1>4, <1>5, <1>6, <1>7, <2>2, <2>4, <2>5, <2>6
<1>8. CASE fetch[s].open[c] \in {"staged", "dropped"}
  <2>1. staging[c] \in Content /\ staging[c] # None
    BY <1>1, <1>8 DEF Right, Typed
  <2>2. staging' = [staging EXCEPT ![c] = Once(staging[c], HeldFor(s, c))] /\ target' = target
    BY <1>8 DEF Flush
  <2>3. staging'[c] = Once(staging[c], HeldFor(s, c)) /\ \A d \in Schemas \ {c} : staging'[d] = staging[d]
    BY <1>1, <2>2 DEF Typed
  <2>4. staging' \in [Schemas -> {None} \cup Content]
    BY <1>1, <2>1, <2>2, OnceFact DEF Typed
  <2>5. Grown(staging, staging', c, HeldFor(s, c))
    BY <2>1, <2>3, OnceFact DEF Grown
  <2>6. target' \in [Schemas -> {None} \cup Content]
    BY <2>2 DEF Typed
  <2> QED BY <1>4, <1>5, <1>6, <1>8, <2>2, <2>4, <2>5, <2>6
<1> QED BY <1>1, <1>7, <1>8 DEF Flush, Modes

\* The same, for the types.
LEMMA FlushType ==
    ASSUME Typed, AllThere, NEW s \in Sets, NEW c \in SchemasOf(s), Flush(s, c)
    PROVE  Typed' /\ AllThere' /\ Alone(s)
<1>1. UNCHANGED <<package, sink, method, format, source, saved, base, forced, wiped, cut>> /\ UNCHANGED fixed
  BY DEF Flush, fixed
<1>2. PICK last \in HeldFor(s, c) :
                 /\ fetch'[s] = [fetch[s] EXCEPT !.note = Notes(s, last), !.held = fetch[s].held \ HeldFor(s, c)]
                 /\ fetch'[s] \in Fetches
  BY FlushFact
<1>3. /\ \A t \in Sets \ {s} : fetch'[t] = fetch[t]
      /\ fetch' \in [Sets -> Fetches]
      /\ target' \in [Schemas -> {None} \cup Content] /\ staging' \in [Schemas -> {None} \cup Content]
      /\ \/ fetch[s].open[c] = "direct" /\ staging' = staging /\ Grown(target, target', c, HeldFor(s, c))
         \/ fetch[s].open[c] \in {"staged", "dropped"} /\ target' = target
            /\ Grown(staging, staging', c, HeldFor(s, c))
  BY FlushFact
<1>4. fetch'[s].read = fetch[s].read /\ fetch'[s].preview = fetch[s].preview /\ fetch'[s].open = fetch[s].open
  BY <1>2 DEF Typed, Fetches
<1>5. Typed'
  <2>1. \A t \in Sets : fetch'[t].read <= source'[t] /\ fetch'[t].preview <= source'[t]
    BY <1>1, <1>3, <1>4 DEF Typed
  <2>2. /\ State' = State /\ Content' = Content /\ Fetches' = Fetches /\ Sets' = Sets
    BY <1>1, PackageStays DEF State, SetState, Content, Fetches, Records
  <2> QED BY <1>1, <1>3, <2>1, <2>2 DEF Typed
<1>6. /\ c \in Schemas /\ \A t \in Sets \ {s} : SchemasOf(t) \subseteq Schemas \ {c}
      /\ SchemasOf(s) \subseteq Schemas
  BY PackageFacts
<1>7. Alone(s)
  BY <1>1, <1>3, <1>6 DEF Alone, Grown
<1>8. OpenThere(s)'
  <2>1. ASSUME NEW d \in SchemasOf(s) PROVE Right(sink, target'[d], staging'[d], fetch'[s].open[d])
    <3>1. Right(sink, target[d], staging[d], fetch[s].open[d])
      BY DEF AllThere, OpenThere
    <3>2. CASE d # c
      BY <1>3, <1>4, <1>6, <3>1, <3>2 DEF Grown
    <3>3. CASE d = c
      BY <1>3, <1>4, <3>1, <3>3, NoneAssumption DEF Grown, Right
    <3> QED BY <3>2, <3>3
  <2> QED BY <1>1, <2>1, RightStays
<1> QED BY <1>1, <1>5, <1>7, <1>8, AloneThere

\* No fetch is one of the fetches.
LEMMA OffFact == Typed => /\ Off \in Fetches /\ Off.open \in [Schemas -> Modes] /\ Off.phase = "off"
                          /\ Off.read = 0 /\ Off.preview = 0 /\ Off.held = {} /\ ~Off.filtering
BY RecordsAssumption DEF Off, Fetches, Modes, Phases

\* Of the fetch of s, its phase, how much it has read, what it holds and what it
\* filters may change.
Goes(s, f) == fetch' = [fetch EXCEPT ![s] = f] /\ f \in Fetches /\ f.open = fetch[s].open

LEMMA GoesFact ==
    ASSUME Typed, NEW s \in Sets, NEW f, Goes(s, f)
    PROVE  fetch' \in [Sets -> Fetches] /\ fetch'[s] = f /\ \A t \in Sets \ {s} : fetch'[t] = fetch[t]
BY DEF Typed, Goes

\* Reading.
LEMMA ReadFact ==
    ASSUME Typed, NEW s \in Sets, Read(s)
    PROVE  \E f : /\ Goes(s, f) /\ f.read = fetch[s].read + 1 /\ f.read \in Records /\ f.read <= source[s]
                  /\ f.held = (IF Passes(s, f.read) THEN fetch[s].held \cup {f.read} ELSE fetch[s].held)
                  /\ f = [fetch[s] EXCEPT !.read = f.read, !.held = f.held]
<1> DEFINE i == fetch[s].read + 1
           h == IF Passes(s, i) THEN fetch[s].held \cup {i} ELSE fetch[s].held
           f == [fetch[s] EXCEPT !.read = i, !.held = h]
<1>1. fetch[s] \in Fetches /\ source[s] \in 0..MaxRecords /\ fetch[s].read < source[s]
  BY DEF Typed, Read
<1>2. i \in Records /\ i \in 0..MaxRecords /\ i <= source[s]
  BY <1>1, RecordsAssumption DEF Records, Fetches
<1>3. h \in SUBSET Records
  BY <1>1, <1>2 DEF Fetches
<1>4. fetch' = [fetch EXCEPT ![s] = f]
  BY <1>1 DEF Read, Typed
<1> HIDE DEF i, h
<1>5. f \in Fetches /\ f.open = fetch[s].open /\ f.read = i /\ f.held = h
  BY <1>1, <1>2, <1>3 DEF Fetches
<1>6. Goes(s, f)
  BY <1>4, <1>5 DEF Goes
<1> QED BY <1>2, <1>5, <1>6 DEF i, h

\* The other steps that change nothing but the fetch, and those that also begin to save.
LEMMA TurnFact ==
    ASSUME Typed, NEW s \in Sets, EndOfSource(s) \/ EndsEarly(s) \/ Reconnect(s) \/ BeginCommit(s)
    PROVE  \E f : /\ Goes(s, f) /\ f.read <= source[s] /\ f.preview = fetch[s].preview
                  /\ f.note = fetch[s].note /\ f.held = fetch[s].held /\ f.stopped = fetch[s].stopped
                  /\ f.phase # "off"
                  /\ EndOfSource(s) => f = [fetch[s] EXCEPT !.phase = "ending"]
                  /\ EndsEarly(s) => f = [fetch[s] EXCEPT !.phase = "ending", !.short = TRUE]
                  /\ Reconnect(s) => f = [fetch[s] EXCEPT !.read = 0, !.filtering = (base # None)]
                  /\ BeginCommit(s) => f = [fetch[s] EXCEPT !.phase = "committing"]
<1>1. fetch[s] \in Fetches /\ fetch[s].read <= source[s] /\ source[s] \in 0..MaxRecords
  BY DEF Typed
<1>2. fetch' = [fetch EXCEPT ![s] = fetch'[s]]
  BY DEF Typed, EndOfSource, EndsEarly, Reconnect, BeginCommit
<1>3. /\ EndOfSource(s) => fetch'[s] = [fetch[s] EXCEPT !.phase = "ending"]
      /\ EndsEarly(s) => fetch'[s] = [fetch[s] EXCEPT !.phase = "ending", !.short = TRUE]
      /\ Reconnect(s) => fetch'[s] = [fetch[s] EXCEPT !.read = 0, !.filtering = (base # None)]
      /\ BeginCommit(s) => fetch'[s] = [fetch[s] EXCEPT !.phase = "committing"]
  BY DEF Typed, EndOfSource, EndsEarly, Reconnect, BeginCommit
<1>4. Reconnect(s) => fetch[s].phase = "reading"
  BY DEF Reconnect, Reading
<1>5. /\ fetch'[s] \in Fetches /\ fetch'[s].open = fetch[s].open /\ fetch'[s].read <= source[s]
      /\ fetch'[s].preview = fetch[s].preview /\ fetch'[s].note = fetch[s].note
      /\ fetch'[s].held = fetch[s].held /\ fetch'[s].stopped = fetch[s].stopped /\ fetch'[s].phase # "off"
  <2>1. CASE EndOfSource(s)
    BY <1>1, <1>3, <2>1 DEF Fetches, Phases
  <2>2. CASE EndsEarly(s)
    BY <1>1, <1>3, <2>2 DEF Fetches, Phases
  <2>3. CASE Reconnect(s)
    <3> DEFINE f == [fetch[s] EXCEPT !.read = 0, !.filtering = (base # None)]
    <3>1. 0 \in 0..MaxRecords /\ 0 <= source[s]
      BY <1>1, RecordsAssumption
    <3>2. (base # None) \in BOOLEAN
      OBVIOUS
    <3>3. /\ f.open = fetch[s].open /\ f.read = 0 /\ f.preview = fetch[s].preview /\ f.note = fetch[s].note
          /\ f.held = fetch[s].held /\ f.stopped = fetch[s].stopped /\ f.phase = fetch[s].phase
      BY <1>1 DEF Fetches
    <3>4. f \in Fetches
      BY <1>1, <3>1, <3>2 DEF Fetches
    <3> HIDE DEF f
    <3>5. fetch'[s] = f
      BY <1>3, <2>3 DEF f
    <3> QED BY <1>4, <2>3, <3>1, <3>3, <3>4, <3>5
  <2>4. CASE BeginCommit(s)
    BY <1>1, <1>3, <2>4 DEF Fetches, Phases
  <2> QED BY <2>1, <2>2, <2>3, <2>4
<1>6. Goes(s, fetch'[s])
  BY <1>2, <1>5 DEF Goes
<1> QED BY <1>3, <1>5, <1>6

\* A fetch is over.
LEMMA FinishedFact ==
    ASSUME Typed, NEW s \in Sets, Finished(s)
    PROVE  /\ fetch' \in [Sets -> Fetches] /\ fetch'[s] = Off
           /\ \A t \in Sets \ {s} : fetch'[t] = fetch[t]
           /\ \/ (\A t \in Sets \ {s} : ~Active(t)) /\ base' = None /\ forced' = FALSE
              \/ base' = base /\ forced' = forced
BY OffFact DEF Typed, Finished, Active

\* The user stops the fetches.
LEMMA StopFact ==
    ASSUME Typed, Stop
    PROVE  /\ fetch' \in [Sets -> Fetches]
           /\ \A s \in Sets : fetch'[s] = IF Reading(s) THEN [fetch[s] EXCEPT !.phase = "ending", !.stopped = TRUE]
                                                        ELSE fetch[s]
<1>1. \A s \in Sets : [fetch[s] EXCEPT !.phase = "ending", !.stopped = TRUE] \in Fetches
  BY DEF Typed, Fetches, Phases
<1> QED BY <1>1 DEF Stop, Typed

\* The state a fetch loads.
First(force) == IF force THEN None ELSE Loaded

\* What a fetch begins with.
Begun(s, state) ==
    [Off EXCEPT !.phase = "reading", !.preview = source[s],
                !.note = IF Known(s, state) THEN state[s].offset ELSE 0,
                !.filtering = Filtering(s, state)]

LEMMA BegunFact ==
    ASSUME Typed, NEW s \in Sets, NEW state \in State \cup {None}
    PROVE  /\ Begun(s, state) \in Fetches /\ Begun(s, state).phase = "reading"
           /\ Begun(s, state).open = Off.open /\ Begun(s, state).read = 0
           /\ Begun(s, state).preview = source[s] /\ Begun(s, state).held = {}
           /\ Begun(s, state).note = (IF Known(s, state) THEN state[s].offset ELSE 0)
           /\ Begun(s, state).filtering = Filtering(s, state)
<1>1. (IF Known(s, state) THEN state[s].offset ELSE 0) \in 0..MaxRecords
  <2>1. CASE Known(s, state)
    <3>1. state \in State /\ s \in StreamSets /\ state[s] # None
      BY <2>1, PackageFacts DEF Known
    <3>2. state[s] \in SetState
      BY <3>1 DEF State
    <3> QED BY <2>1, <3>2 DEF SetState
  <2>2. CASE ~Known(s, state)
    BY <2>2, RecordsAssumption
  <2> QED BY <2>1, <2>2
<1>2. Filtering(s, state) \in BOOLEAN
  BY DEF Filtering, Known
<1>3. source[s] \in 0..MaxRecords
  BY DEF Typed
<1> HIDE DEF Known, Filtering
<1> QED BY <1>1, <1>2, <1>3, OffFact DEF Begun, Fetches, Phases, Off

LEMMA StartFact ==
    ASSUME Typed, NEW force \in BOOLEAN, StartFetch(force)
    PROVE  /\ First(force) \in State \cup {None}
           /\ base' = First(force) /\ forced' = force
           /\ fetch' \in [Sets -> Fetches]
           /\ \A s \in Sets : \/ fetch'[s] = Off
                              \/ NewRecordsAvailable(s, First(force)) /\ fetch'[s] = Begun(s, First(force))
           /\ \A s \in Sets : ~Active(s)
<1>1. First(force) \in State \cup {None}
  BY DEF First, Loaded, Typed
<1>2. /\ base' = First(force) /\ forced' = force
      /\ fetch' = [s \in Sets |-> IF s \notin {t \in Sets : NewRecordsAvailable(t, First(force))} THEN Off
                                  ELSE Begun(s, First(force))]
  BY DEF StartFetch, First, Begun
<1>3. \A s \in Sets : ~Active(s)
  BY DEF StartFetch, Running, Active
<1>4. fetch' \in [Sets -> Fetches]
  BY <1>1, <1>2, BegunFact, OffFact
<1> QED BY <1>1, <1>2, <1>3, <1>4

\* The state that is saved.
LEMMA FinalFact ==
    ASSUME Typed, NEW s \in Sets
    PROVE  /\ FinalState(s) \in State /\ FinalState(s)[s].offset = fetch[s].note
           /\ FinalState(s)[s].hash = (IF fetch[s].stopped THEN None ELSE fetch[s].preview)
           /\ \A t \in Sets \ {s} : FinalState(s)[t] = IF base = None THEN None ELSE base[t]
<1>1. fetch[s] \in Fetches /\ Sets \subseteq StreamSets
  BY PackageFacts DEF Typed
<1>2. [offset |-> fetch[s].note, hash |-> IF fetch[s].stopped THEN None ELSE fetch[s].preview] \in SetState
  BY <1>1 DEF Fetches, SetState
<1>3. \A t \in StreamSets : (IF base = None THEN None ELSE base[t]) \in {None} \cup SetState
  BY DEF Typed, State
<1> QED BY <1>1, <1>2, <1>3 DEF FinalState, State

Turns(s) == EndOfSource(s) \/ EndsEarly(s) \/ Reconnect(s) \/ BeginCommit(s)
Dies == Die /\ UNCHANGED <<fixed, source, sinkVars, saved, wiped, cut>>

\* The steps there are.
LEMMA Steps ==
    ASSUME [Next]_vars
    PROVE  \/ \E force \in BOOLEAN : StartFetch(force)
           \/ \E s \in Sets : Produce(s) \/ Read(s) \/ Turns(s) \/ SaveState(s) \/ Fail(s)
           \/ \E s \in Sets : \E c \in SchemasOf(s) : Moves(s, c) \/ Flush(s, c)
           \/ Stop \/ Dies \/ UNCHANGED vars
<1>1. ASSUME NEW s \in Sets, NEW c \in SchemasOf(s), Writing(s, c) PROVE Moves(s, c) \/ Flush(s, c)
  BY <1>1 DEF Writing, Moves
<1>2. ASSUME NEW s \in Sets, NEW c \in SchemasOf(s), OpenFails(s, c) PROVE Dies
  BY <1>2 DEF OpenFails, Dies
<1>3. Crash => Dies
  BY DEF Crash, Dies
<1> QED BY <1>1, <1>2, <1>3 DEF Next, Progress, Turns

\* A step of one stream set leaves the others alone.
LEMMA OneSetStep ==
    ASSUME Typed, AllThere, NEW s \in Sets,
           \/ Produce(s) \/ Read(s) \/ Turns(s) \/ SaveState(s) \/ Fail(s)
           \/ \E c \in SchemasOf(s) : Moves(s, c) \/ Flush(s, c)
    PROVE  Alone(s)
<1>1. CASE Produce(s)
  BY <1>1 DEF Produce, Alone, Typed, sinkVars
<1>2. CASE Read(s)
  <2>1. \A t \in Sets \ {s} : fetch'[t] = fetch[t]
    BY <1>2, ReadFact, GoesFact
  <2> QED BY <1>2, <2>1 DEF Read, Alone, sinkVars
<1>3. CASE Turns(s)
  <2>1. \A t \in Sets \ {s} : fetch'[t] = fetch[t]
    BY <1>3, TurnFact, GoesFact DEF Turns
  <2> QED BY <1>3, <2>1 DEF Turns, EndOfSource, EndsEarly, Reconnect, BeginCommit, Alone, sinkVars
<1>4. CASE SaveState(s) \/ Fail(s)
  <2>1. \A t \in Sets \ {s} : fetch'[t] = fetch[t]
    BY <1>4, FinishedFact DEF SaveState, Fail
  <2> QED BY <1>4, <2>1 DEF SaveState, Fail, Alone, sinkVars
<1>5. CASE \E c \in SchemasOf(s) : Moves(s, c) \/ Flush(s, c)
  BY <1>5, MoveType, FlushType
<1> QED BY <1>1, <1>2, <1>3, <1>4, <1>5

\* The types are kept, and what is open is there.
LEMMA TypeStep == Typed /\ AllThere /\ [Next]_vars => Typed' /\ AllThere'
<1> SUFFICES ASSUME Typed, AllThere, [Next]_vars PROVE Typed' /\ AllThere'
  OBVIOUS
<1>a. /\ \A s \in Sets : fetch[s] \in Fetches /\ fetch[s].read <= source[s] /\ fetch[s].preview <= source[s]
      /\ \A s \in Sets : source[s] \in 0..MaxRecords
      /\ saved \in State \cup {None, Torn} /\ base \in State \cup {None} /\ forced \in BOOLEAN
      /\ wiped \subseteq Sets /\ cut \subseteq Sets /\ None \in State \cup {None}
  BY DEF Typed
<1>1. ASSUME NEW force \in BOOLEAN, StartFetch(force) PROVE Typed' /\ AllThere'
  <2>1. \A s \in Sets : /\ fetch'[s].open \in {fetch[s].open, Off.open}
                        /\ fetch'[s].read <= source[s] /\ fetch'[s].preview <= source[s]
    BY <1>1, <1>a, StartFact, BegunFact, OffFact
  <2>2. UNCHANGED <<fixed, source, sinkVars, saved, wiped, cut>>
    BY <1>1 DEF StartFetch
  <2> QED BY <1>1, <1>a, <2>1, <2>2, StartFact, FetchesType
<1>2. ASSUME NEW s \in Sets, Produce(s) PROVE Typed' /\ AllThere'
  <2>1. /\ UNCHANGED <<package, sink, method, format, target, staging, saved, base, forced, fetch, wiped, cut>> /\ UNCHANGED fixed
        /\ source' = [source EXCEPT ![s] = @ + 1] /\ source[s] < MaxRecords
    BY <1>2 DEF Produce, fixed, sinkVars
  <2>2. source' \in [Sets -> 0..MaxRecords] /\ \A t \in Sets : source[t] <= source'[t]
    BY <1>a, <2>1, RecordsAssumption DEF Typed
  <2>3. \A t \in Sets : fetch[t].read <= source'[t] /\ fetch[t].preview <= source'[t]
    BY <1>a, <2>2 DEF Fetches
  <2>4. /\ State' = State /\ Content' = Content /\ Fetches' = Fetches /\ Sets' = Sets
    BY <2>1, PackageStays DEF State, SetState, Content, Fetches, Records
  <2>5. Typed'
    BY <2>1, <2>2, <2>3, <2>4 DEF Typed
  <2>6. ASSUME NEW t \in Sets PROVE OpenThere(t)'
    <3>1. \A c \in SchemasOf(t) : Right(sink, target'[c], staging'[c], fetch'[t].open[c])
      BY <2>1 DEF AllThere, OpenThere
    <3> QED BY <2>1, <3>1, RightStays
  <2> QED BY <2>4, <2>5, <2>6 DEF AllThere
<1>3. ASSUME NEW s \in Sets, Read(s) PROVE Typed' /\ AllThere'
  <2>1. PICK f : Goes(s, f) /\ f.read <= source[s] /\ f = [fetch[s] EXCEPT !.read = f.read, !.held = f.held]
    BY <1>3, ReadFact
  <2>2. f.preview = fetch[s].preview /\ f.open = fetch[s].open
    BY <1>a, <2>1 DEF Fetches
  <2>3. /\ fetch' \in [Sets -> Fetches]
        /\ \A t \in Sets : /\ fetch'[t].open \in {fetch[t].open, Off.open}
                           /\ fetch'[t].read <= source[t] /\ fetch'[t].preview <= source[t]
    BY <1>a, <2>1, <2>2, GoesFact
  <2>4. UNCHANGED <<fixed, source, sinkVars, saved, base, forced, wiped, cut>>
    BY <1>3 DEF Read
  <2> QED BY <1>a, <2>3, <2>4, FetchesType
<1>4. ASSUME NEW s \in Sets, Turns(s) PROVE Typed' /\ AllThere'
  <2>1. PICK f : Goes(s, f) /\ f.read <= source[s] /\ f.preview = fetch[s].preview
    BY <1>4, TurnFact DEF Turns
  <2>2. f.open = fetch[s].open
    BY <2>1 DEF Goes
  <2>3. /\ fetch' \in [Sets -> Fetches]
        /\ \A t \in Sets : /\ fetch'[t].open \in {fetch[t].open, Off.open}
                           /\ fetch'[t].read <= source[t] /\ fetch'[t].preview <= source[t]
    BY <1>a, <2>1, <2>2, GoesFact
  <2>4. UNCHANGED <<fixed, source, sinkVars, base, forced, wiped, cut>> /\ saved' \in {saved, Torn}
    BY <1>4 DEF Turns, EndOfSource, EndsEarly, Reconnect, BeginCommit
  <2> QED BY <1>a, <2>3, <2>4, FetchesType
<1>5. ASSUME NEW s \in Sets, SaveState(s) \/ Fail(s) PROVE Typed' /\ AllThere'
  <2>1. Finished(s) /\ UNCHANGED <<fixed, source, sinkVars>>
    BY <1>5 DEF SaveState, Fail
  <2>2. wiped' \subseteq Sets /\ cut' \subseteq Sets /\ saved' \in {saved, Torn, FinalState(s)}
    BY <1>5, <1>a DEF SaveState, Fail
  <2>3. /\ fetch' \in [Sets -> Fetches]
        /\ \A t \in Sets : /\ fetch'[t].open \in {fetch[t].open, Off.open}
                           /\ fetch'[t].read <= source[t] /\ fetch'[t].preview <= source[t]
    <3>1. fetch' \in [Sets -> Fetches] /\ fetch'[s] = Off /\ \A t \in Sets \ {s} : fetch'[t] = fetch[t]
      BY <2>1, FinishedFact
    <3>2. Off.read <= source[s] /\ Off.preview <= source[s]
      BY <1>a, OffFact
    <3> QED BY <1>a, <3>1, <3>2
  <2>4. base' \in State \cup {None} /\ forced' \in BOOLEAN
    BY <1>a, <2>1, FinishedFact
  <2>5. saved' \in State \cup {None, Torn}
    BY <1>a, <2>2, FinalFact
  <2> QED BY <1>a, <2>1, <2>2, <2>3, <2>4, <2>5, FetchesType
<1>6. ASSUME NEW s \in Sets, NEW c \in SchemasOf(s), Moves(s, c) \/ Flush(s, c) PROVE Typed' /\ AllThere'
  BY <1>6, MoveType, FlushType
<1>7. CASE Stop
  <2>1. \A s \in Sets : /\ fetch'[s].open \in {fetch[s].open, Off.open}
                        /\ fetch'[s].read <= source[s] /\ fetch'[s].preview <= source[s]
    BY <1>7, <1>a, StopFact DEF Fetches
  <2> QED BY <1>7, <1>a, <2>1, StopFact, FetchesType DEF Stop
<1>8. CASE Dies
  <2>1. /\ fetch' \in [Sets -> Fetches]
        /\ \A s \in Sets : /\ fetch'[s].open \in {fetch[s].open, Off.open}
                           /\ fetch'[s].read <= source[s] /\ fetch'[s].preview <= source[s]
    BY <1>8, <1>a, OffFact DEF Dies, Die
  <2> QED BY <1>8, <1>a, <2>1, FetchesType DEF Dies, Die
<1>9. CASE UNCHANGED vars
  <2>1. UNCHANGED <<fixed, source, sinkVars, saved, base, forced, fetch, wiped, cut>>
    BY <1>9 DEF vars
  <2> QED BY <1>a, <2>1, FetchesType DEF Typed
<1> QED BY <1>1, <1>2, <1>3, <1>4, <1>5, <1>6, <1>7, <1>8, <1>9, Steps

-----------------------------------------------------------------------------
(* What the invariant says of one stream set.                              *)

\* The primed invariant, by the values that have changed.
Next1(s) ==
    /\ Fits(s, fetch'[s], target', staging', base', wiped')
    /\ NewsOnly(s, fetch'[s], base', forced', Loaded', source'[s])
    /\ Stands(s, Loaded', target', wiped', cut', source'[s])
    /\ Stands(s, base', target', wiped', cut', source'[s])

LEMMA SetInvNext ==
    ASSUME UNCHANGED fixed, NEW s \in Sets, Next1(s)
    PROVE  SetInv(s)'
<1>1. package' = package /\ method' = method
  BY DEF fixed
<1>2. Fits(s, fetch[s], target, staging, base, wiped)'
  BY <1>1 DEF Next1, Fits, Covered, Unopened, PhaseSays, Replaces, Upto, Stored, Has, SchemaOf, SchemasOf, Off
<1>3. NewsOnly(s, fetch[s], base, forced, Loaded, source[s])'
  BY DEF Next1, NewsOnly, News, Known
<1>4. Stands(s, Loaded, target, wiped, cut, source[s])' /\ Stands(s, base, target, wiped, cut, source[s])'
  BY <1>1 DEF Next1, Stands, OffsetStands, HashStands, Known, Has, SchemaOf
<1> QED BY <1>2, <1>3, <1>4 DEF SetInv

\* The numbers in the states and fetches are those of records.
LEMMA NumberFact ==
    ASSUME Typed, NEW s \in Sets
    PROVE  /\ fetch[s] \in Fetches /\ source[s] \in 0..MaxRecords /\ Loaded \in State \cup {None}
           /\ \A m \in Upto(fetch[s]) : m \in 0..MaxRecords /\ 1..m \subseteq Records
           /\ 1..source[s] \subseteq Records
           /\ \A st \in State \cup {None} : Known(s, st) =>
                 /\ st \in State /\ st[s] \in SetState /\ st[s].offset \in 0..MaxRecords
                 /\ st[s].hash # None => st[s].hash \in 0..MaxRecords
                 /\ 1..st[s].offset \subseteq Records
           /\ \A i \in Records : SchemaOf(s, i) \in SchemasOf(s) /\ SchemaOf(s, i) \in Schemas
<1>1. fetch[s] \in Fetches /\ source[s] \in 0..MaxRecords /\ Loaded \in State \cup {None}
  BY DEF Typed, Loaded
<1>2. ASSUME NEW m \in 0..MaxRecords PROVE 1..m \subseteq Records
  BY RecordsAssumption DEF Records
<1>3. \A m \in Upto(fetch[s]) : m \in 0..MaxRecords
  BY <1>1, RecordsAssumption DEF Upto, Fetches, Records
<1>4. ASSUME NEW st \in State \cup {None}, Known(s, st)
      PROVE  /\ st \in State /\ st[s] \in SetState /\ st[s].offset \in 0..MaxRecords
             /\ st[s].hash # None => st[s].hash \in 0..MaxRecords
             /\ 1..st[s].offset \subseteq Records
  <2>1. st \in State /\ s \in StreamSets /\ st[s] # None
    BY <1>4, PackageFacts DEF Known
  <2>2. st[s] \in SetState
    BY <2>1 DEF State
  <2>3. st[s].offset \in 0..MaxRecords /\ (st[s].hash # None => st[s].hash \in 0..MaxRecords)
    BY <2>2 DEF SetState
  <2> QED BY <1>2, <2>1, <2>2, <2>3
<1>5. \A i \in Records : SchemaOf(s, i) \in SchemasOf(s) /\ SchemaOf(s, i) \in Schemas
  BY PackageFacts
<1> QED BY <1>1, <1>2, <1>3, <1>4, <1>5

\* The source is fetched when the state does not say that all is there.
LEMMA NewsFact ==
    ASSUME NEW s \in Sets, NEW st
    PROVE  NewRecordsAvailable(s, st) <=> (Known(s, st) => st[s].hash = None \/ st[s].hash # source[s])
BY DEF NewRecordsAvailable, Known

\* What there is of a stream set has not become less.
LEMMA StandsGrow ==
    ASSUME Typed, NEW s \in Sets, NEW st \in State \cup {None}, NEW x, NEW w, NEW k, NEW n \in Nat,
           Stands(s, st, target, wiped, cut, source[s]), source[s] <= n,
           s \in wiped => s \in w, s \in cut => s \in k,
           s \notin w => \A i \in Records : Has(target, s, i) => Has(x, s, i)
    PROVE  Stands(s, st, x, w, k, n)
<1>1. OffsetStands(s, st, x, w)
  BY NumberFact DEF Stands, OffsetStands
<1>2. ASSUME Known(s, st), st[s].hash # None
      PROVE  /\ st[s].hash <= n
             /\ s \notin w \cup k /\ st[s].hash = n => \A i \in 1..n : Has(x, s, i)
  <2>1. /\ st[s].hash \in 0..MaxRecords /\ source[s] \in 0..MaxRecords /\ st[s].hash <= source[s]
        /\ s \notin wiped \cup cut /\ st[s].hash = source[s] => \A i \in 1..source[s] : Has(target, s, i)
    BY <1>2, NumberFact DEF Stands, HashStands
  <2>2. st[s].hash <= n /\ (st[s].hash = n => n = source[s])
    BY <2>1, RecordsAssumption
  <2> QED BY <2>1, <2>2, NumberFact
<1> QED BY <1>1, <1>2 DEF Stands, HashStands

\* No state says nothing.
LEMMA NoneStands == \A s, x, w, k, n : Stands(s, None, x, w, k, n)
BY DEF Stands, OffsetStands, HashStands, Known

\* A step leaves the state that was loaded, or forgets it with the last fetch; what is
\* kept of t is as it was, nothing, or what was loaded.
Base(s) ==
    \/ (\A t \in Sets \ {s} : ~Active(t)) /\ base' = None /\ forced' = FALSE
    \/ base' = base /\ forced' = forced
KeptOf(t) ==
    Loaded' = Loaded \/ Loaded' = None \/ (Loaded' # None /\ Loaded'[t] = IF base = None THEN None ELSE base[t])

\* The other stream sets are as they were.
LEMMA OthersKept ==
    ASSUME Typed, UNCHANGED fixed, NEW s \in Sets, Alone(s), Base(s), NEW t \in Sets \ {s}, KeptOf(t), SetInv(t)
    PROVE  SetInv(t)'
<1>1. /\ fetch'[t] = fetch[t] /\ source'[t] = source[t]
      /\ (t \in wiped' <=> t \in wiped) /\ (t \in cut' <=> t \in cut)
      /\ \A c \in SchemasOf(t) : target'[c] = target[c] /\ staging'[c] = staging[c]
  BY DEF Alone
<1>2. \A i \in Records : (Has(target', t, i) <=> Has(target, t, i)) /\ (Has(staging', t, i) <=> Has(staging, t, i))
  BY <1>1, NumberFact DEF Has
<1>3. (base' = base /\ forced' = forced) \/ (fetch[t].phase = "off" /\ base' = None)
  BY DEF Base, Active
<1>4. Fits(t, fetch[t], target', staging', base', wiped')
  <2>1. Fits(t, fetch[t], target, staging, base, wiped)
    BY DEF SetInv
  <2>2. Covered(t, fetch[t], target', staging', base', wiped')
    <3>1. SUFFICES ASSUME fetch[t].phase # "off", t \notin wiped' \/ Replaces(base')
                   PROVE  \A m \in Upto(fetch[t]) : \A i \in 1..m : i \in fetch[t].held \/ Stored(t, i, fetch[t], target', staging')
      BY DEF Covered
    <3>2. \A m \in Upto(fetch[t]) : \A i \in 1..m : i \in fetch[t].held \/ Stored(t, i, fetch[t], target, staging)
      BY <1>1, <1>3, <2>1, <3>1 DEF Fits, Covered
    <3> QED BY <1>2, <3>2, NumberFact DEF Stored
  <2>3. Unopened(t, fetch[t], base')
    BY <1>3, <2>1 DEF Fits, Unopened
  <2>4. PhaseSays(t, fetch[t], base')
    BY <1>3, <2>1 DEF Fits, PhaseSays, Off
  <2> QED BY <2>2, <2>3, <2>4 DEF Fits
<1>5. NewsOnly(t, fetch[t], base', forced', Loaded', source[t])
  <2>1. SUFFICES ASSUME ~forced', fetch[t].phase # "off"
                 PROVE  /\ News(t, base', source[t]) /\ News(t, Loaded', source[t])
                        /\ base' = None => ~Known(t, Loaded')
    BY DEF NewsOnly
  <2>2. base' = base /\ forced' = forced
    BY <1>3, <2>1
  <2>3. News(t, base, source[t]) /\ News(t, Loaded, source[t]) /\ (base = None => ~Known(t, Loaded))
    BY <2>1, <2>2 DEF SetInv, NewsOnly
  <2> QED BY <2>2, <2>3 DEF News, Known, KeptOf
<1>6. Stands(t, base, target', wiped', cut', source[t]) /\ Stands(t, Loaded, target', wiped', cut', source[t])
  <2>1. base \in State \cup {None} /\ Loaded \in State \cup {None} /\ source[t] \in Nat
    BY NumberFact DEF Typed
  <2> QED BY <1>1, <1>2, <2>1, StandsGrow DEF SetInv
<1>7. Stands(t, base', target', wiped', cut', source[t])
  BY <1>3, <1>6, NoneStands
<1>8. Stands(t, Loaded', target', wiped', cut', source[t])
  BY <1>6, NoneStands DEF KeptOf, Stands, OffsetStands, HashStands, Known
<1> QED BY <1>1, <1>4, <1>5, <1>7, <1>8, SetInvNext DEF Next1

\* A step that leaves the sink and the state that was loaded as they are.
LEMMA SinkStays ==
    ASSUME Typed, UNCHANGED <<fixed, sinkVars, base, forced, wiped, cut>>, NEW s \in Sets, SetInv(s),
           source'[s] \in Nat, source[s] <= source'[s], Loaded' \in {Loaded, None},
           Fits(s, fetch'[s], target, staging, base, wiped),
           fetch'[s].phase # "off" => fetch[s].phase # "off",
           source'[s] = source[s] \/ fetch'[s] = fetch[s]
    PROVE  SetInv(s)'
<1>1. base \in State \cup {None} /\ Loaded \in State \cup {None}
  BY NumberFact DEF Typed
<1>2. \A st \in {base, Loaded, None} : Stands(s, st, target, wiped, cut, source'[s])
  BY <1>1, StandsGrow, NoneStands DEF SetInv
<1>3. NewsOnly(s, fetch'[s], base, forced, Loaded', source'[s])
  <2>1. SUFFICES ASSUME ~forced, fetch'[s].phase # "off"
                 PROVE  News(s, base, source'[s]) /\ News(s, Loaded', source'[s]) /\ (base = None => ~Known(s, Loaded'))
    BY DEF NewsOnly
  <2>2. News(s, base, source[s]) /\ News(s, Loaded, source[s]) /\ (base = None => ~Known(s, Loaded))
    BY <2>1 DEF SetInv, NewsOnly
  <2>3. \A st \in {base, Loaded} : News(s, st, source'[s])
    <3>1. ASSUME NEW st \in {base, Loaded}, Known(s, st), st[s].hash # None PROVE st[s].hash # source'[s]
      <4>1. st[s].hash \in 0..MaxRecords /\ source[s] \in 0..MaxRecords
        BY <1>1, <3>1, NumberFact
      <4>2. st[s].hash <= source[s]
        BY <3>1 DEF SetInv, Stands, HashStands
      <4>3. st[s].hash # source[s]
        BY <2>2, <3>1 DEF News
      <4> QED BY <4>1, <4>2, <4>3, RecordsAssumption
    <3> QED BY <3>1 DEF News
  <2>4. News(s, None, source'[s]) /\ ~Known(s, None)
    BY DEF News, Known
  <2> QED BY <2>2, <2>3, <2>4
<1>4. Next1(s)
  BY <1>2, <1>3 DEF Next1, sinkVars
<1> QED BY <1>4, SetInvNext

\* Records that the source gets are news.
LEMMA KeptProduce ==
    ASSUME Typed, NEW s \in Sets, SetInv(s), Produce(s)
    PROVE  SetInv(s)'
<1>1. /\ UNCHANGED <<fixed, sinkVars, base, forced, wiped, cut>> /\ fetch' = fetch
      /\ source' = [source EXCEPT ![s] = @ + 1] /\ Loaded' = Loaded
  BY DEF Produce, Loaded
<1>2. source[s] \in 0..MaxRecords /\ source'[s] = source[s] + 1
  BY <1>1 DEF Typed
<1>3. source'[s] \in Nat /\ source[s] <= source'[s]
  BY <1>2, RecordsAssumption
<1>4. Fits(s, fetch'[s], target, staging, base, wiped)
  BY <1>1 DEF SetInv
<1> QED BY <1>1, <1>3, <1>4, SinkStays

\* A record that is read is held, or it has been written before.
LEMMA KeptRead ==
    ASSUME Typed, NEW s \in Sets, SetInv(s), Read(s)
    PROVE  SetInv(s)'
<1>1. PICK g : /\ Goes(s, g) /\ g.read = fetch[s].read + 1 /\ g.read \in Records
               /\ g.held = (IF Passes(s, g.read) THEN fetch[s].held \cup {g.read} ELSE fetch[s].held)
               /\ g = [fetch[s] EXCEPT !.read = g.read, !.held = g.held]
  BY ReadFact
<1> DEFINE f == fetch[s]
<1>2. /\ fetch'[s] = g /\ f \in Fetches /\ f.phase = "reading"
      /\ UNCHANGED <<fixed, source, sinkVars, saved, base, forced, wiped, cut>>
  BY <1>1, GoesFact, NumberFact DEF Read, Reading
<1>3. /\ g.open = f.open /\ g.phase = "reading" /\ g.note = f.note /\ g.filtering = f.filtering
      /\ f.held \subseteq g.held /\ f.read \in Upto(f)
      /\ \A m \in Upto(g) : m \in Upto(f) \/ m = g.read
  BY <1>1, <1>2 DEF Fetches, Upto
<1>4. Fits(s, f, target, staging, base, wiped)
  BY DEF SetInv
<1>5. ASSUME NEW i \in 1..g.read PROVE i \in 1..f.read \/ i = g.read
  BY <1>1, <1>2 DEF Fetches
<1>6. Passes(s, g.read) \/ (g.read \in 1..f.note /\ f.note \in Upto(f) /\ ~Replaces(base))
  <2>1. f.filtering => base # None /\ method # FullSet
    BY <1>4 DEF Fits, PhaseSays
  <2>2. ~Passes(s, g.read) => f.filtering /\ g.read <= f.note
    BY DEF Passes
  <2>3. g.read <= f.note => g.read \in 1..f.note
    BY <1>1, <1>2 DEF Fetches, Records
  <2> QED BY <2>1, <2>2, <2>3 DEF Upto, Replaces
<1>7. Covered(s, g, target, staging, base, wiped)
  <2>1. SUFFICES ASSUME s \notin wiped \/ Replaces(base), NEW m \in Upto(g), NEW i \in 1..m
                 PROVE  i \in g.held \/ Stored(s, i, g, target, staging)
    BY DEF Covered
  <2>2. \A l \in Upto(f) : \A j \in 1..l : j \in g.held \/ Stored(s, j, g, target, staging)
    BY <1>2, <1>3, <1>4, <2>1 DEF Fits, Covered, Stored
  <2>3. CASE m \in Upto(f)
    BY <2>2, <2>3
  <2>4. CASE m = g.read
    <3>1. CASE i = g.read
      BY <1>1, <1>6, <2>2, <3>1
    <3>2. CASE i \in 1..f.read
      BY <1>3, <2>2, <3>2
    <3> QED BY <1>5, <2>4, <3>1, <3>2
  <2> QED BY <1>3, <2>3, <2>4
<1>8. Unopened(s, g, base)
  <2>1. SUFFICES ASSUME Replaces(base), NEW c \in SchemasOf(s), f.open[c] = "closed",
                        NEW m \in Upto(g), NEW i \in 1..m, SchemaOf(s, i) = c
                 PROVE  i \in g.held
    BY <1>3 DEF Unopened
  <2>2. \A l \in Upto(f) : \A j \in 1..l : SchemaOf(s, j) = c => j \in g.held
    BY <1>2, <1>3, <1>4, <2>1 DEF Fits, Unopened
  <2>3. g.read \in g.held
    BY <1>1, <1>6, <2>1
  <2> QED BY <1>3, <1>5, <2>1, <2>2, <2>3
<1>9. PhaseSays(s, g, base)
  BY <1>3, <1>4 DEF Fits, PhaseSays
<1>10. source[s] \in Nat /\ source[s] <= source[s] /\ Loaded' = Loaded
  BY <1>2, NumberFact, RecordsAssumption DEF Loaded
<1>11. Fits(s, g, target, staging, base, wiped)
  BY <1>7, <1>8, <1>9 DEF Fits
<1> HIDE DEF f
<1>12. fetch[s].phase # "off"
  BY <1>2 DEF f
<1> QED BY <1>2, <1>10, <1>11, <1>12, SinkStays

\* A fetch that comes to its end has read as much as it has to.
LEMMA KeptTurns ==
    ASSUME Typed, NEW s \in Sets, SetInv(s), Turns(s)
    PROVE  SetInv(s)'
<1>1. PICK g : /\ Goes(s, g) /\ g.preview = fetch[s].preview
               /\ g.note = fetch[s].note /\ g.held = fetch[s].held /\ g.stopped = fetch[s].stopped
               /\ g.phase # "off"
               /\ EndOfSource(s) => g = [fetch[s] EXCEPT !.phase = "ending"]
               /\ EndsEarly(s) => g = [fetch[s] EXCEPT !.phase = "ending", !.short = TRUE]
               /\ Reconnect(s) => g = [fetch[s] EXCEPT !.read = 0, !.filtering = (base # None)]
               /\ BeginCommit(s) => g = [fetch[s] EXCEPT !.phase = "committing"]
  BY TurnFact DEF Turns
<1> DEFINE f == fetch[s]
<1>2. /\ fetch'[s] = g /\ f \in Fetches /\ g.open = f.open /\ g \in Fetches /\ Turns(s)
      /\ UNCHANGED <<fixed, source, sinkVars, base, forced, wiped, cut>> /\ Loaded' \in {Loaded, None}
  <2>1. saved' \in {saved, Torn}
    BY DEF Turns, EndOfSource, EndsEarly, Reconnect, BeginCommit
  <2>2. Loaded' \in {Loaded, None}
    BY <2>1 DEF Loaded
  <2> QED BY <1>1, <2>2, GoesFact, NumberFact DEF Goes, Turns, EndOfSource, EndsEarly, Reconnect, BeginCommit
<1>3. f.phase # "off" /\ Fits(s, f, target, staging, base, wiped) /\ f.preview <= source[s]
  BY DEF Turns, EndOfSource, EndsEarly, Reconnect, BeginCommit, Reading, SetInv, Typed
<1>4. /\ f.phase = "reading" \/ (g.phase = "committing" /\ f.phase = "ending" /\ f.held = {})
      /\ g.read \in {f.read, 0}
      /\ f.filtering = g.filtering \/ (Reconnect(s) /\ method = Continuous /\ g.filtering = (base # None))
      /\ g.short \/ g.stopped \/ g.phase = "reading" \/ g.preview <= g.read
      /\ g.phase = "committing" => g.held = {} /\ \A c \in SchemasOf(s) : g.open[c] = "closed"
  <2>1. CASE EndOfSource(s)
    BY <1>1, <1>2, <1>3, <2>1 DEF EndOfSource, Reading, Fetches
  <2>2. CASE EndsEarly(s)
    <3>1. f.phase = "reading" /\ g = [f EXCEPT !.phase = "ending", !.short = TRUE]
      BY <1>1, <2>2 DEF EndsEarly, Reading
    <3>2. g.phase = "ending" /\ g.short /\ g.read = f.read /\ g.filtering = f.filtering
      BY <1>2, <3>1 DEF Fetches
    <3> QED BY <3>1, <3>2
  <2>3. CASE Reconnect(s)
    <3>1. g.read = 0 /\ g.filtering = (base # None) /\ g.phase = f.phase
      BY <1>1, <1>2, <2>3 DEF Fetches
    <3> QED BY <2>3, <3>1 DEF Reconnect, Reading
  <2>4. CASE BeginCommit(s)
    <3>1. /\ f.phase = "ending" /\ f.held = {} /\ \A c \in SchemasOf(s) : f.open[c] = "closed"
      BY <2>4 DEF BeginCommit
    <3>2. /\ g.read = f.read /\ g.filtering = f.filtering /\ g.short = f.short
          /\ g.phase = "committing"
      BY <1>1, <1>2, <2>4 DEF Fetches
    <3>3. f.short \/ f.stopped \/ f.preview <= f.read
      BY <1>3, <3>1 DEF Fits, PhaseSays
    <3> QED BY <1>1, <1>2, <2>4, <3>1, <3>2, <3>3
  <2> QED BY <2>1, <2>2, <2>3, <2>4 DEF Turns
<1>5. \A m \in Upto(g) : m \in Upto(f) \/ m = 0
  BY <1>1, <1>4 DEF Upto
<1>6. Covered(s, g, target, staging, base, wiped)
  BY <1>1, <1>2, <1>3, <1>5 DEF Fits, Covered, Stored
<1>7. Unopened(s, g, base)
  <2>1. SUFFICES ASSUME Replaces(base), NEW c \in SchemasOf(s), f.open[c] = "closed",
                        g.phase = "reading" \/ \E i \in f.held : SchemaOf(s, i) = c,
                        NEW m \in Upto(g), NEW i \in 1..m, SchemaOf(s, i) = c
                 PROVE  i \in f.held
    BY <1>1, <1>2 DEF Unopened
  <2>2. f.phase = "reading" \/ \E j \in f.held : SchemaOf(s, j) = c
    BY <1>4, <2>1
  <2>3. \A l \in Upto(f) : \A j \in 1..l : SchemaOf(s, j) = c => j \in f.held
    BY <1>3, <2>1, <2>2 DEF Fits, Unopened
  <2> QED BY <1>5, <2>1, <2>3
<1>8. PhaseSays(s, g, base)
  <2>1. f.filtering => base # None /\ method # FullSet
    BY <1>3 DEF Fits, PhaseSays
  <2>2. Continuous # FullSet
    BY DEF Continuous, FullSet
  <2> QED BY <1>1, <1>4, <2>1, <2>2 DEF PhaseSays
<1>9. source[s] \in Nat /\ source[s] <= source[s]
  BY NumberFact, RecordsAssumption
<1>10. Fits(s, g, target, staging, base, wiped)
  BY <1>6, <1>7, <1>8 DEF Fits
<1>11. fetch[s].phase # "off" /\ source'[s] = source[s]
  BY <1>2, <1>3
<1> HIDE DEF f
<1> QED BY <1>2, <1>9, <1>10, <1>11, SinkStays

\* The user stops the fetch.
LEMMA KeptStop ==
    ASSUME Typed, NEW s \in Sets, SetInv(s), Stop
    PROVE  SetInv(s)'
<1> DEFINE f == fetch[s]
           g == [f EXCEPT !.phase = "ending", !.stopped = TRUE]
<1>1. /\ fetch'[s] = (IF f.phase = "reading" THEN g ELSE f)
      /\ UNCHANGED <<fixed, source, sinkVars, saved, base, forced, wiped, cut>>
  BY StopFact DEF Stop, Reading
<1>2. Fits(s, f, target, staging, base, wiped)
  BY DEF SetInv
<1>3. ASSUME f.phase = "reading" PROVE Fits(s, g, target, staging, base, wiped)
  <2>1. /\ g.phase = "ending" /\ g.stopped /\ g.read = f.read /\ g.note = f.note /\ g.held = f.held
        /\ g.open = f.open /\ g.filtering = f.filtering
    BY NumberFact DEF Fetches
  <2> HIDE DEF g
  <2>2. Upto(g) = Upto(f)
    BY <2>1 DEF Upto
  <2>3. Covered(s, g, target, staging, base, wiped)
    BY <1>2, <1>3, <2>1, <2>2 DEF Fits, Covered, Stored
  <2>4. Unopened(s, g, base)
    BY <1>2, <1>3, <2>1, <2>2 DEF Fits, Unopened
  <2>5. PhaseSays(s, g, base)
    BY <1>2, <2>1 DEF Fits, PhaseSays
  <2> QED BY <2>3, <2>4, <2>5 DEF Fits
<1>4. /\ source'[s] = source[s] /\ source[s] \in Nat /\ source[s] <= source[s] /\ Loaded' = Loaded
  BY <1>1, NumberFact, RecordsAssumption DEF Loaded
<1>5. Fits(s, fetch'[s], target, staging, base, wiped) /\ (fetch'[s].phase # "off" => f.phase # "off")
  BY <1>1, <1>2, <1>3
<1> HIDE DEF g
<1> QED BY <1>1, <1>4, <1>5, SinkStays

\* What is written is no longer held.
LEMMA KeptFlush ==
    ASSUME Typed, AllThere, NEW s \in Sets, NEW c \in SchemasOf(s), SetInv(s), Flush(s, c)
    PROVE  SetInv(s)'
<1> DEFINE f == fetch[s]
           g == fetch'[s]
<1>1. PICK last \in HeldFor(s, c) :
         /\ g = [f EXCEPT !.note = Notes(s, last), !.held = f.held \ HeldFor(s, c)]
         /\ g \in Fetches
  BY FlushFact
<1>2. \/ f.open[c] = "direct" /\ staging' = staging /\ Grown(target, target', c, HeldFor(s, c))
      \/ f.open[c] \in {"staged", "dropped"} /\ target' = target /\ Grown(staging, staging', c, HeldFor(s, c))
  BY FlushFact
<1>3. /\ UNCHANGED <<fixed, source, saved, base, forced, wiped, cut>> /\ Loaded' = Loaded
      /\ f.open[c] # "closed" /\ f \in Fetches /\ SchemasOf(s) \subseteq Schemas
      /\ Fits(s, f, target, staging, base, wiped)
  BY NumberFact, PackageFacts DEF Flush, Loaded, SetInv
<1>4. /\ g.phase = f.phase /\ g.read = f.read /\ g.preview = f.preview /\ g.note \in {last, f.note}
      /\ g.held = f.held \ HeldFor(s, c) /\ g.filtering = f.filtering
      /\ g.stopped = f.stopped /\ g.short = f.short /\ g.open = f.open
  BY <1>1, <1>3 DEF Fetches, Notes
<1>5. HeldFor(s, c) \subseteq f.held /\ f.held \subseteq Records
      /\ \A i \in HeldFor(s, c) : SchemaOf(s, i) = c
  BY <1>3 DEF HeldFor, Fetches
<1> HIDE DEF f, g
<1>6. Upto(g) \subseteq Upto(f)
  BY <1>4, <1>5 DEF Upto
<1>7. f.phase # "off" /\ f.phase # "committing"
  <2>1. PhaseSays(s, f, base)
    BY <1>3 DEF Fits
  <2>2. Off.open[c] = "closed"
    BY <1>3 DEF Off
  <2> QED BY <1>3, <2>1, <2>2 DEF PhaseSays
<1>8. \A i \in Records : /\ Has(target, s, i) => Has(target', s, i)
                         /\ Has(staging, s, i) => Has(staging', s, i)
                         /\ i \in HeldFor(s, c) => Stored(s, i, g, target', staging')
  <2>1. SUFFICES ASSUME NEW i \in Records
                 PROVE  /\ Has(target, s, i) => Has(target', s, i)
                        /\ Has(staging, s, i) => Has(staging', s, i)
                        /\ i \in HeldFor(s, c) => Stored(s, i, g, target', staging')
    OBVIOUS
  <2>2. SchemaOf(s, i) \in Schemas
    BY NumberFact
  <2> QED BY <1>2, <1>4, <1>5, <2>2, NoneAssumption DEF Has, Stored, Grown
<1>9. Covered(s, g, target', staging', base, wiped)
  <2>1. SUFFICES ASSUME s \notin wiped \/ Replaces(base), NEW m \in Upto(g), NEW i \in 1..m
                 PROVE  i \in g.held \/ Stored(s, i, g, target', staging')
    BY DEF Covered
  <2>2. i \in f.held \/ Stored(s, i, f, target, staging)
    BY <1>3, <1>6, <1>7, <2>1 DEF Fits, Covered
  <2>3. i \in Records
    BY <1>6, NumberFact DEF f
  <2> QED BY <1>4, <1>8, <2>2, <2>3 DEF Stored
<1>10. Unopened(s, g, base)
  <2>1. SUFFICES ASSUME Replaces(base), NEW d \in SchemasOf(s), f.open[d] = "closed",
                        g.phase = "reading" \/ \E i \in g.held : SchemaOf(s, i) = d,
                        NEW m \in Upto(g), NEW i \in 1..m, SchemaOf(s, i) = d
                 PROVE  i \in g.held
    BY <1>4 DEF Unopened
  <2>2. d # c
    BY <1>3, <2>1
  <2>3. f.phase = "reading" \/ \E j \in f.held : SchemaOf(s, j) = d
    BY <1>4, <2>1
  <2>4. i \in f.held
    BY <1>3, <1>6, <1>7, <2>1, <2>3 DEF Fits, Unopened
  <2> QED BY <1>4, <1>5, <2>1, <2>2, <2>4
<1>11. PhaseSays(s, g, base)
  BY <1>3, <1>4, <1>7 DEF Fits, PhaseSays
<1>12. NewsOnly(s, g, base, forced, Loaded, source[s])
  BY <1>4 DEF SetInv, NewsOnly, f, g
<1>13. \A st \in {base, Loaded} : Stands(s, st, target', wiped, cut, source[s])
  <2>1. base \in State \cup {None} /\ Loaded \in State \cup {None} /\ source[s] \in Nat /\ source[s] <= source[s]
    BY NumberFact, RecordsAssumption DEF Typed
  <2> QED BY <1>8, <2>1, StandsGrow DEF SetInv
<1>14. Next1(s)
  BY <1>3, <1>9, <1>10, <1>11, <1>12, <1>13 DEF Next1, Fits, g
<1> QED BY <1>3, <1>14, SetInvNext

\* A fetch that is over leaves what is kept as it is, or keeps its final state.
LEMMA KeptOver ==
    ASSUME Typed, NEW s \in Sets, UNCHANGED <<fixed, source, sinkVars>>, fetch'[s] = Off, SetInv(s),
           Stands(s, Loaded', target, wiped', cut', source[s]),
           Stands(s, base', target, wiped', cut', source[s])
    PROVE  SetInv(s)'
<1>1. Off.phase = "off" /\ ~Off.filtering
  BY OffFact
<1>2. Fits(s, Off, target, staging, base', wiped')
  BY <1>1 DEF Fits, Covered, Unopened, PhaseSays
<1>3. NewsOnly(s, Off, base', forced', Loaded', source[s])
  BY <1>1 DEF NewsOnly
<1>4. Next1(s)
  BY <1>2, <1>3 DEF Next1, sinkVars
<1> QED BY <1>4, SetInvNext

\* A fetch fails.
LEMMA KeptFail ==
    ASSUME Typed, NEW s \in Sets, SetInv(s), Fail(s)
    PROVE  SetInv(s)'
<1>1. /\ UNCHANGED <<fixed, source, sinkVars, saved, wiped, cut>> /\ Loaded' = Loaded
      /\ fetch'[s] = Off /\ base' \in {base, None}
  BY FinishedFact DEF Fail, Loaded
<1>2. Stands(s, Loaded', target, wiped', cut', source[s]) /\ Stands(s, base', target, wiped', cut', source[s])
  BY <1>1, NoneStands DEF SetInv
<1> QED BY <1>1, <1>2, KeptOver

\* The process dies.
LEMMA KeptDies ==
    ASSUME Typed, NEW s \in Sets, SetInv(s), Dies
    PROVE  SetInv(s)'
<1>1. /\ UNCHANGED <<fixed, source, sinkVars, saved, wiped, cut>> /\ Loaded' = Loaded
      /\ fetch'[s] = Off /\ base' = None
  BY DEF Dies, Die, Loaded
<1>2. Stands(s, Loaded', target, wiped', cut', source[s]) /\ Stands(s, base', target, wiped', cut', source[s])
  BY <1>1, NoneStands DEF SetInv
<1> QED BY <1>1, <1>2, KeptOver

\* A fetch begins where the state says.
LEMMA KeptStart ==
    ASSUME Typed, NEW s \in Sets, SetInv(s), NEW force \in BOOLEAN, StartFetch(force)
    PROVE  SetInv(s)'
<1> DEFINE st == First(force)
           g == Begun(s, st)
<1>1. /\ st \in State \cup {None} /\ base' = st /\ forced' = force
      /\ fetch'[s] = Off \/ (NewRecordsAvailable(s, st) /\ fetch'[s] = g)
      /\ UNCHANGED <<fixed, source, sinkVars, saved, wiped, cut>> /\ Loaded' = Loaded
      /\ st = None \/ (st = Loaded /\ ~force)
  BY StartFact DEF StartFetch, Loaded, First
<1>2. ~force => st = Loaded
  BY DEF First
<1> HIDE DEF st
<1>3. Stands(s, Loaded, target, wiped, cut, source[s]) /\ Stands(s, st, target, wiped, cut, source[s])
  BY <1>1, <1>2, NoneStands DEF SetInv
<1>4. CASE fetch'[s] = Off
  BY <1>1, <1>3, <1>4, KeptOver
<1>5. CASE NewRecordsAvailable(s, st) /\ fetch'[s] = g
  <2>1. /\ g.phase = "reading" /\ g.open = Off.open /\ g.read = 0 /\ g.held = {}
        /\ g.note = (IF Known(s, st) THEN st[s].offset ELSE 0) /\ g.filtering = Filtering(s, st)
    BY <1>1, BegunFact
  <2> HIDE DEF g
  <2>2. \A m \in Upto(g) : m = 0 \/ (Known(s, st) /\ m = st[s].offset /\ method # FullSet)
    BY <2>1 DEF Upto
  <2>3. Known(s, st) => st # None
    BY DEF Known
  <2>4. \A c \in Schemas : g.open[c] = "closed"
    BY <2>1 DEF Off
  <2>5. Covered(s, g, target, staging, st, wiped)
    <3>1. SUFFICES ASSUME s \notin wiped \/ Replaces(st), NEW m \in Upto(g), NEW i \in 1..m
                   PROVE  Stored(s, i, g, target, staging)
      BY DEF Covered
    <3>2. Known(s, st) /\ m = st[s].offset /\ method # FullSet
      BY <2>2, <3>1
    <3>3. Has(target, s, i)
      BY <1>3, <2>3, <3>1, <3>2 DEF Replaces, Stands, OffsetStands
    <3>4. i \in Records
      BY <1>1, <3>2, NumberFact
    <3> QED BY <2>4, <3>3, <3>4, NumberFact DEF Stored
  <2>6. Unopened(s, g, st)
    <3>1. ASSUME Replaces(st), NEW m \in Upto(g) PROVE m = 0
      BY <2>2, <2>3, <3>1 DEF Replaces
    <3> QED BY <3>1 DEF Unopened
  <2>7. PhaseSays(s, g, st)
    BY <2>1, <2>3 DEF PhaseSays, Filtering
  <2>8. NewsOnly(s, g, st, force, Loaded, source[s])
    <3>1. News(s, st, source[s])
      BY <1>5, NewsFact DEF News
    <3>2. ~Known(s, None)
      BY DEF Known
    <3> QED BY <1>2, <3>1, <3>2 DEF NewsOnly
  <2>9. Next1(s)
    BY <1>1, <1>3, <1>5, <2>5, <2>6, <2>7, <2>8 DEF Next1, Fits, sinkVars
  <2> QED BY <1>1, <2>9, SetInvNext
<1> QED BY <1>1, <1>4, <1>5

\* The state that is saved says what is so.
LEMMA KeptSave ==
    ASSUME Typed, sink # "log", forced => base = None, NEW s \in Sets, SetInv(s), SaveState(s)
    PROVE  SetInv(s)'
<1> DEFINE f == fetch[s]
<1>1. /\ UNCHANGED <<fixed, source, sinkVars>> /\ fetch'[s] = Off /\ base' \in {base, None}
      /\ f.phase = "committing" /\ saved' \in {FinalState(s), Torn}
      /\ (s \in wiped' <=> s \in wiped /\ ~Replaces(base)) /\ (s \in cut' <=> f.short)
  BY FinishedFact DEF SaveState, Replace, Replaces
<1>2. Loaded' = None \/ (Loaded' = FinalState(s) /\ saved' = FinalState(s))
  BY <1>1 DEF Loaded
<1>3. /\ f \in Fetches /\ source[s] \in 0..MaxRecords /\ f.preview <= source[s] /\ f.read <= source[s]
      /\ Fits(s, f, target, staging, base, wiped)
  BY NumberFact DEF Typed, SetInv
<1>4. Covered(s, f, target, staging, base, wiped) /\ PhaseSays(s, f, base)
  BY <1>3 DEF Fits
<1>5. s \notin wiped' => \A m \in Upto(f) : \A i \in 1..m : Has(target, s, i)
  <2>1. SUFFICES ASSUME s \notin wiped', NEW m \in Upto(f), NEW i \in 1..m PROVE Has(target, s, i)
    OBVIOUS
  <2>2. f.held = {} /\ \A c \in SchemasOf(s) : f.open[c] = "closed"
    BY <1>1, <1>4 DEF PhaseSays
  <2>3. Stored(s, i, f, target, staging)
    BY <1>1, <1>4, <2>1, <2>2 DEF Covered
  <2>4. i \in Records
    BY NumberFact
  <2> QED BY <2>2, <2>3, <2>4, NumberFact DEF Stored
<1> HIDE DEF f
<1>6. Stands(s, FinalState(s), target, wiped', cut', source[s])
  <2>1. /\ FinalState(s)[s].offset = f.note
        /\ FinalState(s)[s].hash = (IF f.stopped THEN None ELSE f.preview)
    BY FinalFact DEF f
  <2>2. OffsetStands(s, FinalState(s), target, wiped')
    BY <1>5, <2>1 DEF OffsetStands, Upto
  <2>3. ASSUME FinalState(s)[s].hash # None
        PROVE  /\ FinalState(s)[s].hash <= source[s]
               /\ s \notin wiped' \cup cut' /\ FinalState(s)[s].hash = source[s] => \A i \in 1..source[s] : Has(target, s, i)
    <3>1. ~f.stopped /\ FinalState(s)[s].hash = f.preview
      BY <2>1, <2>3
    <3>2. ASSUME s \notin wiped' \cup cut', f.preview = source[s] PROVE f.read = source[s] /\ f.read \in Upto(f)
      <4>1. f.preview <= f.read
        BY <1>1, <1>4, <3>1, <3>2 DEF PhaseSays
      <4> QED BY <1>3, <3>2, <4>1 DEF Fetches, Upto
    <3> QED BY <1>3, <1>5, <3>1, <3>2
  <2> QED BY <2>2, <2>3 DEF Stands, HashStands
<1>7. Stands(s, base, target, wiped', cut', source[s])
  <2>1. OffsetStands(s, base, target, wiped')
    BY <1>1 DEF OffsetStands, SetInv, Stands, Replaces, Known
  <2>2. News(s, base, source[s])
    <3>1. CASE forced
      BY <3>1 DEF News, Known
    <3>2. CASE ~forced
      BY <1>1, <3>2 DEF SetInv, NewsOnly, f
    <3> QED BY <3>1, <3>2
  <2>3. HashStands(s, base, target, wiped', cut', source[s])
    BY <2>2 DEF HashStands, News, SetInv, Stands
  <2> QED BY <2>1, <2>3 DEF Stands
<1>8. Stands(s, Loaded', target, wiped', cut', source[s]) /\ Stands(s, base', target, wiped', cut', source[s])
  BY <1>1, <1>2, <1>6, <1>7, NoneStands
<1> QED BY <1>1, <1>8, KeptOver

-----------------------------------------------------------------------------
(* Opening and closing writables.                                          *)

\* A writable is opened for a record that is held, and what a fetch that does not
\* replace has written stays where the fetch writes to.
Opens(s, c) ==
    /\ fetch[s].open[c] = "closed" /\ HeldFor(s, c) # {}
    /\ \/ Replaces(base) /\ fetch'[s].open[c] \in {"direct", "staged"}
       \/ fetch'[s].open[c] = "direct" /\ (target[c] # None => target'[c] = target[c])

\* A writable with nothing held is closed, and what it has written goes to the sink.
Closes(s, c) ==
    /\ fetch[s].phase = "ending" /\ HeldFor(s, c) = {} /\ fetch[s].open[c] # "closed"
    /\ \/ /\ fetch[s].open[c] = "direct" /\ fetch'[s].open[c] = "closed"
          /\ target'[c] = target[c]
       \/ /\ fetch[s].open[c] \in {"staged", "dropped"} /\ fetch'[s].open[c] = "closed"
          /\ target'[c] = staging[c]
       \/ /\ fetch[s].open[c] \in {"staged", "dropped"} /\ fetch'[s].open[c] = "dropped"
          /\ staging'[c] = staging[c]

\* Nothing is lost, or what has been emptied is remembered.
Loses(s, c) ==
    \/ target[c] = None \/ (\A i \in Records : target[c][i] = 0) \/ target'[c] = target[c]
    \/ (Replaces(base) /\ Wipe(s, c))

LEMMA MoveSays ==
    ASSUME Typed, AllThere, Kept, NEW s \in Sets, NEW c \in SchemasOf(s), Moves(s, c)
    PROVE  (Opens(s, c) \/ Closes(s, c)) /\ Loses(s, c)
<1>1. /\ c \in Schemas /\ target \in [Schemas -> {None} \cup Content] /\ staging \in [Schemas -> {None} \cup Content]
      /\ fetch \in [Sets -> Fetches]
      /\ Right(sink, target[c], staging[c], fetch[s].open[c])
  BY PackageFacts DEF Typed, AllThere, OpenThere
<1>2. ASSUME NEW how \in Modes, Opened(s, c, how) PROVE fetch'[s].open[c] = how
  BY <1>1, <1>2, OpenedHow
<1>3. sink # "file" => Replaces(base)
  BY DEF Kept, Replaces
<1>4. Replace <=> Replaces(base)
  BY DEF Replace, Replaces
<1> USE DEF Modes
<1>5. CASE OpenFile(s, c)
  <2>1. Opened(s, c, "direct") /\ Needs(s, c)
    BY <1>5 DEF OpenFile
  <2>2. (Replaces(base) /\ Wipe(s, c)) \/ (target[c] # None => target'[c] = target[c])
    BY <1>1, <1>4, <1>5 DEF OpenFile, Created
  <2>3. fetch'[s].open[c] = "direct"
    BY <1>2, <2>1
  <2> QED BY <2>1, <2>2, <2>3 DEF Needs, Opens, Loses
<1>6. CASE OpenObject(s, c)
  <2>1. Opened(s, c, "staged") /\ Needs(s, c) /\ target' = target /\ Replaces(base)
    BY <1>3, <1>6 DEF OpenObject
  <2>2. fetch'[s].open[c] = "staged"
    BY <1>2, <2>1
  <2> QED BY <2>1, <2>2 DEF Needs, Opens, Loses
<1>7. CASE OpenTable(s, c)
  <2>1. ~Exists(c) /\ Replaces(base)
    BY <1>3, <1>4, <1>7 DEF OpenTable, Exists
  <2>2. Opened(s, c, "direct") /\ Needs(s, c) /\ Wipe(s, c)
    BY <1>7, <2>1 DEF OpenTable
  <2>3. fetch'[s].open[c] = "direct"
    BY <1>2, <2>2
  <2> QED BY <2>1, <2>2, <2>3 DEF Needs, Opens, Loses
<1>8. CASE OpenRedshift(s, c)
  <2>1. Opened(s, c, "staged") /\ Needs(s, c) /\ Wipe(s, c) /\ Replaces(base)
    BY <1>3, <1>8 DEF OpenRedshift
  <2>2. fetch'[s].open[c] = "staged"
    BY <1>2, <2>1
  <2> QED BY <2>1, <2>2 DEF Needs, Opens, Loses
<1>9. CASE OpenWarehouse(s, c) \/ OpenCollection(s, c)
  <2>1. /\ Opened(s, c, "staged") \/ Opened(s, c, "direct")
        /\ Needs(s, c) /\ Replaces(base) /\ (target[c] # None => target' = target)
    BY <1>3, <1>9 DEF OpenWarehouse, OpenCollection
  <2>2. fetch'[s].open[c] \in {"staged", "direct"}
    BY <1>2, <2>1
  <2> QED BY <2>1, <2>2 DEF Needs, Opens, Loses
<1>10. CASE OpenTopic(s, c)
  BY <1>10 DEF OpenTopic, Kept
<1>11. CASE CloseDirect(s, c)
  <2>1. Opened(s, c, "closed") /\ Completing(s, c, "direct") /\ target' = target
    BY <1>11 DEF CloseDirect, sinkVars
  <2>2. fetch'[s].open[c] = "closed"
    BY <1>2, <2>1
  <2> QED BY <2>1, <2>2 DEF Completing, Closes, Loses
<1>12. CASE Upload(s, c)
  <2>1. Opened(s, c, "closed") /\ Completing(s, c, "staged") /\ target'[c] = staging[c] /\ Wipe(s, c) /\ Replaces(base)
    BY <1>1, <1>3, <1>12 DEF Upload
  <2>2. fetch'[s].open[c] = "closed"
    BY <1>2, <2>1
  <2> QED BY <2>1, <2>2 DEF Completing, Closes, Loses
<1>13. CASE DropOld(s, c)
  <2>1. Opened(s, c, "dropped") /\ Completing(s, c, "staged") /\ staging' = staging /\ Wipe(s, c) /\ Replaces(base)
    BY <1>3, <1>13 DEF DropOld
  <2>2. fetch'[s].open[c] = "dropped"
    BY <1>2, <2>1
  <2> QED BY <2>1, <2>2 DEF Completing, Closes, Loses
<1>14. CASE RenameNew(s, c)
  <2>1. Opened(s, c, "closed") /\ Completing(s, c, "dropped") /\ target'[c] = staging[c]
    BY <1>1, <1>14 DEF RenameNew
  <2>2. fetch'[s].open[c] = "closed"
    BY <1>2, <2>1
  <2>3. target[c] = None \/ \A i \in Records : target[c][i] = 0
    BY <1>1, <2>1 DEF Right, Completing
  <2> QED BY <2>1, <2>2, <2>3 DEF Completing, Closes, Loses
<1> QED BY <1>5, <1>6, <1>7, <1>8, <1>9, <1>10, <1>11, <1>12, <1>13, <1>14 DEF Moves, Open

\* What a step that opens or closes a writable leaves as it is.
LEMMA MoveFrame ==
    ASSUME Typed, AllThere, NEW s \in Sets, NEW c \in SchemasOf(s), Moves(s, c)
    PROVE  /\ fetch'[s] = [fetch[s] EXCEPT !.open = fetch'[s].open]
           /\ \A d \in Schemas \ {c} : /\ fetch'[s].open[d] = fetch[s].open[d]
                                       /\ target'[d] = target[d] /\ staging'[d] = staging[d]
           /\ wiped' \in {wiped, wiped \cup {s}}
           /\ UNCHANGED <<fixed, source, saved, base, forced, cut>>
<1>1. PICK x \in {None} \cup Content, y \in {None} \cup Content, how \in Modes,
           w \in {wiped, wiped \cup {s}} : Right(sink, x, y, how) /\ Moved(s, c, x, y, how, w)
  BY MoveFact DEF AllThere
<1>2. c \in Schemas
  BY PackageFacts
<1>3. /\ fetch'[s] = [fetch[s] EXCEPT !.open = fetch'[s].open]
      /\ \A d \in Schemas \ {c} : fetch'[s].open[d] = fetch[s].open[d]
  BY <1>1, <1>2, OpenedFact DEF Moved, Typed
<1> QED BY <1>1, <1>3 DEF Moved, Typed

\* Nothing that the fetch is past is lost when a writable is opened or closed.
LEMMA KeptMoves ==
    ASSUME Typed, AllThere, Kept, forced => base = None,
           NEW s \in Sets, NEW c \in SchemasOf(s), SetInv(s), Moves(s, c)
    PROVE  SetInv(s)'
<1> DEFINE f == fetch[s]
           g == fetch'[s]
<1>1. /\ g = [f EXCEPT !.open = g.open]
      /\ \A d \in Schemas \ {c} : g.open[d] = f.open[d] /\ target'[d] = target[d] /\ staging'[d] = staging[d]
      /\ wiped' \in {wiped, wiped \cup {s}}
      /\ UNCHANGED <<fixed, source, saved, base, forced, cut>> /\ Loaded' = Loaded
  BY MoveFrame DEF Loaded
<1>2. /\ f.held \subseteq Records /\ g.phase = f.phase /\ g.read = f.read /\ g.preview = f.preview
      /\ g.note = f.note /\ g.held = f.held /\ g.filtering = f.filtering
      /\ g.stopped = f.stopped /\ g.short = f.short
  BY <1>1, NumberFact DEF Fetches
<1>3. (Opens(s, c) \/ Closes(s, c)) /\ Loses(s, c)
  BY MoveSays
<1>4. /\ Fits(s, f, target, staging, base, wiped) /\ c \in Schemas /\ SchemasOf(s) \subseteq Schemas
      /\ \A i \in Records : SchemaOf(s, i) \in Schemas
  BY PackageFacts, NumberFact DEF SetInv
<1>5. Off.phase = "off" /\ Off.held = {}
  BY OffFact
<1>6. Opens(s, c) => /\ f.open[c] = "closed" /\ g.open[c] # "closed" /\ \E i \in f.held : SchemaOf(s, i) = c
                     /\ ~Replaces(base) => g.open[c] = "direct" /\ (target[c] # None => target'[c] = target[c])
  BY DEF Opens, HeldFor
<1>7. Closes(s, c) =>
        /\ f.phase = "ending" /\ ~\E i \in f.held : SchemaOf(s, i) = c
        /\ \A i \in Records : SchemaOf(s, i) = c /\ Stored(s, i, f, target, staging) => Stored(s, i, g, target', staging')
  BY DEF Closes, HeldFor, Stored, Has
<1> HIDE DEF f, g
<1>8. Upto(g) = Upto(f) /\ \A m \in Upto(f) : 1..m \subseteq Records
  BY <1>2, NumberFact DEF Upto, f
<1>9. f.phase # "off"
  BY <1>3, <1>4, <1>5, <1>6, <1>7 DEF Fits, PhaseSays
<1>10. Covered(s, g, target', staging', base, wiped')
  <2>1. SUFFICES ASSUME s \notin wiped' \/ Replaces(base), NEW m \in Upto(f), NEW i \in 1..m, i \notin f.held
                 PROVE  Stored(s, i, g, target', staging')
    BY <1>2, <1>8 DEF Covered
  <2>2. Stored(s, i, f, target, staging)
    BY <1>1, <1>4, <1>9, <2>1 DEF Fits, Covered
  <2>3. i \in Records
    BY <1>8
  <2>4. CASE SchemaOf(s, i) # c
    BY <1>1, <1>4, <2>2, <2>3, <2>4 DEF Stored, Has
  <2>5. CASE SchemaOf(s, i) = c /\ Opens(s, c)
    <3>1. ~Replaces(base)
      BY <1>4, <1>6, <1>9, <2>1, <2>5 DEF Fits, Unopened
    <3> QED BY <1>6, <2>2, <2>5, <3>1 DEF Stored, Has
  <2>6. CASE SchemaOf(s, i) = c /\ Closes(s, c)
    BY <1>7, <2>2, <2>3, <2>6
  <2> QED BY <1>3, <2>4, <2>5, <2>6
<1>11. Unopened(s, g, base)
  <2>1. SUFFICES ASSUME Replaces(base), NEW d \in SchemasOf(s), g.open[d] = "closed",
                        f.phase = "reading" \/ \E i \in f.held : SchemaOf(s, i) = d
                 PROVE  \A m \in Upto(f) : \A i \in 1..m : SchemaOf(s, i) = d => i \in f.held
    BY <1>2, <1>8 DEF Unopened
  <2>2. d # c
    BY <1>3, <1>6, <1>7, <2>1
  <2>3. f.open[d] = "closed"
    BY <1>1, <1>4, <2>1, <2>2
  <2> QED BY <1>4, <1>9, <2>1, <2>3 DEF Fits, Unopened
<1>12. PhaseSays(s, g, base)
  <2>1. f.phase # "committing"
    BY <1>3, <1>4, <1>6, <1>7 DEF Fits, PhaseSays
  <2> QED BY <1>2, <1>4, <1>9, <2>1 DEF Fits, PhaseSays
<1>13. NewsOnly(s, g, base, forced, Loaded, source[s])
  BY <1>2 DEF SetInv, NewsOnly, f, g
<1>14. ASSUME NEW st \in {base, Loaded} PROVE Stands(s, st, target', wiped', cut, source[s])
  <2>1. /\ st \in State \cup {None} /\ source[s] \in Nat /\ source[s] <= source[s]
        /\ Stands(s, st, target, wiped, cut, source[s]) /\ (s \in wiped => s \in wiped')
    BY <1>1, NumberFact, RecordsAssumption DEF Typed, SetInv
  <2>2. CASE target[c] = None \/ (\A i \in Records : target[c][i] = 0) \/ target'[c] = target[c]
    <3>1. ASSUME NEW i \in Records, Has(target, s, i) PROVE Has(target', s, i)
      <4>1. CASE SchemaOf(s, i) # c
        BY <1>1, <1>4, <3>1, <4>1 DEF Has
      <4>2. CASE SchemaOf(s, i) = c
        BY <2>2, <3>1, <4>2 DEF Has
      <4> QED BY <4>1, <4>2
    <3> QED BY <2>1, <3>1, StandsGrow
  <2>3. CASE s \in wiped'
    BY <2>1, <2>3, StandsGrow
  <2>4. CASE Replaces(base) /\ s \notin wiped' /\ target[c] # None /\ Wipe(s, c)
    <3>1. ~forced \/ saved \in {None, Torn}
      BY <2>4 DEF Wipe
    <3>2. CASE ~forced
      <4>1. News(s, base, source[s]) /\ News(s, Loaded, source[s]) /\ (base = None => ~Known(s, Loaded))
        BY <1>9, <3>2 DEF SetInv, NewsOnly, f
      <4>2. OffsetStands(s, st, target', wiped')
        BY <2>4, <4>1 DEF OffsetStands, Replaces, Known
      <4>3. HashStands(s, st, target', wiped', cut, source[s])
        BY <2>1, <4>1 DEF Stands, HashStands, News
      <4> QED BY <4>2, <4>3 DEF Stands
    <3>3. CASE forced /\ saved \in {None, Torn}
      BY <3>3, NoneStands DEF Loaded
    <3> QED BY <3>1, <3>2, <3>3
  <2> QED BY <1>3, <2>2, <2>3, <2>4 DEF Loses
<1>15. Next1(s)
  BY <1>1, <1>10, <1>11, <1>12, <1>13, <1>14 DEF Next1, Fits, g
<1> QED BY <1>1, <1>15, SetInvNext

-----------------------------------------------------------------------------
(* The invariant holds.                                                    *)

\* What a step leaves of the state that was loaded and of the one that is kept.
LEMMA BaseStep ==
    ASSUME Typed, AllThere, forced => base = None, sink = "log" => saved = None, [Next]_vars
    PROVE  (forced => base = None)' /\ (sink = "log" => saved = None)'
<1>1. ASSUME NEW force \in BOOLEAN, StartFetch(force)
      PROVE  (forced => base = None)' /\ (sink = "log" => saved = None)'
  <2>1. base' = First(force) /\ forced' = force
    BY <1>1, StartFact
  <2>2. UNCHANGED <<sink, saved>>
    BY <1>1 DEF StartFetch, fixed
  <2> QED BY <2>1, <2>2 DEF First
<1>2. ASSUME NEW s \in Sets, Produce(s) \/ Read(s)
      PROVE  (forced => base = None)' /\ (sink = "log" => saved = None)'
  BY <1>2 DEF Produce, Read, fixed
<1>3. ASSUME NEW s \in Sets, Turns(s)
      PROVE  (forced => base = None)' /\ (sink = "log" => saved = None)'
  BY <1>3 DEF Turns, EndOfSource, EndsEarly, Reconnect, BeginCommit, fixed
<1>4. ASSUME NEW s \in Sets, SaveState(s) \/ Fail(s)
      PROVE  (forced => base = None)' /\ (sink = "log" => saved = None)'
  <2>1. (base' = base /\ forced' = forced) \/ forced' = FALSE
    BY <1>4, FinishedFact DEF SaveState, Fail
  <2>2. sink' = sink /\ (sink = "log" => saved' = saved)
    BY <1>4 DEF SaveState, Fail, fixed
  <2> QED BY <2>1, <2>2
<1>5. ASSUME NEW s \in Sets, NEW c \in SchemasOf(s), Moves(s, c) \/ Flush(s, c)
      PROVE  (forced => base = None)' /\ (sink = "log" => saved = None)'
  <2>1. UNCHANGED <<fixed, saved, base, forced>>
    BY <1>5, MoveFrame DEF Flush
  <2> QED BY <2>1 DEF fixed
<1>6. CASE Stop \/ UNCHANGED vars
  <2>1. UNCHANGED <<sink, saved, base, forced>>
    <3>1. Stop => UNCHANGED <<fixed, saved, base, forced>>
      BY DEF Stop
    <3> QED BY <1>6, <3>1 DEF vars, fixed
  <2> QED BY <2>1
<1>7. CASE Dies
  <2>1. forced' = FALSE /\ UNCHANGED <<sink, saved>>
    BY <1>7 DEF Dies, Die, fixed
  <2> QED BY <2>1
<1> QED BY <1>1, <1>2, <1>3, <1>4, <1>5, <1>6, <1>7, Steps

\* A step of one stream set forgets what was loaded with the last fetch only, and
\* keeps for the others what was loaded.
LEMMA OneSetBase ==
    ASSUME Typed, AllThere, NEW s \in Sets,
           \/ Produce(s) \/ Read(s) \/ Turns(s) \/ SaveState(s) \/ Fail(s)
           \/ \E c \in SchemasOf(s) : Moves(s, c) \/ Flush(s, c)
    PROVE  UNCHANGED fixed /\ Base(s) /\ \A t \in Sets \ {s} : KeptOf(t)
<1>1. CASE Produce(s) \/ Read(s) \/ Turns(s)
  <2>1. UNCHANGED <<fixed, base, forced>> /\ saved' \in {saved, Torn}
    BY <1>1 DEF Produce, Read, Turns, EndOfSource, EndsEarly, Reconnect, BeginCommit
  <2> QED BY <2>1 DEF Base, KeptOf, Loaded
<1>2. CASE SaveState(s) \/ Fail(s)
  <2>1. Finished(s) /\ UNCHANGED fixed /\ saved' \in {saved, Torn, FinalState(s)}
    BY <1>2 DEF SaveState, Fail
  <2>2. Base(s)
    BY <2>1, FinishedFact DEF Base
  <2>3. Loaded' \in {Loaded, None} \/ (Loaded' = FinalState(s) /\ saved' # Torn)
    BY <2>1 DEF Loaded
  <2>4. FinalState(s) # None /\ \A t \in Sets \ {s} : FinalState(s)[t] = IF base = None THEN None ELSE base[t]
    BY FinalFact, NoneAssumption
  <2> QED BY <2>1, <2>2, <2>3, <2>4 DEF KeptOf
<1>3. CASE \E c \in SchemasOf(s) : Moves(s, c) \/ Flush(s, c)
  <2>1. UNCHANGED <<fixed, saved, base, forced>>
    BY <1>3, MoveFrame DEF Flush
  <2> QED BY <2>1 DEF Base, KeptOf, Loaded
<1> QED BY <1>1, <1>2, <1>3

LEMMA KeptStep ==
    ASSUME Typed, AllThere, Kept, forced => base = None, \A s \in Sets : SetInv(s), [Next]_vars
    PROVE  \A s \in Sets : SetInv(s)'
<1>1. ASSUME NEW s \in Sets,
             \/ Produce(s) \/ Read(s) \/ Turns(s) \/ SaveState(s) \/ Fail(s)
             \/ \E c \in SchemasOf(s) : Moves(s, c) \/ Flush(s, c)
      PROVE  \A t \in Sets : SetInv(t)'
  <2>1. SetInv(s)'
    BY <1>1, KeptProduce, KeptRead, KeptTurns, KeptSave, KeptFail, KeptMoves, KeptFlush DEF Kept
  <2>2. \A t \in Sets \ {s} : SetInv(t)'
    <3>1. Alone(s)
      BY <1>1, OneSetStep
    <3>2. UNCHANGED fixed /\ Base(s) /\ \A t \in Sets \ {s} : KeptOf(t)
      BY <1>1, OneSetBase
    <3> QED BY <3>1, <3>2, OthersKept
  <2> QED BY <2>1, <2>2
<1>2. CASE \E force \in BOOLEAN : StartFetch(force)
  BY <1>2, KeptStart
<1>3. CASE Stop
  BY <1>3, KeptStop
<1>4. CASE Dies
  BY <1>4, KeptDies
<1>5. CASE UNCHANGED vars
  <2>1. UNCHANGED <<fixed, source, sinkVars, saved, base, forced, fetch, wiped, cut>>
    BY <1>5 DEF vars
  <2>2. ASSUME NEW s \in Sets PROVE SetInv(s)'
    <3>1. /\ fetch'[s] = fetch[s] /\ source'[s] = source[s] /\ target' = target /\ staging' = staging
          /\ base' = base /\ forced' = forced /\ wiped' = wiped /\ cut' = cut /\ Loaded' = Loaded
      BY <2>1 DEF sinkVars, Loaded
    <3>2. Next1(s)
      BY <3>1 DEF Next1, SetInv
    <3> QED BY <2>1, <3>2, SetInvNext
  <2> QED BY <2>2
<1> QED BY <1>1, <1>2, <1>3, <1>4, <1>5, Steps

\* It holds at first.
LEMMA InvInit == Init => Inv
<1> SUFFICES ASSUME Init PROVE Inv
  OBVIOUS
<1>1. /\ <<package, sink, method, format>> \in Combinations
      /\ source = [s \in Sets |-> 0] /\ target = [c \in Schemas |-> None] /\ staging = [c \in Schemas |-> None]
      /\ saved = None /\ base = None /\ forced = FALSE
      /\ fetch = [s \in Sets |-> Off] /\ wiped = {} /\ cut = {}
  <2>1. PICK combination \in Combinations :
           /\ package = combination[1] /\ sink = combination[2]
           /\ method = combination[3] /\ format = combination[4]
    BY DEF Init
  <2>2. combination = <<combination[1], combination[2], combination[3], combination[4]>>
    BY CombinationsAssumption
  <2> QED BY <2>1, <2>2 DEF Init
<1>2. Typed
  <2>1. 0 \in 0..MaxRecords
    BY RecordsAssumption
  <2>2. Off \in Fetches /\ Off.read = 0 /\ Off.preview = 0
    BY RecordsAssumption DEF Off, Fetches, Modes, Phases
  <2>3. source \in [Sets -> 0..MaxRecords] /\ fetch \in [Sets -> Fetches]
    BY <1>1, <2>1, <2>2
  <2>4. target \in [Schemas -> {None} \cup Content] /\ staging \in [Schemas -> {None} \cup Content]
    BY <1>1
  <2>5. \A s \in Sets : fetch[s].read <= source[s] /\ fetch[s].preview <= source[s]
    BY <1>1, <2>2
  <2> QED BY <1>1, <2>3, <2>4, <2>5 DEF Typed
<1>3. /\ Off.phase = "off" /\ ~Off.filtering
      /\ \A c \in Schemas : Off.open[c] = "closed"
  BY <1>2, OffFact DEF Off
<1>4. \A s \in Sets : OpenThere(s)
  BY <1>1, <1>2, <1>3, PackageFacts DEF OpenThere, Right
<1>5. ASSUME NEW s \in Sets PROVE SetInv(s)
  <2>1. fetch[s] = Off /\ base = None /\ Loaded = None
    BY <1>1 DEF Loaded
  <2> QED BY <1>3, <2>1, NoneStands DEF SetInv, Fits, Covered, Unopened, PhaseSays, NewsOnly
<1> QED BY <1>1, <1>2, <1>4, <1>5 DEF Inv

\* What is fetched into what never changes.
LEMMA FixedStep ==
    ASSUME Typed, AllThere, [Next]_vars
    PROVE  UNCHANGED fixed
<1>1. ASSUME NEW force \in BOOLEAN, StartFetch(force) PROVE UNCHANGED fixed
  BY <1>1 DEF StartFetch
<1>2. Stop \/ Dies \/ UNCHANGED vars => UNCHANGED fixed
  BY DEF Stop, Dies, vars
<1> QED BY <1>1, <1>2, Steps, OneSetBase

LEMMA InvStep == Inv /\ [Next]_vars => Inv'
<1> SUFFICES ASSUME Inv, [Next]_vars PROVE Inv'
  OBVIOUS
<1>1. /\ Typed /\ AllThere /\ (forced => base = None) /\ (sink = "log" => saved = None)
      /\ Kept => \A s \in Sets : SetInv(s)
  BY DEF Inv, AllThere
<1>2. Typed' /\ AllThere' /\ (forced => base = None)' /\ (sink = "log" => saved = None)'
  BY <1>1, TypeStep, BaseStep
<1>3. Sets' = Sets /\ Kept' = Kept
  BY <1>1, FixedStep, PackageStays
<1>4. Kept => \A s \in Sets : SetInv(s)'
  BY <1>1, KeptStep
<1> QED BY <1>2, <1>3, <1>4 DEF Inv, AllThere

\* In every state that is reached.
THEOREM Invariant == Spec => []Inv
BY InvInit, InvStep, PTL DEF Spec

\* Where the state that is kept says something, it is one of the sinks and methods
\* the invariant is about.
LEMMA KeptOrNothing ==
    ASSUME Inv, NEW s \in Sets, HasState(s), ~Rewrites
    PROVE  Stands(s, Loaded, target, wiped, cut, source[s])
<1>1. sink # "log"
  BY NoneAssumption DEF Inv, HasState, Known, Loaded
<1>2. Kept
  BY <1>1 DEF Rewrites, Kept
<1> QED BY <1>2 DEF Inv, SetInv

\* The counters of the bounded events.
CountsTyped == counts \in [Bounded -> Nat]

\* A step counts one event, or none.
LEMMA EventStep ==
    ASSUME [Next]_vars
    PROVE  UNCHANGED counts \/ \E event \in Bounded : Count(event)
<1> DEFINE Goal == UNCHANGED counts \/ \E event \in Bounded : Count(event)
<1> SUFFICES Goal
  OBVIOUS
<1>1. {"forced", "stops", "faults", "cuts", "reconnects"} \subseteq Bounded
  BY DEF Bounded
<1>2. Count("forced") \/ Count("stops") \/ Count("faults") \/ Count("cuts") \/ Count("reconnects") => Goal
  BY <1>1
<1>3. UNCHANGED counts => Goal
  OBVIOUS
<1> HIDE DEF Goal
<1>4. ASSUME NEW force \in BOOLEAN, StartFetch(force) PROVE Goal
  BY <1>2, <1>3, <1>4 DEF StartFetch
<1>5. ASSUME NEW s \in Sets, EndsEarly(s) \/ Reconnect(s) \/ Fail(s) \/ SaveState(s) PROVE Goal
  BY <1>2, <1>3, <1>5 DEF EndsEarly, Reconnect, Fail, SaveState
<1>6. Stop \/ Crash => Goal
  BY <1>2 DEF Stop, Crash
<1>7. ASSUME NEW s \in Sets, Produce(s) \/ Read(s) \/ EndOfSource(s) \/ BeginCommit(s) PROVE Goal
  BY <1>3, <1>7 DEF Produce, Read, EndOfSource, BeginCommit
<1>8. ASSUME NEW s \in Sets, NEW c, Writing(s, c) \/ OpenFails(s, c) PROVE Goal
  BY <1>3, <1>8 DEF Writing, Open, OpenFile, OpenObject, OpenTable, OpenRedshift, OpenWarehouse, OpenCollection,
                    OpenTopic, Flush, CloseDirect, Upload, DropOld, RenameNew, OpenFails
<1>9. UNCHANGED vars => Goal
  BY <1>3 DEF vars
<1> QED BY <1>4, <1>5, <1>6, <1>7, <1>8, <1>9 DEF Next, Progress

LEMMA CountsStep == CountsTyped /\ [Next]_vars => CountsTyped'
<1> SUFFICES ASSUME counts \in [Bounded -> Nat], [Next]_vars PROVE counts' \in [Bounded -> Nat]
  BY DEF CountsTyped, Bounded
<1>1. ASSUME NEW event \in Bounded, Count(event) PROVE counts' \in [Bounded -> Nat]
  <2>1. counts' = [counts EXCEPT ![event] = counts[event] + 1] /\ counts[event] + 1 \in Nat
    BY <1>1 DEF Count
  <2> QED BY <2>1
<1>2. CASE UNCHANGED counts
  BY <1>2
<1> QED BY <1>1, <1>2, EventStep

\* What is written, loaded, kept and counted has its type.
THEOREM TypeCorrect == Spec => []TypeOK
<1>1. Init => CountsTyped
  BY DEF Init, CountsTyped
<1>2. Inv /\ CountsTyped => TypeOK
  <2>1. SUFFICES ASSUME Typed, counts \in [Bounded -> Nat] PROVE TypeOK
    BY DEF Inv, CountsTyped
  <2>2. ASSUME NEW s \in Sets
        PROVE  /\ fetch[s].phase \in Phases /\ fetch[s].held \subseteq Records
               /\ fetch[s].read \in 0..source[s] /\ fetch[s].note \in 0..MaxRecords
    BY <2>1 DEF Typed, Fetches
  <2>3. {target, staging} \subseteq [Schemas -> {None} \cup Content]
    BY <2>1 DEF Typed
  <2>4. /\ <<package, sink, method, format>> \in Combinations /\ source \in [Sets -> 0..MaxRecords]
        /\ saved \in State \cup {None, Torn} /\ base \in State \cup {None}
        /\ forced \in BOOLEAN /\ wiped \subseteq Sets /\ cut \subseteq Sets
    BY <2>1 DEF Typed
  <2> QED BY <2>1, <2>2, <2>3, <2>4 DEF TypeOK
<1> QED BY <1>1, <1>2, CountsStep, Invariant, PTL DEF Spec

\* The saved offset of a sink that appends is never ahead of what has been written,
\* for all packages, interleavings, stops, failures and numbers of records.
THEOREM OffsetsAreWritten == Spec => []SavedIsWritten
<1>1. Inv => SavedIsWritten
  <2>1. SUFFICES ASSUME Inv, ~Rewrites, method # FullSet, NEW s \in Sets \ wiped, HasState(s),
                        NEW i \in 1..Loaded[s].offset
                 PROVE  Written(s, i)
    BY DEF SavedIsWritten, OffsetIsWritten
  <2>2. OffsetStands(s, Loaded, target, wiped)
    BY <2>1, KeptOrNothing DEF Stands
  <2>3. Has(target, s, i)
    BY <2>1, <2>2 DEF OffsetStands, HasState
  <2> QED BY <2>3 DEF Has, Written
<1> QED BY <1>1, Invariant, PTL

\* A sink that is said to be up to date has every record of the source, whatever was
\* stopped, failed, died or was fetched at the same time.
THEOREM UpToDateSinks == Spec => []UpToDateIsComplete
<1>1. Inv => UpToDateIsComplete
  <2>1. SUFFICES ASSUME Inv, ~Rewrites, NEW s \in Sets \ (wiped \cup cut),
                        HasState(s), ~NewRecordsAvailable(s, Loaded), NEW i \in 1..source[s]
                 PROVE  Written(s, i)
    BY DEF UpToDateIsComplete
  <2>2. HashStands(s, Loaded, target, wiped, cut, source[s])
    BY <2>1, KeptOrNothing DEF Stands
  <2>3. Known(s, Loaded) /\ Loaded[s].hash # None /\ Loaded[s].hash = source[s]
    BY <2>1, NewsFact DEF HasState
  <2>4. Has(target, s, i)
    BY <2>1, <2>2, <2>3 DEF HashStands
  <2> QED BY <2>4 DEF Has, Written
<1> QED BY <1>1, Invariant, PTL

-----------------------------------------------------------------------------
(* One stream set of one schema, while nothing fails.                      *)

\* When ExactlyOnce says something.
Calm ==
    /\ \A s, t \in Sets : s = t /\ Len(package[s]) = 1
    /\ method # Continuous /\ sink # "log" /\ counts["faults"] = 0
    /\ counts["forced"] = 0 \/ counts["stops"] + counts["cuts"] = 0
    /\ format = "blocks" => method = FullSet

\* No record is in x twice, and none that the source has not got.
Distinct(x, n) == x # None => \A i \in Records : x[i] <= 1 /\ (x[i] > 0 => i <= n)

\* No record after m is in x.
EndsAt(x, m) == x # None => \A i \in Records : x[i] > 0 => i <= m

\* What is open has nothing of what the fetch holds or will still read.
Fresh(f, c, x, y) ==
    f.open[c] # "closed" =>
       \A i \in Records :
          (IF f.open[c] = "direct" THEN x ELSE y)[i] > 0 =>
             i \notin f.held /\ (f.phase = "reading" => i <= f.read \/ (f.filtering /\ i <= f.note))

\* A fetch that appends filters what the state it has loaded knows.
Filters(f, b) ==
    /\ \A i \in f.held : i <= f.read
    /\ method # FullSet /\ f.phase # "off" =>
          /\ f.filtering <=> b # None
          /\ \A i \in f.held : f.note < i
          /\ b = None => f.note <= f.read
    /\ method = FullSet => ~f.filtering

\* How the states and phases fit together; what stands beside the sink is of this fetch.
Settled(s, c, f, y, b, st) ==
    /\ f.phase = "off" => f = Off
    /\ f.phase = "committing" => f.held = {} /\ f.open[c] = "closed"
    /\ y # None => f.open[c] \in {"staged", "dropped"}
    /\ st = Torn => f.phase = "committing"
    /\ st \notin {None, Torn} => st[s] # None
    /\ b # None => b[s] # None

\* A file that is appended to ends at the offset of the fetch, or the fetch was forced
\* and will empty it when it opens it.
EndsAtNote(c, f, x, b, again) ==
    sink = "file" /\ method # FullSet /\ f.phase # "off" =>
       \/ EndsAt(x, f.note)
       \/ /\ b = None /\ again /\ f.open[c] = "closed"
          /\ f.held = 1..f.read /\ (f.phase = "reading" \/ f.read > 0)

\* Between fetches it ends at the offset of the state; without a state there is nothing.
EndsAtState(s, f, x, st) ==
    f.phase = "off" =>
       IF st = None THEN EndsAt(x, 0)
       ELSE sink = "file" /\ method # FullSet => EndsAt(x, st[s].offset)

OnceOf(s, c, f, x, y, b, st, n, again) ==
    /\ Distinct(x, n) /\ Distinct(y, n)
    /\ Fresh(f, c, x, y) /\ Filters(f, b) /\ Settled(s, c, f, y, b, st)
    /\ EndsAtNote(c, f, x, b, again) /\ EndsAtState(s, f, x, st)

Now(s, c) ==
    OnceOf(s, c, fetch[s], target[c], staging[c], base, saved, source[s], counts["forced"] > 0)

\* The invariant.
OnceInv == Calm => \A s \in Sets : \A c \in SchemasOf(s) : Now(s, c)

\* What the next step has to show.
After(s, c) ==
    OnceOf(s, c, fetch'[s], target'[c], staging'[c], base', saved', source'[s], counts'["forced"] > 0)

LEMMA NowNext ==
    ASSUME UNCHANGED fixed, NEW s \in Sets, NEW c, After(s, c)
    PROVE  Now(s, c)'
<1>1. sink' = sink /\ method' = method
  BY DEF fixed
<1> QED BY <1>1 DEF After, Now, OnceOf, Distinct, Fresh, Filters, Settled, EndsAtNote, EndsAtState, EndsAt,
               Records, Off

\* What is so before each step.
Quiet(s, c) ==
    /\ Typed /\ AllThere /\ CountsTyped /\ Calm
    /\ s \in Sets /\ c \in SchemasOf(s) /\ Now(s, c)

\* There is one stream set, one schema, and what their state consists of.
LEMMA OneFact ==
    ASSUME NEW s, NEW c, Quiet(s, c)
    PROVE  /\ Sets = {s} /\ SchemasOf(s) = {c} /\ c \in Schemas
           /\ \A i \in Records : SchemaOf(s, i) = c
           /\ HeldFor(s, c) = fetch[s].held
           /\ method \in {FullSet, AppendOnly} /\ sink \in Sinks \ {"log"}
<1>1. Typed /\ Calm /\ s \in Sets /\ c \in SchemasOf(s)
  BY DEF Quiet
<1>2. Sets = {s} /\ Len(package[s]) = 1
  BY <1>1 DEF Calm
<1>3. c \in Schemas /\ sink \in Sinks \ {"log"} /\ method \in {FullSet, AppendOnly}
  BY <1>1, PackageFacts DEF Calm
<1>4. SchemasOf(s) = {c}
  <2>1. PICK combination \in Combinations : package = combination[1]
    BY <1>1 DEF Typed
  <2>2. package[s] \in Seq(Schemas)
    BY <1>1, <2>1, CombinationsAssumption DEF Sets
  <2>3. DOMAIN package[s] = {1}
    BY <1>2, <2>2
  <2> QED BY <1>1, <2>3 DEF SchemasOf, Range
<1>5. \A i \in Records : SchemaOf(s, i) = c
  BY <1>1, <1>4, PackageFacts
<1>6. fetch[s].held \subseteq Records
  BY <1>1 DEF Typed, Fetches
<1> QED BY <1>2, <1>3, <1>4, <1>5, <1>6 DEF HeldFor

\* The types of what the invariant is about.
LEMMA OneTypes ==
    ASSUME NEW s, NEW c, Quiet(s, c)
    PROVE  /\ fetch[s] \in Fetches /\ source[s] \in Nat /\ fetch[s].read \in Nat /\ fetch[s].note \in Nat
           /\ fetch[s].read <= source[s] /\ fetch[s].held \subseteq Records /\ Records \subseteq Nat \ {0}
           /\ fetch[s].filtering \in BOOLEAN
           /\ target[c] \in {None} \cup Content /\ staging[c] \in {None} \cup Content
           /\ Right(sink, target[c], staging[c], fetch[s].open[c]) /\ fetch[s].open[c] \in Modes
           /\ saved \in State \cup {None, Torn} /\ base \in State \cup {None}
           /\ OnceOf(s, c, fetch[s], target[c], staging[c], base, saved, source[s], counts["forced"] > 0)
<1>1. Typed /\ s \in Sets /\ c \in SchemasOf(s) /\ c \in Schemas /\ OpenThere(s)
  BY OneFact DEF Quiet, AllThere
<1>2. fetch[s] \in Fetches /\ source[s] \in 0..MaxRecords /\ fetch[s].read <= source[s]
  BY <1>1 DEF Typed
<1>3. fetch[s].read \in 0..MaxRecords /\ fetch[s].note \in 0..MaxRecords /\ fetch[s].held \subseteq Records
  BY <1>2 DEF Fetches
<1>4. 0..MaxRecords \subseteq Nat /\ Records \subseteq Nat \ {0}
  BY RecordsAssumption DEF Records
<1>5. fetch[s].filtering \in BOOLEAN /\ fetch[s].open[c] \in Modes
  BY <1>1, <1>2 DEF Fetches
<1>6. /\ target[c] \in {None} \cup Content /\ staging[c] \in {None} \cup Content
      /\ saved \in State \cup {None, Torn} /\ base \in State \cup {None}
  BY <1>1 DEF Typed
<1>7. Right(sink, target[c], staging[c], fetch[s].open[c])
  BY <1>1 DEF OpenThere
<1> QED BY <1>2, <1>3, <1>4, <1>5, <1>6, <1>7 DEF Quiet, Now

\* Numbers of a content.
LEMMA ContentFact ==
    ASSUME NEW x \in {None} \cup Content, x # None
    PROVE  \A i \in Records : x[i] \in 0..2
BY DEF Content

\* A record is added, read, or goes by the filter.
LEMMA OnceProduce ==
    ASSUME NEW s, NEW c, Quiet(s, c), Produce(s)
    PROVE  After(s, c)
<1>1. /\ fetch' = fetch /\ target' = target /\ staging' = staging /\ base' = base /\ saved' = saved
      /\ counts' = counts
  BY DEF Produce, sinkVars
<1>2. source'[s] = source[s] + 1 /\ source[s] \in Nat
  BY OneTypes DEF Produce, Quiet, Typed
<1>3. \A i \in Records : i <= source[s] => i <= source'[s]
  BY <1>2, OneTypes
<1>4. Distinct(target[c], source'[s]) /\ Distinct(staging[c], source'[s])
  BY <1>3, OneTypes DEF OnceOf, Distinct
<1> QED BY <1>1, <1>4, OneTypes DEF After, OnceOf

LEMMA OnceRead ==
    ASSUME NEW s, NEW c, Quiet(s, c), Read(s)
    PROVE  After(s, c)
<1> DEFINE f == fetch[s]
           g == fetch'[s]
           i == f.read + 1
<1>1. /\ target' = target /\ staging' = staging /\ base' = base /\ saved' = saved /\ source' = source
      /\ counts' = counts /\ f.phase = "reading"
  BY DEF Read, sinkVars, Reading
<1>2. /\ Fresh(f, c, target[c], staging[c]) /\ Filters(f, base) /\ Settled(s, c, f, staging[c], base, saved)
      /\ EndsAtNote(c, f, target[c], base, counts["forced"] > 0)
  BY OneTypes DEF OnceOf
<1>3. g \in Fetches /\ g = [f EXCEPT !.read = g.read, !.held = g.held] /\ g.read = i /\ i \in Records
      /\ g.held = IF Passes(s, i) THEN f.held \cup {i} ELSE f.held
  <2>1. Typed /\ s \in Sets
    BY DEF Quiet
  <2>2. PICK h : /\ Goes(s, h) /\ h.read = i /\ h.read \in Records
                 /\ h.held = (IF Passes(s, h.read) THEN f.held \cup {h.read} ELSE f.held)
                 /\ h = [f EXCEPT !.read = h.read, !.held = h.held]
    BY <2>1, ReadFact
  <2>3. g = h /\ h \in Fetches
    BY <2>1, <2>2, GoesFact DEF Goes
  <2> QED BY <2>2, <2>3
<1>4. g.phase = f.phase /\ g.note = f.note /\ g.filtering = f.filtering /\ g.open = f.open
  BY <1>3, OneTypes DEF Fetches
<1>5. f.read \in Nat /\ f.note \in Nat /\ Records \subseteq Nat \ {0} /\ f.held \subseteq Records
  BY OneTypes
<1>6. ~Passes(s, i) <=> f.filtering /\ i <= f.note
  BY DEF Passes
<1> HIDE DEF f, g, i
<1>7. \A j \in Nat : j <= f.read => j <= i /\ j # i
  BY <1>5 DEF i
<1>8. i \in Nat /\ f.read < i
  BY <1>5 DEF i
<1>9. Fresh(g, c, target[c], staging[c])
  BY <1>1, <1>2, <1>3, <1>4, <1>5, <1>6, <1>7 DEF Fresh
<1>10. Filters(g, base)
  <2>1. \A j \in g.held : j <= g.read
    BY <1>2, <1>3, <1>5, <1>7, <1>8 DEF Filters
  <2>2. ASSUME method # FullSet
        PROVE  (g.filtering <=> base # None) /\ (\A j \in g.held : g.note < j) /\ (base = None => g.note <= g.read)
    <3>1. (f.filtering <=> base # None) /\ (\A j \in f.held : f.note < j) /\ (base = None => f.note <= f.read)
      BY <1>1, <1>2, <2>2 DEF Filters
    <3>2. ~(i <= f.note) => f.note < i
      BY <1>5, <1>8
    <3>3. f.note <= f.read => f.note < i
      BY <1>5, <1>8
    <3>4. Passes(s, i) => f.note < i
      BY <1>6, <3>1, <3>2, <3>3
    <3>5. f.note <= f.read => f.note <= i
      BY <1>5, <1>8
    <3> QED BY <1>3, <1>4, <3>1, <3>4, <3>5
  <2> QED BY <1>2, <1>4, <2>1, <2>2 DEF Filters
<1>11. Settled(s, c, g, staging[c], base, saved)
  BY <1>1, <1>2, <1>4 DEF Settled
<1>12. EndsAtNote(c, g, target[c], base, counts["forced"] > 0)
  <2>1. SUFFICES ASSUME sink = "file", method # FullSet, ~EndsAt(target[c], f.note)
                 PROVE  EndsAtNote(c, g, target[c], base, counts["forced"] > 0)
    BY <1>4 DEF EndsAtNote
  <2>2. base = None /\ counts["forced"] > 0 /\ f.open[c] = "closed" /\ f.held = 1..f.read
    BY <1>1, <1>2, <2>1 DEF EndsAtNote
  <2>3. ~f.filtering
    BY <1>1, <1>2, <2>1, <2>2 DEF Filters
  <2>4. g.held = 1..g.read
    <3>1. g.held = (1..f.read) \cup {i}
      BY <1>3, <1>6, <2>2, <2>3
    <3>2. (1..f.read) \cup {i} = 1..i
      BY <1>5 DEF i
    <3> QED BY <1>3, <3>1, <3>2
  <2> QED BY <1>1, <1>4, <2>2, <2>4 DEF EndsAtNote
<1>13. EndsAtState(s, g, target[c], saved)
  BY <1>1, <1>4 DEF EndsAtState
<1>14. Distinct(target[c], source[s]) /\ Distinct(staging[c], source[s])
  BY OneTypes DEF OnceOf
<1> QED BY <1>1, <1>9, <1>10, <1>11, <1>12, <1>13, <1>14 DEF After, OnceOf, g

\* A bounded event happens once more.
LEMMA CountFact ==
    ASSUME CountsTyped, NEW event \in Bounded, Count(event)
    PROVE  counts'[event] = counts[event] + 1 /\ \A other \in Bounded \ {event} : counts'[other] = counts[other]
BY DEF CountsTyped, Count

\* The source ends, or the user stops the fetch, which has then not been forced.
LEMMA OnceEnds ==
    ASSUME NEW s, NEW c, Quiet(s, c), EndOfSource(s) \/ EndsEarly(s) \/ Stop, Calm'
    PROVE  After(s, c)
<1> DEFINE f == fetch[s]
           g == fetch'[s]
<1>1. target' = target /\ staging' = staging /\ base' = base /\ saved' = saved /\ source' = source
  BY DEF EndOfSource, EndsEarly, Stop, sinkVars
<1>2. f.phase = "reading"
  <2>1. Stop => \E t \in Sets : Reading(t)
    BY DEF Stop
  <2> QED BY <2>1, OneFact DEF EndOfSource, EndsEarly, Reading
<1>3. /\ g.phase = "ending" /\ g.read = f.read /\ g.held = f.held /\ g.note = f.note
      /\ g.filtering = f.filtering /\ g.open = f.open
  <2>1. CASE EndOfSource(s) \/ EndsEarly(s)
    <3>1. g = [f EXCEPT !.phase = "ending"] \/ g = [f EXCEPT !.phase = "ending", !.short = TRUE]
      BY <2>1 DEF EndOfSource, EndsEarly, Quiet, Typed
    <3> QED BY <3>1, OneTypes DEF Fetches
  <2>2. CASE Stop
    <3>1. g = [f EXCEPT !.phase = "ending", !.stopped = TRUE]
      BY <1>2, <2>2, StopFact DEF Quiet, Reading
    <3> QED BY <3>1, OneTypes DEF Fetches
  <2> QED BY <2>1, <2>2
<1>4. /\ Fresh(f, c, target[c], staging[c]) /\ Filters(f, base) /\ Settled(s, c, f, staging[c], base, saved)
      /\ EndsAtNote(c, f, target[c], base, counts["forced"] > 0) /\ Distinct(target[c], source[s])
      /\ Distinct(staging[c], source[s])
  BY OneTypes DEF OnceOf
<1>5. f.read \in Nat /\ f.note \in Nat /\ Records \subseteq Nat \ {0} /\ target[c] \in {None} \cup Content
  BY OneTypes
<1> HIDE DEF f, g
<1>6. EndsAt(target[c], f.note) \/ (sink = "file" /\ method # FullSet => f.read > 0)
  <2>1. CASE EndOfSource(s)
    <3>1. f.read = source[s]
      BY <2>1 DEF EndOfSource, f
    <3>2. CASE f.read = 0
      <4>1. \A i \in Records : ~(i <= f.read) /\ 0 <= f.note
        BY <1>5, <3>2
      <4> QED BY <1>4, <3>1, <4>1 DEF Distinct, EndsAt
    <3> QED BY <1>5, <3>2
  <2>2. CASE EndsEarly(s) \/ Stop
    <3>1. Count("cuts") \/ Count("stops")
      BY <2>2 DEF EndsEarly, Stop
    <3>2. /\ counts'["stops"] \in Nat /\ counts'["cuts"] \in Nat /\ counts'["stops"] + counts'["cuts"] # 0
          /\ counts'["forced"] = counts["forced"]
      BY <3>1, CountFact DEF Quiet, CountsTyped, Bounded
    <3>3. counts["forced"] = 0
      BY <3>2 DEF Calm
    <3>4. ~(counts["forced"] > 0)
      BY <3>3
    <3> QED BY <1>2, <1>4, <3>4 DEF EndsAtNote
  <2> QED BY <2>1, <2>2
<1>7. counts'["forced"] = counts["forced"]
  <2>1. counts' = counts \/ Count("cuts") \/ Count("stops")
    BY DEF EndOfSource, EndsEarly, Stop
  <2> QED BY <2>1, CountFact DEF Quiet, Bounded
<1>8. Fresh(g, c, target[c], staging[c]) /\ Filters(g, base) /\ Settled(s, c, g, staging[c], base, saved)
  BY <1>2, <1>3, <1>4 DEF Fresh, Filters, Settled
<1>9. EndsAtNote(c, g, target[c], base, counts'["forced"] > 0)
  BY <1>2, <1>3, <1>4, <1>6, <1>7 DEF EndsAtNote
<1>10. EndsAtState(s, g, target[c], saved)
  BY <1>3 DEF EndsAtState
<1> QED BY <1>1, <1>4, <1>8, <1>9, <1>10 DEF After, OnceOf, g

\* All is written, and the state is about to be saved.
LEMMA OnceCommit ==
    ASSUME NEW s, NEW c, Quiet(s, c), BeginCommit(s)
    PROVE  After(s, c)
<1> DEFINE f == fetch[s]
           g == fetch'[s]
<1>1. /\ target' = target /\ staging' = staging /\ base' = base /\ source' = source
      /\ saved' \in {saved, Torn} /\ f.phase = "ending" /\ f.held = {} /\ f.open[c] = "closed"
  BY OneFact DEF BeginCommit, sinkVars
<1>2. /\ g.phase = "committing" /\ g.read = f.read /\ g.held = f.held /\ g.note = f.note
      /\ g.filtering = f.filtering /\ g.open = f.open
  <2>1. g = [f EXCEPT !.phase = "committing"]
    BY DEF BeginCommit, Quiet, Typed
  <2> QED BY <2>1, OneTypes DEF Fetches
<1>3. /\ Filters(f, base) /\ Settled(s, c, f, staging[c], base, saved)
      /\ EndsAtNote(c, f, target[c], base, counts["forced"] > 0) /\ Distinct(target[c], source[s])
      /\ Distinct(staging[c], source[s])
  BY OneTypes DEF OnceOf
<1>4. f.read \in Nat
  BY OneTypes
<1> HIDE DEF f, g
<1>5. Fresh(g, c, target[c], staging[c]) /\ Filters(g, base) /\ Settled(s, c, g, staging[c], base, saved')
  <2>1. Fresh(g, c, target[c], staging[c])
    BY <1>1, <1>2 DEF Fresh
  <2>2. Filters(g, base)
    BY <1>1, <1>2, <1>3 DEF Filters
  <2>3. Settled(s, c, g, staging[c], base, saved')
    BY <1>1, <1>2, <1>3 DEF Settled
  <2> QED BY <2>1, <2>2, <2>3
<1>6. f.held = 1..f.read => ~(f.read > 0)
  <2>1. f.read > 0 => 1 \in 1..f.read
    BY <1>4
  <2>2. f.held = {}
    BY <1>1
  <2> QED BY <2>1, <2>2
<1>7. EndsAtNote(c, g, target[c], base, counts'["forced"] > 0)
  BY <1>1, <1>2, <1>3, <1>6 DEF EndsAtNote
<1>8. EndsAtState(s, g, target[c], saved')
  BY <1>2 DEF EndsAtState
<1> QED BY <1>1, <1>3, <1>5, <1>7, <1>8 DEF After, OnceOf, g

\* The state is saved, and the fetch is over.
LEMMA OnceSave ==
    ASSUME NEW s, NEW c, Quiet(s, c), SaveState(s), Calm'
    PROVE  After(s, c)
<1> DEFINE f == fetch[s]
           g == fetch'[s]
<1>1. Typed /\ s \in Sets /\ CountsTyped /\ sink # "log"
  BY OneFact DEF Quiet
<1>2. saved' = FinalState(s)
  <2>1. ~Count("faults")
    <3>1. CountsTyped /\ Count("faults") => counts'["faults"] # 0
      BY CountFact DEF CountsTyped, Bounded
    <3> QED BY <1>1, <3>1 DEF Calm
  <2> QED BY <1>1, <2>1 DEF SaveState
<1>3. /\ target' = target /\ staging' = staging /\ source' = source /\ f.phase = "committing" /\ Finished(s)
  BY DEF SaveState, sinkVars
<1>4. g = Off /\ base' = None
  BY <1>1, <1>3, OneFact DEF Finished, Typed
<1>5. /\ Off.phase = "off" /\ Off.held = {} /\ ~Off.filtering /\ Off.open[c] = "closed"
  BY <1>1, OneFact DEF Off
<1>6. /\ Filters(f, base) /\ Settled(s, c, f, staging[c], base, saved)
      /\ EndsAtNote(c, f, target[c], base, counts["forced"] > 0) /\ Distinct(target[c], source[s])
      /\ Distinct(staging[c], source[s])
  BY OneTypes DEF OnceOf
<1>7. FinalState(s) \in State /\ FinalState(s)[s].offset = f.note /\ FinalState(s)[s] # None
  <2>1. FinalState(s)[s] = [offset |-> f.note, hash |-> IF f.stopped THEN None ELSE f.preview]
    BY <1>1, PackageFacts DEF FinalState
  <2>2. FinalState(s)[s] \in SetState
    BY <2>1, OneTypes DEF Fetches, SetState
  <2> QED BY <1>1, <2>2, FinalFact, NoneAssumption
<1>8. FinalState(s) \notin {None, Torn}
  BY <1>7, NoneAssumption
<1>9. f.held = 1..f.read => ~(f.read > 0)
  <2>1. f.read \in Nat /\ f.held = {}
    BY <1>3, <1>6, OneTypes DEF Settled
  <2> QED BY <2>1
<1> HIDE DEF f, g
<1>10. staging[c] = None
  BY <1>3, <1>6 DEF Settled
<1>11. sink = "file" /\ method # FullSet => EndsAt(target[c], f.note)
  BY <1>3, <1>6, <1>9 DEF EndsAtNote
<1>12. EndsAtState(s, Off, target[c], FinalState(s))
  BY <1>7, <1>8, <1>11 DEF EndsAtState
<1>13. Settled(s, c, Off, staging[c], None, FinalState(s))
  BY <1>5, <1>7, <1>8, <1>10 DEF Settled
<1>14. Fresh(Off, c, target[c], staging[c]) /\ Filters(Off, None)
  BY <1>5 DEF Fresh, Filters
<1>15. EndsAtNote(c, Off, target[c], None, counts'["forced"] > 0)
  BY <1>5 DEF EndsAtNote
<1> QED BY <1>2, <1>3, <1>4, <1>6, <1>12, <1>13, <1>14, <1>15 DEF After, OnceOf, g

\* A fetch begins.
LEMMA OnceStart ==
    ASSUME NEW s, NEW c, Quiet(s, c), NEW force \in BOOLEAN, StartFetch(force)
    PROVE  After(s, c)
<1> DEFINE g == fetch'[s]
           state == First(force)
<1>1. Typed /\ s \in Sets /\ CountsTyped
  BY DEF Quiet
<1>2. /\ target' = target /\ staging' = staging /\ source' = source /\ saved' = saved
  BY DEF StartFetch, sinkVars
<1>3. state \in State \cup {None} /\ base' = state
      /\ (g = Off \/ g = Begun(s, state)) /\ fetch[s].phase = "off"
  BY <1>1, StartFact DEF Active
<1>4. /\ Settled(s, c, fetch[s], staging[c], base, saved) /\ EndsAtState(s, fetch[s], target[c], saved)
      /\ Distinct(target[c], source[s]) /\ Distinct(staging[c], source[s])
  BY OneTypes DEF OnceOf
<1>5. /\ Off.phase = "off" /\ Off.held = {} /\ ~Off.filtering /\ Off.open[c] = "closed"
  BY <1>1, OneFact DEF Off
<1>6. /\ fetch[s] = Off /\ staging[c] = None /\ saved # Torn /\ (saved # None => saved[s] # None)
  BY <1>3, <1>4, <1>5 DEF Settled
<1>7. state = IF force THEN None ELSE saved
  BY <1>6 DEF First, Loaded
<1>8. Known(s, state) <=> state # None
  BY <1>6, <1>7 DEF Known
<1>9. Distinct(target'[c], source'[s]) /\ Distinct(staging'[c], source'[s])
  BY <1>2, <1>4
<1>10. CASE g = Off
  <2>1. Fresh(g, c, target[c], staging[c]) /\ Filters(g, state)
    BY <1>5, <1>10 DEF Fresh, Filters
  <2>2. Settled(s, c, g, staging[c], state, saved)
    BY <1>5, <1>6, <1>8, <1>10 DEF Settled, Known
  <2>3. EndsAtNote(c, g, target[c], state, counts'["forced"] > 0)
    BY <1>5, <1>10 DEF EndsAtNote
  <2>4. EndsAtState(s, g, target[c], saved)
    BY <1>4, <1>6, <1>10
  <2> QED BY <1>2, <1>3, <1>9, <2>1, <2>2, <2>3, <2>4 DEF After, OnceOf
<1>11. CASE g = Begun(s, state)
  <2>1. /\ g.phase = "reading" /\ g.open[c] = "closed" /\ g.read = 0 /\ g.held = {}
        /\ g.note = (IF Known(s, state) THEN state[s].offset ELSE 0) /\ g.filtering = Filtering(s, state)
    BY <1>1, <1>3, <1>5, <1>11, BegunFact
  <2> HIDE DEF g, state
  <2>2. Fresh(g, c, target[c], staging[c])
    BY <2>1 DEF Fresh
  <2>3. Filters(g, state)
    <3>1. state = None => g.note = 0 /\ g.note <= g.read
      BY <1>8, <2>1
    <3> QED BY <1>8, <2>1, <3>1 DEF Filters, Filtering
  <2>4. Settled(s, c, g, staging[c], state, saved)
    BY <1>6, <1>8, <2>1 DEF Settled, Known
  <2>5. EndsAtNote(c, g, target[c], state, counts'["forced"] > 0)
    <3>1. CASE force
      <4>1. Count("forced")
        BY <3>1 DEF StartFetch
      <4>2. counts["forced"] \in Nat /\ counts'["forced"] = counts["forced"] + 1
        BY <1>1, <4>1, CountFact DEF CountsTyped, Bounded
      <4>3. counts'["forced"] > 0
        BY <4>2
      <4>4. g.held = 1..g.read
        BY <2>1
      <4> QED BY <1>7, <2>1, <3>1, <4>3, <4>4 DEF EndsAtNote
    <3>2. CASE ~force
      <4>1. sink = "file" /\ method # FullSet => EndsAt(target[c], g.note)
        BY <1>3, <1>4, <1>7, <1>8, <2>1, <3>2 DEF EndsAtState
      <4> QED BY <4>1 DEF EndsAtNote
    <3> QED BY <3>1, <3>2
  <2>6. EndsAtState(s, g, target[c], saved)
    BY <2>1 DEF EndsAtState
  <2> QED BY <1>2, <1>3, <1>9, <2>2, <2>3, <2>4, <2>5, <2>6 DEF After, OnceOf, g, state
<1> QED BY <1>3, <1>10, <1>11

\* What a writable has buffered is written: nothing of it was there.
LEMMA OnceFlush ==
    ASSUME NEW s, NEW c, Quiet(s, c), Flush(s, c)
    PROVE  After(s, c)
<1> DEFINE f == fetch[s]
           g == fetch'[s]
           how == f.open[c]
           x == target[c]
           y == staging[c]
           z == IF how = "direct" THEN x ELSE y
<1>1. /\ base' = base /\ saved' = saved /\ source' = source /\ counts' = counts
  BY DEF Flush
<1>2. /\ how \in {"direct", "staged", "dropped"} /\ z \in Content /\ z # None
  BY OneTypes DEF Flush, Right, Modes
<1>3. IF how = "direct" THEN target'[c] = Once(z, f.held) /\ staging'[c] = y
                        ELSE target'[c] = x /\ staging'[c] = Once(z, f.held)
  <2>1. c \in Schemas /\ target \in [Schemas -> {None} \cup Content] /\ staging \in [Schemas -> {None} \cup Content]
    BY OneFact DEF Quiet, Typed
  <2> QED BY <2>1, OneFact DEF Flush
<1>b. PICK last \in HeldFor(s, c) :
         /\ \A i \in HeldFor(s, c) : i <= last
         /\ fetch' = [fetch EXCEPT ![s].note = Notes(s, last), ![s].held = @ \ HeldFor(s, c)]
  BY DEF Flush
<1>4. /\ last \in f.held /\ (\A i \in f.held : i <= last) /\ g.held = {}
      /\ g.phase = f.phase /\ g.read = f.read /\ g.filtering = f.filtering /\ g.open = f.open
      /\ method # FullSet => g.note = last
  <2>1. HeldFor(s, c) = f.held /\ g = [f EXCEPT !.note = Notes(s, last), !.held = f.held \ f.held]
    BY <1>b, OneFact DEF Quiet, Typed
  <2>2. g.note = Notes(s, last) /\ g.held = {}
        /\ g.phase = f.phase /\ g.read = f.read /\ g.filtering = f.filtering /\ g.open = f.open
    BY <2>1, OneTypes DEF Fetches
  <2>3. method # FullSet => Notes(s, last) = last
    BY DEF Quiet, Calm, Notes
  <2> QED BY <1>b, <2>1, <2>2, <2>3
<1>5. /\ Fresh(f, c, x, y) /\ Filters(f, base) /\ Settled(s, c, f, y, base, saved)
      /\ EndsAtNote(c, f, x, base, counts["forced"] > 0) /\ Distinct(x, source[s]) /\ Distinct(y, source[s])
  BY OneTypes DEF OnceOf
<1>6. /\ f.read \in Nat /\ f.note \in Nat /\ source[s] \in Nat /\ f.read <= source[s]
      /\ Records \subseteq Nat \ {0} /\ f.held \subseteq Records
      /\ (how \in {"staged", "dropped"} => sink # "file")
  BY OneTypes DEF Right
<1>7. Off.held = {}
  BY DEF Off
<1> HIDE DEF f, g
<1>8. f.phase \notin {"off", "committing"}
  BY <1>4, <1>5, <1>7 DEF Settled
<1>9. \A i \in Records : z[i] > 0 => i \notin f.held /\ (f.phase = "reading" => i <= f.read \/ (f.filtering /\ i <= f.note))
  BY <1>2, <1>5 DEF Fresh
<1>10. \A i \in Records : z[i] \in Nat /\ (i \in f.held => z[i] = 0) /\ z[i] <= 1 /\ (z[i] > 0 => i <= source[s])
  <2>1. \A i \in Records : z[i] \in 0..2
    BY <1>2, ContentFact
  <2>2. Distinct(z, source[s])
    BY <1>5
  <2> QED BY <1>2, <1>9, <2>1, <2>2 DEF Distinct
<1>11. \A i \in Records : Once(z, f.held)[i] = IF i \in f.held THEN 1 ELSE z[i]
  BY <1>10 DEF Once
<1>12. last \in Records /\ last \in Nat /\ last <= f.read /\ last <= source[s]
  <2>1. last \in Records /\ last \in Nat /\ last <= f.read
    BY <1>4, <1>5, <1>6 DEF Filters
  <2> QED BY <1>6, <2>1
<1> HIDE DEF how, x, y, z
<1>13. Distinct(Once(z, f.held), source[s])
  <2>1. \A i \in f.held : i <= source[s]
    <3>1. \A i \in f.held : i <= f.read /\ i \in Nat
      BY <1>5, <1>6 DEF Filters
    <3> QED BY <1>6, <3>1
  <2>2. \A i \in Records : Once(z, f.held)[i] <= 1
    BY <1>10, <1>11
  <2> QED BY <1>10, <1>11, <2>1, <2>2 DEF Distinct
<1>14. Distinct(target'[c], source[s]) /\ Distinct(staging'[c], source[s])
  BY <1>3, <1>5, <1>13
<1>15. \A i \in Records : i <= f.note /\ f.note < last => i <= last
  BY <1>6, <1>12
<1>16. method # FullSet => f.note < last
  BY <1>4, <1>5, <1>8 DEF Filters
<1>17. f.filtering => method # FullSet
  BY <1>5 DEF Filters
<1>18. Fresh(g, c, target'[c], staging'[c])
  <2>1. SUFFICES ASSUME NEW i \in Records, Once(z, f.held)[i] > 0, f.phase = "reading"
                 PROVE  i <= f.read \/ (f.filtering /\ i <= last)
    BY <1>2, <1>3, <1>4, <1>17 DEF Fresh, how
  <2>2. CASE i \in f.held
    BY <1>5, <2>2 DEF Filters
  <2>3. CASE i \notin f.held
    BY <1>9, <1>11, <1>15, <1>16, <1>17, <2>1, <2>3
  <2> QED BY <2>2, <2>3
<1>19. Filters(g, base)
  BY <1>4, <1>5, <1>12 DEF Filters
<1>20. Settled(s, c, g, staging'[c], base, saved)
  <2>1. staging'[c] # None => how \in {"staged", "dropped"}
    BY <1>2, <1>3, <1>5 DEF Settled, how, y
  <2> QED BY <1>4, <1>5, <1>8, <2>1 DEF Settled, how
<1>21. EndsAtNote(c, g, target'[c], base, counts["forced"] > 0)
  <2>1. SUFFICES ASSUME sink = "file", method # FullSet PROVE EndsAt(target'[c], last)
    BY <1>4 DEF EndsAtNote
  <2>2. how = "direct" /\ z = x
    BY <1>2, <1>6, <2>1 DEF z
  <2>3. EndsAt(z, f.note)
    BY <1>5, <1>8, <2>1, <2>2 DEF EndsAtNote, how
  <2>4. \A i \in Records : z[i] > 0 => i <= f.note
    BY <1>2, <2>3 DEF EndsAt
  <2>5. \A i \in Records : Once(z, f.held)[i] > 0 => i <= last
    BY <1>4, <1>11, <1>15, <1>16, <2>1, <2>4
  <2> QED BY <1>3, <2>2, <2>5 DEF EndsAt
<1>22. EndsAtState(s, g, target'[c], saved)
  BY <1>4, <1>8 DEF EndsAtState
<1> QED BY <1>1, <1>14, <1>18, <1>19, <1>20, <1>21, <1>22 DEF After, OnceOf, g

\* A writable is opened empty, but for a file that is appended to.
Emptily(s, c, how) ==
    /\ staging'[c] = IF how = "staged" THEN Nothing ELSE None
    /\ IF how = "staged"
       THEN sink # "file" /\ target'[c] \in {target[c], Nothing}
       ELSE target'[c] = Nothing \/ (sink = "file" /\ ~Replaces(base) /\ target[c] # None /\ target'[c] = target[c])

LEMMA OnceOpens ==
    ASSUME NEW s, NEW c, Quiet(s, c), Open(s, c), staging[c] = None
    PROVE  /\ fetch[s].held # {} /\ fetch[s].open[c] = "closed"
           /\ \E how \in {"direct", "staged"} : fetch'[s].open[c] = how /\ Emptily(s, c, how)
<1>1. /\ c \in Schemas /\ s \in Sets /\ fetch \in [Sets -> Fetches]
      /\ target \in [Schemas -> {None} \cup Content] /\ staging \in [Schemas -> {None} \cup Content]
  BY OneFact DEF Quiet, Typed
<1>2. fetch[s].held # {} /\ fetch[s].open[c] = "closed"
  <2>1. Needs(s, c)
    BY DEF Open, OpenFile, OpenObject, OpenTable, OpenRedshift, OpenWarehouse, OpenCollection, OpenTopic
  <2> QED BY <2>1, OneFact DEF Needs
<1> DEFINE Goal == \E how \in {"direct", "staged"} : fetch'[s].open[c] = how /\ Emptily(s, c, how)
<1>3. ASSUME NEW how \in {"direct", "staged"}, Opened(s, c, how), Emptily(s, c, how) PROVE Goal
  <2>1. how \in Modes
    BY DEF Modes
  <2>2. fetch'[s].open[c] = how
    BY <1>1, <1>3, <2>1, OpenedHow
  <2> QED BY <1>3, <2>2
<1>4. \A content \in [Schemas -> {None} \cup Content] : Emptied(content, c)[c] = Nothing
  BY <1>1 DEF Emptied
<1>5. \A content \in [Schemas -> {None} \cup Content] :
         Created(content, c)[c] = IF content[c] = None THEN Nothing ELSE content[c]
  BY <1>1, <1>4 DEF Created
<1>6. Replace <=> Replaces(base)
  BY DEF Replace, Replaces
<1> HIDE DEF Goal
<1> SUFFICES Goal
  BY <1>2 DEF Goal
<1>7. CASE OpenFile(s, c)
  <2>1. Opened(s, c, "direct") /\ staging' = staging /\ sink = "file"
    BY <1>7 DEF OpenFile
  <2>2. target'[c] = Nothing \/ (~Replaces(base) /\ target[c] # None /\ target'[c] = target[c])
    BY <1>1, <1>4, <1>5, <1>6, <1>7 DEF OpenFile
  <2>3. Emptily(s, c, "direct")
    BY <2>1, <2>2 DEF Emptily
  <2> QED BY <1>3, <2>1, <2>3
<1>8. CASE OpenObject(s, c)
  <2>1. Opened(s, c, "staged") /\ target' = target /\ staging'[c] = Nothing /\ sink = "object"
    BY <1>1, <1>4, <1>8 DEF OpenObject
  <2>2. Emptily(s, c, "staged")
    BY <2>1 DEF Emptily
  <2> QED BY <1>3, <2>1, <2>2
<1>9. CASE OpenTable(s, c)
  <2>1. \/ Opened(s, c, "staged") /\ target' = target /\ staging'[c] = Nothing /\ sink \in {"table", "mysql"}
        \/ Opened(s, c, "direct") /\ target'[c] = Nothing /\ staging' = staging
    BY <1>1, <1>4, <1>5, <1>9 DEF OpenTable
  <2>2. (Opened(s, c, "staged") /\ Emptily(s, c, "staged")) \/ (Opened(s, c, "direct") /\ Emptily(s, c, "direct"))
    BY <2>1 DEF Emptily
  <2> QED BY <1>3, <2>2
<1>10. CASE OpenRedshift(s, c)
  <2>1. Opened(s, c, "staged") /\ target'[c] = Nothing /\ staging'[c] = Nothing /\ sink = "redshift"
    BY <1>1, <1>4, <1>10 DEF OpenRedshift
  <2>2. Emptily(s, c, "staged")
    BY <2>1 DEF Emptily
  <2> QED BY <1>3, <2>1, <2>2
<1>11. CASE OpenWarehouse(s, c)
  <2>1. \/ Opened(s, c, "staged") /\ target' = target /\ staging'[c] = Nothing /\ sink = "warehouse"
        \/ Opened(s, c, "direct") /\ target'[c] = Nothing /\ staging' = staging
    BY <1>1, <1>4, <1>11 DEF OpenWarehouse
  <2>2. (Opened(s, c, "staged") /\ Emptily(s, c, "staged")) \/ (Opened(s, c, "direct") /\ Emptily(s, c, "direct"))
    BY <2>1 DEF Emptily
  <2> QED BY <1>3, <2>2
<1>12. CASE OpenCollection(s, c)
  <2>1. \/ Opened(s, c, "staged") /\ target' = target /\ staging'[c] = Nothing /\ sink = "collection"
        \/ Opened(s, c, "direct") /\ target'[c] = Nothing /\ staging' = staging
    BY <1>1, <1>4, <1>5, <1>12 DEF OpenCollection
  <2>2. (Opened(s, c, "staged") /\ Emptily(s, c, "staged")) \/ (Opened(s, c, "direct") /\ Emptily(s, c, "direct"))
    BY <2>1 DEF Emptily
  <2> QED BY <1>3, <2>2
<1>13. ~OpenTopic(s, c)
  BY OneFact DEF OpenTopic
<1> QED BY <1>7, <1>8, <1>9, <1>10, <1>11, <1>12, <1>13 DEF Open

\* A writable is closed, and what stands beside the sink takes the place of what is in it.
LEMMA OnceCloses ==
    ASSUME NEW s, NEW c, Quiet(s, c), CloseDirect(s, c) \/ Upload(s, c) \/ DropOld(s, c) \/ RenameNew(s, c)
    PROVE  /\ fetch[s].phase = "ending" /\ fetch[s].open[c] # "closed"
           /\ \/ fetch'[s].open[c] = "closed" /\ fetch[s].open[c] = "direct"
                 /\ target'[c] = target[c] /\ staging'[c] = staging[c]
              \/ fetch'[s].open[c] = "closed" /\ fetch[s].open[c] # "direct"
                 /\ target'[c] = staging[c] /\ staging'[c] = None
              \/ fetch'[s].open[c] = "dropped" /\ fetch[s].open[c] = "staged"
                 /\ target'[c] \in {None, Nothing} /\ staging'[c] = staging[c]
<1>1. /\ c \in Schemas /\ s \in Sets /\ fetch \in [Sets -> Fetches]
      /\ target \in [Schemas -> {None} \cup Content] /\ staging \in [Schemas -> {None} \cup Content]
  BY OneFact DEF Quiet, Typed
<1>2. ASSUME NEW how \in {"closed", "dropped"}, Opened(s, c, how) PROVE fetch'[s].open[c] = how
  <2>1. how \in Modes
    BY DEF Modes
  <2> QED BY <1>1, <1>2, <2>1, OpenedHow
<1>3. CASE CloseDirect(s, c)
  BY <1>2, <1>3 DEF CloseDirect, Completing, sinkVars
<1>4. CASE Upload(s, c)
  BY <1>1, <1>2, <1>4 DEF Upload, Completing
<1>5. CASE DropOld(s, c)
  BY <1>1, <1>2, <1>5 DEF DropOld, Completing
<1>6. CASE RenameNew(s, c)
  BY <1>1, <1>2, <1>6 DEF RenameNew, Completing
<1> QED BY <1>3, <1>4, <1>5, <1>6

\* Opening and closing.
LEMMA OnceMoves ==
    ASSUME NEW s, NEW c, Quiet(s, c), Moves(s, c)
    PROVE  After(s, c)
<1> DEFINE f == fetch[s]
           g == fetch'[s]
           x == target[c]
           y == staging[c]
<1>1. /\ base' = base /\ saved' = saved /\ source' = source /\ g = [f EXCEPT !.open = g.open]
  BY MoveFrame DEF Quiet
<1>2. /\ g.phase = f.phase /\ g.read = f.read /\ g.held = f.held /\ g.note = f.note
      /\ g.filtering = f.filtering
  BY <1>1, OneTypes DEF Fetches
<1>3. /\ Fresh(f, c, x, y) /\ Filters(f, base) /\ Settled(s, c, f, y, base, saved)
      /\ EndsAtNote(c, f, x, base, counts["forced"] > 0) /\ Distinct(x, source[s]) /\ Distinct(y, source[s])
      /\ Right(sink, x, y, f.open[c]) /\ f.open[c] \in Modes
  BY OneTypes DEF OnceOf
<1>4. /\ Off.phase = "off" /\ Off.held = {} /\ Off.open[c] = "closed"
  BY OneFact DEF Off
<1>5. Distinct(None, source[s]) /\ Distinct(Nothing, source[s]) /\ Nothing # None
      /\ EndsAt(Nothing, f.note) /\ \A i \in Records : ~(Nothing[i] > 0)
  BY NothingFact, RecordsAssumption DEF Distinct, EndsAt
<1> HIDE DEF f, g, x, y
<1>6. SUFFICES /\ f.phase \notin {"off", "committing"}
               /\ Distinct(target'[c], source[s]) /\ Distinct(staging'[c], source[s])
               /\ Fresh(g, c, target'[c], staging'[c])
               /\ staging'[c] # None => g.open[c] \in {"staged", "dropped"}
               /\ sink = "file" /\ method # FullSet => EndsAt(target'[c], f.note)
  <2>1. Filters(g, base) /\ (f.phase # "off" => EndsAtState(s, g, target'[c], saved))
    BY <1>2, <1>3 DEF Filters, EndsAtState
  <2>2. ASSUME f.phase \notin {"off", "committing"}, staging'[c] # None => g.open[c] \in {"staged", "dropped"}
        PROVE  Settled(s, c, g, staging'[c], base, saved)
    BY <1>2, <1>3, <2>2 DEF Settled
  <2>3. ASSUME sink = "file" /\ method # FullSet => EndsAt(target'[c], f.note)
        PROVE  EndsAtNote(c, g, target'[c], base, counts'["forced"] > 0)
    BY <1>2, <2>3 DEF EndsAtNote
  <2> QED BY <1>1, <2>1, <2>2, <2>3 DEF After, OnceOf, g
<1>7. CASE Open(s, c)
  <2>1. y = None
    <3>1. f.open[c] = "closed"
      BY <1>7 DEF Open, OpenFile, OpenObject, OpenTable, OpenRedshift, OpenWarehouse, OpenCollection, OpenTopic,
                  Needs, f
    <3> QED BY <1>3, <3>1 DEF Settled
  <2>2. f.held # {} /\ f.open[c] = "closed"
    BY <1>7, <2>1, OnceOpens DEF f, y
  <2>3. PICK how \in {"direct", "staged"} : g.open[c] = how /\ Emptily(s, c, how)
    BY <1>7, <2>1, OnceOpens DEF g, y
  <2>4. f.phase \notin {"off", "committing"}
    BY <1>3, <1>4, <2>2 DEF Settled
  <2>5. Distinct(target'[c], source[s]) /\ Distinct(staging'[c], source[s])
    BY <1>3, <1>5, <2>3 DEF Emptily, x
  <2>6. staging'[c] # None => g.open[c] \in {"staged", "dropped"}
    BY <2>3 DEF Emptily
  <2>7. ASSUME sink = "file", method # FullSet PROVE EndsAt(target'[c], f.note)
    <3>1. target'[c] = Nothing \/ (base # None /\ target'[c] = x)
      BY <2>3, <2>7 DEF Emptily, Replaces, x
    <3>2. base # None => EndsAt(x, f.note)
      BY <1>3, <2>4, <2>7 DEF EndsAtNote
    <3> QED BY <1>5, <3>1, <3>2
  <2>8. Fresh(g, c, target'[c], staging'[c])
    <3>1. CASE how = "staged" \/ target'[c] = Nothing
      BY <1>5, <2>3, <3>1 DEF Emptily, Fresh
    <3>2. CASE how = "direct" /\ sink = "file" /\ ~Replaces(base) /\ x # None /\ target'[c] = x
      <4>1. method # FullSet /\ base # None
        BY <3>2 DEF Replaces
      <4>2. f.filtering /\ (\A i \in f.held : f.note < i) /\ EndsAt(x, f.note)
        BY <1>3, <2>4, <2>7, <3>2, <4>1 DEF Filters
      <4>3. ASSUME NEW i \in Records, x[i] > 0 PROVE i <= f.note /\ i \notin f.held
        <5>1. i <= f.note /\ i \in Nat /\ f.note \in Nat
          BY <3>2, <4>2, <4>3, OneTypes DEF EndsAt, f
        <5>2. ~(f.note < i)
          BY <5>1
        <5> QED BY <4>2, <5>1, <5>2
      <4> QED BY <1>2, <2>3, <3>2, <4>2, <4>3 DEF Fresh
    <3> QED BY <2>3, <3>1, <3>2 DEF Emptily, x
  <2> QED BY <2>4, <2>5, <2>6, <2>7, <2>8
<1>8. CASE CloseDirect(s, c) \/ Upload(s, c) \/ DropOld(s, c) \/ RenameNew(s, c)
  <2>1. f.phase = "ending" /\ f.open[c] # "closed"
    BY <1>8, OnceCloses DEF f
  <2>2. \/ g.open[c] = "closed" /\ f.open[c] = "direct" /\ target'[c] = x /\ staging'[c] = y
        \/ g.open[c] = "closed" /\ f.open[c] # "direct" /\ target'[c] = y /\ staging'[c] = None
        \/ g.open[c] = "dropped" /\ f.open[c] = "staged" /\ target'[c] \in {None, Nothing} /\ staging'[c] = y
    BY <1>8, OnceCloses DEF f, g, x, y
  <2>3. Distinct(target'[c], source[s]) /\ Distinct(staging'[c], source[s])
    BY <1>3, <1>5, <2>2
  <2>4. staging'[c] # None => g.open[c] \in {"staged", "dropped"}
    BY <1>3, <2>2 DEF Settled
  <2>5. ASSUME sink = "file", method # FullSet PROVE EndsAt(target'[c], f.note)
    <3>1. f.open[c] = "direct"
      BY <1>3, <2>1, <2>5 DEF Right, Modes
    <3>2. EndsAt(x, f.note)
      BY <1>3, <2>1, <2>5, <3>1 DEF EndsAtNote
    <3> QED BY <2>2, <3>1, <3>2
  <2>6. Fresh(g, c, target'[c], staging'[c])
    BY <1>2, <1>3, <2>2 DEF Fresh
  <2> QED BY <2>1, <2>3, <2>4, <2>5, <2>6
<1> QED BY <1>7, <1>8 DEF Moves

\* What happened before: while all is calm, nothing had failed either.
LEMMA CalmBefore ==
    ASSUME CountsTyped, UNCHANGED fixed, [Next]_vars, Calm'
    PROVE  Calm
<1>1. UNCHANGED <<package, method, sink, format>> /\ Sets' = Sets
  BY PackageStays DEF fixed
<1>2. {"forced", "stops", "faults", "cuts"} \subseteq Bounded /\ \A event \in Bounded : counts[event] \in Nat
  BY DEF CountsTyped, Bounded
<1>3. \A event \in Bounded : counts'[event] = counts[event] \/ counts'[event] = counts[event] + 1
  BY EventStep, CountFact
<1>4. \A event \in Bounded : counts'[event] \in Nat /\ counts[event] <= counts'[event]
  BY <1>2, <1>3
<1>5. \A m, n \in Nat : m <= n /\ n = 0 => m = 0
  OBVIOUS
<1>6. \A l, m, j, k \in Nat : l <= j /\ m <= k /\ j + k = 0 => l + m = 0
  OBVIOUS
<1>7. counts["faults"] = 0
  BY <1>2, <1>4, <1>5 DEF Calm
<1>8. counts["forced"] = 0 \/ counts["stops"] + counts["cuts"] = 0
  <2>1. CASE counts'["forced"] = 0
    BY <1>2, <1>4, <1>5, <2>1
  <2>2. CASE counts'["stops"] + counts'["cuts"] = 0
    BY <1>2, <1>4, <1>6, <2>2
  <2> QED BY <2>1, <2>2 DEF Calm
<1> QED BY <1>1, <1>7, <1>8 DEF Calm

\* The steps of one stream set of one schema, while nothing fails.
LEMMA CalmSteps ==
    ASSUME NEW s, NEW c, Quiet(s, c), [Next]_vars, Calm'
    PROVE  \/ \E force \in BOOLEAN : StartFetch(force)
           \/ Produce(s) \/ Read(s) \/ EndOfSource(s) \/ EndsEarly(s) \/ Stop \/ BeginCommit(s) \/ SaveState(s)
           \/ Moves(s, c) \/ Flush(s, c) \/ UNCHANGED vars
<1>1. Sets = {s} /\ SchemasOf(s) = {c} /\ method # Continuous
  BY OneFact DEF FullSet, AppendOnly, Continuous
<1>2. ~Count("faults")
  <2>1. CountsTyped /\ Count("faults") => counts'["faults"] # 0
    BY CountFact DEF CountsTyped, Bounded
  <2> QED BY <2>1 DEF Quiet, Calm
<1>3. ~Crash /\ ~Fail(s) /\ ~Reconnect(s)
  BY <1>1, <1>2 DEF Crash, Fail, Reconnect
<1>4. ~OpenFails(s, c)
  <2>1. staging[c] # None => fetch[s].open[c] # "closed"
    BY OneTypes DEF OnceOf, Settled
  <2> QED BY <2>1 DEF OpenFails, Needs
<1>5. Writing(s, c) => Moves(s, c) \/ Flush(s, c)
  BY DEF Writing, Moves
<1>6. CASE UNCHANGED vars
  BY <1>6
<1>7. CASE Next
  <2>1. Progress(s) => \/ Read(s) \/ EndOfSource(s) \/ BeginCommit(s) \/ SaveState(s)
                       \/ Moves(s, c) \/ Flush(s, c)
    BY <1>1, <1>4, <1>5 DEF Progress
  <2> HIDE DEF Progress
  <2> QED BY <1>1, <1>3, <1>7, <2>1 DEF Next
<1> QED BY <1>6, <1>7

LEMMA OnceStep ==
    ASSUME Typed, AllThere, CountsTyped, OnceInv, [Next]_vars
    PROVE  OnceInv'
<1>1. UNCHANGED fixed
  BY FixedStep
<1>2. Sets' = Sets /\ \A s : SchemasOf(s)' = SchemasOf(s)
  BY <1>1, PackageStays
<1>3. SUFFICES ASSUME Calm', NEW s \in Sets, NEW c \in SchemasOf(s) PROVE Now(s, c)'
  BY <1>2 DEF OnceInv
<1>4. Quiet(s, c)
  BY <1>1, <1>3, CalmBefore DEF Quiet, OnceInv
<1>5. ASSUME UNCHANGED vars PROVE After(s, c)
  <2>1. UNCHANGED <<source, target, staging, saved, base, fetch, counts>>
    BY <1>5 DEF vars, sinkVars
  <2> QED BY <1>4, <2>1 DEF Quiet, Now, After
<1>6. After(s, c)
  BY <1>3, <1>4, <1>5, CalmSteps, OnceProduce, OnceRead, OnceEnds, OnceCommit, OnceSave, OnceStart, OnceFlush,
     OnceMoves
<1> QED BY <1>1, <1>6, NowNext

LEMMA OnceInit == Init => OnceInv
<1> SUFFICES ASSUME Init, NEW s \in Sets, NEW c \in SchemasOf(s) PROVE Now(s, c)
  BY DEF OnceInv
<1>1. Typed
  BY InvInit DEF Inv
<1>2. c \in Schemas
  BY <1>1, PackageFacts
<1>3. /\ source[s] = 0 /\ target[c] = None /\ staging[c] = None /\ saved = None /\ base = None /\ fetch[s] = Off
  BY <1>2 DEF Init
<1>4. Off.phase = "off" /\ Off.held = {} /\ ~Off.filtering /\ Off.open[c] = "closed"
  BY <1>2 DEF Off
<1>5. Distinct(None, 0) /\ Fresh(Off, c, None, None) /\ EndsAtNote(c, Off, None, None, counts["forced"] > 0)
  BY <1>4 DEF Distinct, Fresh, EndsAtNote
<1>6. EndsAtState(s, Off, None, None)
  BY DEF EndsAtState, EndsAt
<1>7. Filters(Off, None) /\ Settled(s, c, Off, None, None, None)
  BY <1>4, NoneAssumption DEF Filters, Settled
<1> QED BY <1>3, <1>5, <1>6, <1>7 DEF Now, OnceOf

\* One stream of one schema reaches a file, a table or an object once, however often it is
\* fetched and stopped, as long as nothing fails; continuous streams, logs and AVRO files
\* that are appended to are excluded.
THEOREM EachRecordOnce == Spec => []ExactlyOnce
<1>1. Inv => Typed /\ AllThere
  BY DEF Inv, AllThere
<1>2. Init => OnceInv /\ CountsTyped
  BY OnceInit DEF Init, CountsTyped
<1>3. Typed /\ AllThere /\ CountsTyped /\ OnceInv /\ [Next]_vars => OnceInv'
  BY OnceStep
<1>4. Typed /\ OnceInv => ExactlyOnce
  <2>1. SUFFICES ASSUME Typed, OnceInv, Calm, NEW s \in Sets, NEW i \in Records,
                        target[SchemaOf(s, i)] # None
                 PROVE  target[SchemaOf(s, i)][i] <= 1
    BY DEF ExactlyOnce, OneSchema, NoneTwice, Calm
  <2>2. Distinct(target[SchemaOf(s, i)], source[s])
    BY <2>1, PackageFacts DEF OnceInv, Now, OnceOf
  <2> QED BY <2>1, <2>2 DEF Distinct
<1> QED BY <1>1, <1>2, <1>3, <1>4, CountsStep, Invariant, PTL DEF Spec
=============================================================================
