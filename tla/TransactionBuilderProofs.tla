--------------------- MODULE TransactionBuilderProofs -----------------------
(***************************************************************************)
(* The transaction builder: sorting, late commands, plugins and intents    *)
(* keep the invariant BuilderInv, so that its properties hold of every     *)
(* behaviour.                                                              *)
(***************************************************************************)
EXTENDS TransactionAddingProofs

(***************************************************************************)
(* Preparing ends                                                          *)
(***************************************************************************)

(* The root's section and available results are made anew from the data.   *)
Afresh ==
  /\ UNCHANGED <<data, running, thunks, handles, count, special, standsFor, refused, late>>
  /\ section' = [f \in {Root} |->
       [commands |-> [i \in DOMAIN data.commands |-> Entry(data.commands[i].id)],
        inputs |-> [i \in DOMAIN data.inputs |-> Entry(data.inputs[i].object)]]]
  /\ available' = [f \in {Root} |-> DOMAIN data.commands]
  /\ phase' = "idle"

(* What the root's section is then. *)
LEMMA AfreshSections ==
  ASSUME BuilderTypes, Afresh
  PROVE  /\ Forks' = {Root} /\ section' \in [{Root} -> SectionType]
         /\ Len(section'[Root].commands) = Size /\ Len(section'[Root].inputs) = Len(data.inputs)
         /\ \A k \in 1 .. Size : section'[Root].commands[k] = Entry(NameAt(k))
         /\ \A k \in 1 .. Len(data.inputs) : section'[Root].inputs[k] = Entry(data.inputs[k].object)
<1> DEFINE n == Size
           m == Len(data.inputs)
           c == [i \in 1 .. n |-> Entry(NameAt(i))]
           d == [i \in 1 .. m |-> Entry(data.inputs[i].object)]
<1>1. data \in DataType /\ n \in Nat /\ m \in Nat /\ data.commands \in Seq(CommandType) /\ data.inputs \in Seq(InputType)
  BY DataParts DEF BuilderTypes, Size
<1>2. DOMAIN data.commands = 1 .. n /\ DOMAIN data.inputs = 1 .. m
  BY <1>1, CommandParts, InputParts DEF Size
<1>3. \A i \in 1 .. n : Entry(NameAt(i)) \in CommandEntry
  BY <1>1, CommandParts DEF Entry, CommandEntry, NameAt, Size
<1>4. \A i \in 1 .. m : Entry(data.inputs[i].object) \in InputEntry
  BY <1>1, InputParts DEF Entry, InputEntry
<1>5. section' = [f \in {Root} |-> [commands |-> c, inputs |-> d]]
  BY <1>2 DEF Afresh, NameAt
<1> HIDE DEF n, m
<1>6. c \in Seq(CommandEntry) /\ Len(c) = n /\ \A k \in 1 .. n : c[k] = Entry(NameAt(k))
  BY <1>1, <1>3, IsASeq
<1>7. d \in Seq(InputEntry) /\ Len(d) = m /\ \A k \in 1 .. m : d[k] = Entry(data.inputs[k].object)
  BY <1>1, <1>4, IsASeq
<1> HIDE DEF c, d
<1>8. section' \in [{Root} -> SectionType] /\ section'[Root].commands = c /\ section'[Root].inputs = d
  BY <1>5, <1>6, <1>7 DEF SectionType
<1> QED
  BY <1>6, <1>7, <1>8 DEF n, m, Forks

(* All commands are old now. *)
LEMMA AfreshKeeps ==
  ASSUME BuilderInv, Settled, Afresh
  PROVE  BuilderInv'
<1>1. /\ BuilderTypes /\ NamesKnown /\ Core /\ UNCHANGED <<data, running, thunks, handles, count, special, standsFor, refused, late>>
      /\ phase' = "idle" /\ running = <<>> /\ Unresolved = {} /\ InData \cap Thunks = {} /\ InOrder(Size) /\ special \in Nat
      /\ Root \in DOMAIN count /\ count[Root] \in Nat /\ HandlesPoint /\ Core'
  BY CoreKept DEF BuilderInv, Core, Settled, Afresh, BuilderTypes
<1>2. Size' = Size /\ InData' = InData /\ Thunks' = Thunks /\ (\A j : NameAt(j)' = NameAt(j)) /\ Size \in Nat
  BY <1>1, DataParts DEF Size, InData, Thunks, NameAt, BuilderTypes
<1>3. /\ Forks' = {Root} /\ section' \in [{Root} -> SectionType]
      /\ Len(section'[Root].commands) = Size /\ Len(section'[Root].inputs) = Len(data.inputs)
      /\ (\A k \in 1 .. Size : section'[Root].commands[k] = Entry(NameAt(k)))
      /\ \A k \in 1 .. Len(data.inputs) : section'[Root].inputs[k] = Entry(data.inputs[k].object)
  BY <1>1, AfreshSections
<1>4. available' = [f \in {Root} |-> 1 .. Size]
  BY <1>1, CommandParts, DataParts DEF Afresh, BuilderTypes, Size
<1>5. BuilderTypes'
  <2>1. running' \in Seq({Root}) /\ IsFiniteSet({Root})
    <3>1. <<>> \in Seq({Root})
      OBVIOUS
    <3>2. IsFiniteSet({Root})
      BY FS_Singleton
    <3> QED
      BY <1>1, <3>1, <3>2
  <2> QED
    BY <1>1, <1>2, <1>3, <1>4, <2>1 DEF BuilderTypes, Replaced, Root
<1>6. NamesKnown'
  <2>1. special' \in Nat /\ special <= special'
    BY <1>1
  <2> QED
    BY <1>1, <2>1, NamesKept
<1>7. Adds'
  <2>1. Base(Size)'
    <3>1. (\A k \in 1 .. Size : section[Root].commands[k] = Entry(NameAt(k)) /\ NameAt(k) \notin Thunks)'
      <4>1. \A k \in 1 .. Size : NameAt(k) \notin Thunks
        BY <1>1 DEF InData, NamesIn, NameAt, Size
      <4> QED
        BY <1>2, <1>3, <4>1 DEF Root
    <3>2. New(Size)' = {}
      <4>1. Size + 1 .. Size = {}
        BY <1>2
      <4> QED
        BY <1>2, <1>3, <4>1 DEF New, Root
    <3>3. (\A t \in DOMAIN handles \cap Thunks :
             t \notin InData /\ ~thunks[t].void /\ thunks[t].result \notin Thunks =>
               thunks[t].resultIndex <= Size)'
      <4>1. ASSUME NEW t \in DOMAIN handles \cap Thunks, t \notin InData, ~thunks[t].void, thunks[t].result \notin Thunks
            PROVE  thunks[t].resultIndex <= Size
        <5>1. Points(thunks[t].resultIndex, t)
          BY <1>1, <4>1 DEF HandlesPoint
        <5> QED
          BY <5>1 DEF Points, PointsIn, Size
      <4> QED
        BY <1>1, <1>2, <4>1
    <3>4. InOrder(Size)'
      BY <1>1 DEF InOrder, Size
    <3>5. (\A i \in Size + 1 .. Size : User(NameAt(i)) /\ KindAt(i) \notin {"split", "merge"})'
      BY <1>2
    <3>6. Size' <= Len(section'[Root].commands)
      BY <1>2, <1>3
    <3> QED
      BY <3>1, <3>2, <3>3, <3>4, <3>5, <3>6 DEF Base, Root
  <2>2. Placed(Size)'
    <3>1. (\A f \in Forks : \A k \in 1 .. Len(section[f].commands) :
             (f = Root /\ k <= Size) \/ EntryFits(f, Size, section[f].commands[k]))'
      BY <1>2, <1>3 DEF Root
    <3>2. \A j \in Size + 1 .. Size : FALSE
      BY <1>2
    <3>3. (\A f \in Forks : \A k, l \in 1 .. Len(section[f].commands) :
             k < l /\ (f = Root => k > Size) =>
               LET d == section[f].commands[k]
                   e == section[f].commands[l]
               IN Last(d.name) < Last(e.name) \/ (d.name = e.name /\ d.fork /\ ~e.fork))'
      <4>1. \A k \in 1 .. Size : ~(k > Size)
        BY <1>2
      <4> QED
        BY <1>2, <1>3, <4>1 DEF Root
    <3>4. (\A j \in Size + 1 .. Size :
              /\ NameAt(j) # <<>> /\ Front(NameAt(j)) \in Forks
              /\ \E k \in 1 .. Len(section[Front(NameAt(j))].commands) :
                   section[Front(NameAt(j))].commands[k] = Entry(NameAt(j)))'
      BY <1>2, <3>2
    <3>5. (\A g \in Forks \ {Root} :
              /\ Front(g) \in Forks
              /\ \E k \in 1 .. Len(section[Front(g)].commands) :
                   section[Front(g)].commands[k] = ForkEntry(g))'
      BY <1>3 DEF Root
    <3>6. (\A i, j \in Size + 1 .. Size :
             i < j /\ Front(NameAt(i)) = Front(NameAt(j)) => Last(NameAt(i)) < Last(NameAt(j)))'
      BY <1>2, <3>2
    <3>7. (InData \cap (Forks \ {Root}) \subseteq Thunks)'
      BY <1>3 DEF Root
    <3> QED
      BY <3>1, <3>3, <3>4, <3>5, <3>6, <3>7 DEF Placed
  <2>3. LessArgs(Size)'
    BY <1>2 DEF LessArgs
  <2>4. Size' \in 0 .. Size'
    BY <1>2
  <2> QED
    BY <2>1, <2>2, <2>3, <2>4 DEF Adds
<1>8. InputsPlaced'
  <2>1. data' = data /\ Len(data.inputs) \in Nat /\ InputsApart
    BY <1>1, DataParts DEF BuilderTypes, Core
  <2>2. (\A f \in Forks : \A k \in 1 .. Len(section[f].inputs) : InputEntryFits(f, section[f].inputs[k]))'
    <3> SUFFICES ASSUME NEW k \in 1 .. Len(section'[Root].inputs), NEW e, e = section'[Root].inputs[k]
                 PROVE  ~e.fork /\ \E i \in 1 .. Len(data.inputs) : data.inputs[i].object = e.name
      BY <1>3, <2>1 DEF InputEntryFits, Root
    <3>1. k \in 1 .. Len(data.inputs)
      BY <1>3
    <3>2. e = Entry(data.inputs[k].object)
      BY <1>3, <3>1
    <3>3. e.fork = FALSE /\ e.name = data.inputs[k].object
      BY <3>2 DEF Entry
    <3> QED
      BY <3>1, <3>3
  <2>3. (\A i \in 1 .. Len(data.inputs) :
           \E f \in Forks : \E k \in 1 .. Len(section[f].inputs) :
             section[f].inputs[k] = Entry(data.inputs[i].object))'
    BY <1>3, <2>1
  <2>4. (\A g \in Forks \ {Root} :
           \E k \in 1 .. Len(section[Front(g)].inputs) :
                section[Front(g)].inputs[k] = ForkEntry(g))'
    BY <1>3 DEF Root
  <2>5. ASSUME NEW k \in 1 .. Len(data.inputs), NEW l \in 1 .. Len(data.inputs), section'[Root].inputs[k] = section'[Root].inputs[l]
        PROVE  k = l
    <3>1. Entry(data.inputs[k].object) = Entry(data.inputs[l].object)
      BY <1>3, <2>5
    <3>2. data.inputs[k].object = data.inputs[l].object
      BY <3>1 DEF Entry
    <3> QED
      BY <2>1, <3>2 DEF InputsApart, ApartIn
  <2>6. (\A f, g \in Forks : \A k \in 1 .. Len(section[f].inputs), l \in 1 .. Len(section[g].inputs) :
           section[f].inputs[k] = section[g].inputs[l] => f = g /\ k = l)'
    BY <1>3, <2>5
  <2> QED
    BY <2>2, <2>3, <2>4, <2>6 DEF InputsPlaced
<1>9. AvailableLess'
  <2>1. ASSUME NEW i \in 1 .. Size
        PROVE  Less(NameAt(i), Append(Root, count[Root] + 1))
    <3>1. Made(NameAt(i)) /\ NameAt(i) \in Name /\ NameAt(i) # <<>> /\ Len(NameAt(i)) \in Nat /\ 1 \in 1 .. Len(NameAt(i)) /\ NameAt(i)[1] \in Nat
      BY <1>1, NameAtParts
    <3>2. Inside(NameAt(i), Root) /\ Len(Root) + 1 = 1
      BY <3>1 DEF Root, Inside
    <3>3. NameAt(i)[1] <= count[Root]
      BY <1>1, <3>1, <3>2 DEF Made
    <3>4. count[Root] + 1 \in Nat /\ Root \in Name
      BY <1>1 DEF BuilderTypes
    <3> DEFINE x == Append(Root, count[Root] + 1)
    <3>5. x \in Name /\ x # <<>> /\ x[Len(Root) + 1] = count[Root] + 1
      BY <3>4, AppendedName
    <3>6. NameAt(i)[1] < x[1]
      BY <1>1, <3>1, <3>2, <3>3, <3>5
    <3> HIDE DEF x
    <3> QED
      BY <3>1, <3>5, <3>6, FirstLess DEF x
  <2> QED
    BY <1>1, <1>2, <1>3, <1>4, <2>1 DEF AvailableLess, NextName, Root
<1>10. Running'
  BY <1>1 DEF Running, Unresolved
<1> QED
  BY <1>1, <1>5, <1>6, <1>7, <1>8, <1>9, <1>10 DEF BuilderInv, Core, Gathering

(* runPlugins ends, or a plugin fails. *)
LEMMA ResetKeeps ==
  ASSUME BuilderInv, Finish \/ ResolveFails
  PROVE  BuilderInv'
<1>1. Settled
  BY DEF BuilderInv, Finish, ResolveFails
<1>2. Afresh
  BY DEF Finish, ResolveFails, Reset, Afresh, bounds, history
<1> QED
  BY <1>1, <1>2, AfreshKeeps

(***************************************************************************)
(* A command added late                                                    *)
(***************************************************************************)

(* A step between sorting and the end of preparation.                      *)
SettledStep ==
  /\ data' \in DataType /\ UNCHANGED <<section, running, thunks>>
  /\ phase' \in {"resolving", "resolved"}
  /\ available' \in [Forks -> SUBSET (1 .. Size')]
  /\ count' \in [DOMAIN count -> Nat]
  /\ handles' \in [DOMAIN handles' -> Nat]
  /\ standsFor' \in [Replaced' -> Name] /\ Replaced' \cap Thunks \subseteq Replaced
  /\ special' \in Nat /\ special <= special'
  /\ InData' \cap Thunks = {}

(* Only the data and the handles are to be shown. *)
LEMMA SettledStepKeeps ==
  ASSUME BuilderInv, Settled, SettledStep, NamesKnown', InOrder(Size)',
         (Twins /\ KindsNamed /\ ReplacedGone /\ InputsApart /\ ArgsFit /\ HandlesPoint)'
  PROVE  BuilderInv'
<1>1. /\ BuilderTypes /\ ThunksStand /\ UNCHANGED <<section, running, thunks>> /\ phase' \in {"resolving", "resolved"}
      /\ Thunks' = Thunks /\ Forks' = Forks /\ Unresolved = {} /\ Unresolved' = {} /\ Forks = {Root} /\ running = <<>>
      /\ InData' \cap Thunks = {} /\ InData \cap Thunks = {}
  BY DEF BuilderInv, SettledStep, Thunks, Forks, Settled, Unresolved
<1>2. BuilderTypes'
  <2>1. DOMAIN count' = DOMAIN count
    BY DEF SettledStep
  <2> QED
    BY <1>1, <2>1 DEF BuilderTypes, SettledStep, Root
<1>3. ThunksStand'
  <2> SUFFICES ASSUME NEW t \in Thunks
               PROVE  /\ thunks[t].state # "resolved" \/ thunks[t].void => thunks[t].result = t /\ t \notin Replaced'
                      /\ thunks[t].state = "resolved" /\ ~thunks[t].void => thunks[t].result # t
                      /\ thunks[t].state # "running"
                      /\ thunks[t].state = "resolved" /\ t \notin InData'
    BY <1>1 DEF ThunksStand
  <2>1. t \notin InData /\ t \notin InData' /\ thunks[t].state # "running"
    BY <1>1 DEF Unresolved, Thunks
  <2>2. t \in Replaced' => t \in Replaced
    BY DEF SettledStep
  <2> QED
    BY <1>1, <2>1, <2>2 DEF ThunksStand
<1>4. Settled'
  BY <1>1 DEF Settled, Root
<1> QED
  BY <1>1, <1>2, <1>3, <1>4 DEF BuilderInv

(* New names X, those in Y mentioned, when no code has added anything else *)
NamesGrow(X, Y) ==
  /\ Known' \subseteq Known \cup X /\ Mentioned' \subseteq Mentioned \cup Y
  /\ \A x \in X : x \in Name /\ x # <<>> /\ Made(x)' /\ (x[1] = 0 => Len(x) > 1 /\ x[2] <= special')
  /\ \A y \in Y : Last(y) # 0
  /\ DOMAIN count' = DOMAIN count /\ \A f \in DOMAIN count : count'[f] \in Nat /\ count[f] <= count'[f]
  /\ special' \in Nat /\ special <= special'

(* Names that were given may come into use. *)
LEMMA NamesGrowKeeps ==
  ASSUME BuilderTypes, NamesKnown, NEW X, NEW Y, NamesGrow(X, Y)
  PROVE  NamesKnown'
<1>1. special \in Nat /\ special' \in Nat /\ special <= special' /\ count \in [DOMAIN count -> Nat] /\ DOMAIN count \subseteq Name
  BY DEF BuilderTypes, NamesGrow
<1>2. ASSUME NEW x \in Known
      PROVE  x \in Name /\ x # <<>> /\ Made(x)' /\ (x[1] = 0 => Len(x) > 1 /\ x[2] <= special')
  <2>1. x \in Name /\ x # <<>> /\ Made(x) /\ (x[1] = 0 => Len(x) > 1 /\ x[2] <= special)
    BY DEF NamesKnown
  <2>2. Made(x)'
    <3> SUFFICES ASSUME NEW f \in DOMAIN count, Inside(x, f)  PROVE x[Len(f) + 1] <= count'[f]
      BY DEF Made, NamesGrow
    <3>1. x[Len(f) + 1] <= count[f]
      BY <2>1 DEF Made
    <3>2. Len(f) + 1 \in 1 .. Len(x)
      <4>1. Len(f) \in Nat /\ Len(x) \in Nat /\ Len(f) < Len(x)
        BY <1>1, <2>1, NameParts DEF Inside
      <4> QED
        BY <4>1
    <3>3. x[Len(f) + 1] \in Nat
      BY <2>1, <3>2, NameParts
    <3>4. count[f] \in Nat /\ count'[f] \in Nat /\ count[f] <= count'[f]
      BY <1>1 DEF NamesGrow
    <3> QED
      BY <3>1, <3>3, <3>4
  <2>3. x[1] = 0 => x[2] <= special'
    <3>1. ASSUME x[1] = 0  PROVE x[2] \in Nat
      <4>1. Len(x) \in Nat /\ \A j \in 1 .. Len(x) : x[j] \in Nat
        BY <2>1, NameParts
      <4>2. 2 \in 1 .. Len(x)
        BY <2>1, <3>1, <4>1
      <4> QED
        BY <4>1, <4>2
    <3> QED
      BY <1>1, <2>1, <3>1
  <2> QED
    BY <2>1, <2>2, <2>3
<1>3. (\A x \in Known : x \in Name /\ x # <<>> /\ Made(x) /\ (x[1] = 0 => Len(x) > 1 /\ x[2] <= special))'
  BY <1>2 DEF NamesGrow
<1>4. (\A x \in Mentioned \cup (DOMAIN count \ {Root}) : Last(x) # 0)'
  BY DEF NamesKnown, NamesGrow, Root
<1>5. (\A f \in DOMAIN count : \A j \in 1 .. Len(f) : f[j] > 0)'
  BY DEF NamesKnown, NamesGrow
<1> QED
  BY <1>3, <1>4, <1>5 DEF NamesKnown

(* The command x is added twice.                                           *)
AddedTwice(x, c) ==
  /\ x = NextName(Root) /\ c = Command(x, "call", <<>>)
  /\ data'.inputs = data.inputs /\ data' \in DataType
  /\ Size' = Size + 2 /\ (\A i \in 1 .. Size : data'.commands[i] = data.commands[i])
  /\ data'.commands[Size + 1] = c /\ data'.commands[Size + 2] = c
  /\ available' = [available EXCEPT ![Root] = @ \cup {Size + 1}]
  /\ count' = [count EXCEPT ![Root] = count[Root] + 1]
  /\ late' = late \cup {x} /\ special' \in Nat /\ special <= special'
  /\ UNCHANGED <<section, running, thunks, handles, phase, standsFor, refused>>

(* AddLate, in these words. *)
LEMMA LateAdds ==
  ASSUME BuilderInv, AddLate
  PROVE  \E x, c : AddedTwice(x, c)
<1>1. BuilderTypes /\ NamesKnown /\ special \in Nat /\ Root \in DOMAIN count /\ data \in DataType
  BY DEF BuilderInv, BuilderTypes
<1>2. PICK x, c, a, k : x = NextName(Root) /\ a = <<>> /\ k = "call" /\ c = Command(x, k, a)
  OBVIOUS
<1>3. x \in Name
  BY <1>1, <1>2, FreshName
<1>4. c \in CommandType
  <2>1. a \in Seq(ArgType) /\ k \in Kinds
    BY <1>2 DEF Kinds
  <2> QED
    BY <1>2, <1>3, <2>1, Constructed
<1>5. PICK d : d = data.commands
  OBVIOUS
<1>6. d \in Seq(CommandType) /\ Len(d) = Size
  BY <1>1, <1>5, DataParts DEF Size
<1>7. PICK e : e = d \o <<c, c>>
  OBVIOUS
<1>8. e \in Seq(CommandType) /\ Len(e) = Len(d) + 2 /\ (\A i \in 1 .. Len(d) : e[i] = d[i])
      /\ e[Len(d) + 1] = c /\ e[Len(d) + 2] = c
  <2>1. <<c, c>> \in Seq(CommandType) /\ Len(<<c, c>>) = 2
    BY <1>4
  <2>2. Len(d) \in Nat
    BY <1>6
  <2>3. Len(e) = Len(d) + 2 /\ e \in Seq(CommandType)
    BY <1>6, <1>7, <2>1, ConcatProperties
  <2>4. \A i \in 1 .. Len(d) : e[i] = d[i]
    BY <1>6, <1>7, <2>1, <2>2, ConcatProperties
  <2>5. \A i \in 1 .. Len(d) + 2 : i > Len(d) => e[i] = <<c, c>>[i - Len(d)]
    BY <1>6, <1>7, <2>1, <2>2, ConcatProperties
  <2>6. e[Len(d) + 1] = <<c, c>>[1] /\ e[Len(d) + 2] = <<c, c>>[2]
    BY <2>2, <2>5
  <2> QED
    BY <2>3, <2>4, <2>6
<1>9. /\ data' = [data EXCEPT !.commands = e]
      /\ available' = [available EXCEPT ![Root] = @ \cup {Size + 1}]
      /\ count' = Counted(Root) /\ late' = late \cup {x} /\ Special(2)
      /\ UNCHANGED <<section, running, thunks, handles, phase, standsFor, refused>>
  BY <1>2, <1>5, <1>7 DEF AddLate, Size
<1>10. data' \in DataType /\ data'.commands = e /\ data'.inputs = data.inputs
  BY <1>1, <1>8, <1>9 DEF DataType
<1>11. special' \in Nat /\ special <= special'
  BY <1>1, <1>9, SpecialCounts
<1>12. count' = [count EXCEPT ![Root] = count[Root] + 1]
  BY <1>1, <1>9, CountedIs
<1>13. Size' = Size + 2 /\ (\A i \in 1 .. Size : data'.commands[i] = data.commands[i])
       /\ data'.commands[Size + 1] = c /\ data'.commands[Size + 2] = c
  BY <1>5, <1>6, <1>8, <1>10 DEF Size
<1> QED
  BY <1>2, <1>9, <1>10, <1>11, <1>12, <1>13 DEF AddedTwice

(* Where the commands are then. *)
LEMMA TwicePlaces ==
  ASSUME BuilderInv, NEW x, NEW c, AddedTwice(x, c)
  PROVE  /\ Size \in Nat /\ Size' = Size + 2 /\ Size + 1 \in 1 .. Size' /\ Size + 2 \in 1 .. Size'
         /\ \A i \in 1 .. Size : i \in 1 .. Size' /\ NameAt(i)' = NameAt(i) /\ KindAt(i)' = KindAt(i) /\ ArgsAt(i)' = ArgsAt(i)
                                 /\ NameAt(i) # x
         /\ \A i \in 1 .. Size' : i \in 1 .. Size \/
              /\ i \in {Size + 1, Size + 2}
              /\ NameAt(i)' = x /\ KindAt(i)' = "call" /\ ArgsAt(i)' = <<>>
         /\ InData' = InData \cup {x} /\ x \notin Known /\ x \in Name /\ x # <<>> /\ Last(x) # 0 /\ x[1] = count[Root] + 1
         /\ count[Root] \in Nat /\ Len(x) = 1 /\ x = Append(Root, count[Root] + 1)
<1>1. BuilderTypes /\ NamesKnown /\ Root \in DOMAIN count /\ Size \in Nat
  BY DataParts DEF BuilderInv, BuilderTypes, Size
<1>2. /\ x \notin Known /\ x \in Name /\ x # <<>> /\ Last(x) = count[Root] + 1 /\ count[Root] \in Nat
      /\ x = Append(Root, count[Root] + 1)
  BY <1>1, FreshName DEF AddedTwice
<1>3. PICK a, k : a = <<>> /\ k = "call" /\ c = Command(x, k, a)
  BY DEF AddedTwice
<1>4. c.id = x /\ c.kind = "call" /\ c.args = <<>>
  BY <1>3 DEF Command
<1>5. Len(x) = 1 /\ x[1] = count[Root] + 1
  <2>1. Root \in Name /\ Len(Root) = 0
    BY DEF Root, Name
  <2> QED
    BY <1>2, <2>1, AppendedName
<1>6. Size' = Size + 2 /\ Size + 1 \in 1 .. Size' /\ Size + 2 \in 1 .. Size'
  BY <1>1 DEF AddedTwice
<1>7. ASSUME NEW i \in 1 .. Size
      PROVE  i \in 1 .. Size' /\ NameAt(i)' = NameAt(i) /\ KindAt(i)' = KindAt(i) /\ ArgsAt(i)' = ArgsAt(i) /\ NameAt(i) # x
  <2>1. NameAt(i) \in Known
    BY <1>1, NameAtParts
  <2>2. data'.commands[i] = data.commands[i]
    BY DEF AddedTwice
  <2>3. i \in 1 .. Size'
    BY <1>1, <1>6
  <2> QED
    BY <1>2, <2>1, <2>2, <2>3 DEF NameAt, KindAt, ArgsAt
<1>8. ASSUME NEW i \in 1 .. Size', i \notin 1 .. Size
      PROVE  /\ i \in {Size + 1, Size + 2}
             /\ NameAt(i)' = x /\ KindAt(i)' = "call" /\ ArgsAt(i)' = <<>>
  <2>1. i \in {Size + 1, Size + 2}
    BY <1>1, <1>6, <1>8
  <2> QED
    BY <1>4, <2>1 DEF AddedTwice, NameAt, KindAt, ArgsAt
<1>9. InData' = InData \cup {x}
  <2>1. \A y : y \in InData' <=> \E i \in 1 .. Size' : NameAt(i)' = y
    BY DEF InData, NamesIn, NameAt, Size
  <2>2. \A y : y \in InData <=> \E i \in 1 .. Size : NameAt(i) = y
    BY DEF InData, NamesIn, NameAt, Size
  <2>3. ASSUME NEW y  PROVE y \in InData' <=> y \in InData \cup {x}
    <3>1. ASSUME y \in InData'  PROVE y \in InData \cup {x}
      BY <1>7, <1>8, <2>1, <2>2, <3>1
    <3>2. ASSUME y \in InData  PROVE y \in InData'
      BY <1>7, <2>1, <2>2, <3>2
    <3>3. x \in InData'
      <4>2. \E i \in 1 .. Size' : NameAt(i)' = x
        <5>1. PICK i : i = Size + 1
          OBVIOUS
        <5>2. i \in 1 .. Size' /\ i \notin 1 .. Size
          BY <1>1, <1>6, <5>1
        <5> QED
          BY <1>8, <5>2
      <4> QED
        BY <2>1, <4>2
    <3> QED
      BY <3>1, <3>2, <3>3
  <2> QED
    BY <2>3
<1> QED
  BY <1>1, <1>2, <1>5, <1>6, <1>7, <1>8, <1>9

(* A command is added between sorting and the end of preparing. *)
LEMMA LateKeeps ==
  ASSUME BuilderInv, AddLate
  PROVE  BuilderInv'
<1>1. PICK x, c : AddedTwice(x, c)
  BY LateAdds
<1>0. /\ BuilderTypes /\ NamesKnown /\ Settled /\ Core /\ phase \in {"resolving", "resolved"}
      /\ Forks = {Root} /\ InData \cap Thunks = {} /\ special \in Nat
      /\ Twins /\ KindsNamed /\ ReplacedGone /\ InputsApart /\ ArgsFit /\ HandlesPoint /\ InOrder(Size)
  BY DEF BuilderInv, AddLate, Core, Settled, BuilderTypes
<1>2. /\ data' \in DataType /\ data'.inputs = data.inputs
      /\ available' = [available EXCEPT ![Root] = @ \cup {Size + 1}]
      /\ count' = [count EXCEPT ![Root] = count[Root] + 1]
      /\ late' = late \cup {x} /\ special' \in Nat /\ special <= special'
      /\ UNCHANGED <<section, running, thunks, handles, phase, standsFor, refused>>
  BY <1>1 DEF AddedTwice
<1>3. /\ Size \in Nat /\ Size' = Size + 2 /\ Size + 1 \in 1 .. Size' /\ Size + 2 \in 1 .. Size'
      /\ \A i \in 1 .. Size : i \in 1 .. Size' /\ NameAt(i)' = NameAt(i) /\ KindAt(i)' = KindAt(i) /\ ArgsAt(i)' = ArgsAt(i)
                              /\ NameAt(i) # x
      /\ \A i \in 1 .. Size' : i \in 1 .. Size \/
           /\ i \in {Size + 1, Size + 2}
           /\ NameAt(i)' = x /\ KindAt(i)' = "call" /\ ArgsAt(i)' = <<>>
      /\ InData' = InData \cup {x} /\ x \notin Known /\ x \in Name /\ x # <<>> /\ Last(x) # 0 /\ x[1] = count[Root] + 1
      /\ count[Root] \in Nat /\ Len(x) = 1 /\ x = Append(Root, count[Root] + 1)
  BY <1>1, TwicePlaces
<1>4. x \notin InData /\ x \notin Thunks /\ x \notin Replaced
  BY <1>3 DEF Known, Mentioned
<1>5. Thunks' = Thunks /\ Replaced' = Replaced
  BY <1>2 DEF Thunks, Replaced
<1>6. ASSUME NEW i, NEW y, Points(i, y)  PROVE Points(i, y)'
  <2>1. i \in 1 .. Size /\ NameAt(i) = IF NameAt(i) \in Thunks THEN y ELSE MeaningIn(standsFor, y)
    BY <1>6 DEF Points, PointsIn, Size, NameAt
  <2>2. i \in 1 .. Size' /\ NameAt(i)' = NameAt(i)
    BY <1>3, <2>1
  <2> QED
    BY <1>2, <1>5, <2>1, <2>2 DEF Points, PointsIn, Size, NameAt
<1>7. Twins'
  <2> SUFFICES ASSUME NEW i \in 1 .. Size', NEW j \in 1 .. Size', i # j, NameAt(i)' = NameAt(j)'
               PROVE  /\ KindAt(i)' = "call" /\ ArgsAt(i)' = <<>> /\ NameAt(i)' \in late'
                      /\ \A k \in 1 .. Size' : NameAt(k)' = NameAt(i)' => k \in {i, j}
    BY DEF Twins, TwinsIn, Size, NameAt, KindAt, ArgsAt
  <2>1. CASE i \in 1 .. Size
    <3>1. j \in 1 .. Size
      BY <1>3, <2>1
    <3>2. /\ KindAt(i) = "call" /\ ArgsAt(i) = <<>> /\ NameAt(i) \in late
          /\ \A k \in 1 .. Size : NameAt(k) = NameAt(i) => k \in {i, j}
      BY <1>0, <1>3, <2>1, <3>1 DEF Twins, TwinsIn, Size, NameAt, KindAt, ArgsAt
    <3>3. ASSUME NEW k \in 1 .. Size', NameAt(k)' = NameAt(i)'  PROVE k \in {i, j}
      BY <1>3, <2>1, <3>2, <3>3
    <3> QED
      BY <1>2, <1>3, <2>1, <3>2, <3>3
  <2>2. CASE i \notin 1 .. Size
    <3>1. i \in {Size + 1, Size + 2} /\ NameAt(i)' = x /\ KindAt(i)' = "call" /\ ArgsAt(i)' = <<>>
      BY <1>3, <2>2
    <3>2. \A k \in 1 .. Size' : NameAt(k)' = x => k \in {Size + 1, Size + 2}
      BY <1>3
    <3>3. j \in {Size + 1, Size + 2}
      BY <3>1, <3>2
    <3>4. {i, j} = {Size + 1, Size + 2}
      BY <1>3, <3>1, <3>3
    <3> QED
      BY <1>2, <3>1, <3>2, <3>4
  <2> QED
    BY <2>1, <2>2
<1>8. KindsNamed'
  <2> SUFFICES ASSUME NEW i \in 1 .. Size'
               PROVE  /\ KindAt(i)' \in Intents => NameAt(i)'[1] # 0
                      /\ Last(NameAt(i)') = 0 <=> KindAt(i)' = "merge"
                      /\ KindAt(i)' = "merge" =>
                           \E j \in 1 .. Size' : Front(NameAt(i)') = NameAt(j)' /\ KindAt(j)' = "split"
                      /\ KindAt(i)' = "thunk" <=> NameAt(i)' \in Thunks
    BY <1>5 DEF KindsNamed, KindsIn, Size, NameAt, KindAt
  <2>1. CASE i \in 1 .. Size
    <3>1. /\ KindAt(i) \in Intents => NameAt(i)[1] # 0
          /\ Last(NameAt(i)) = 0 <=> KindAt(i) = "merge"
          /\ KindAt(i) = "merge" =>
               \E j \in 1 .. Size : Front(NameAt(i)) = NameAt(j) /\ KindAt(j) = "split"
          /\ KindAt(i) = "thunk" <=> NameAt(i) \in Thunks
      BY <1>0, <2>1 DEF KindsNamed, KindsIn, Size, NameAt, KindAt
    <3> QED
      BY <1>3, <2>1, <3>1
  <2>2. CASE i \notin 1 .. Size
    BY <1>3, <1>4, <2>2 DEF Intents
  <2> QED
    BY <2>1, <2>2
<1>9. ReplacedGone'
  <2>1. InData \cap Replaced \subseteq Thunks /\ (\A y \in Replaced : standsFor[y] \notin Replaced)
    BY <1>0 DEF ReplacedGone, GoneIn, InData, Replaced
  <2> QED
    BY <1>2, <1>3, <1>4, <1>5, <2>1 DEF ReplacedGone, GoneIn, InData, Replaced
<1>10. InputsApart'
  BY <1>0, <1>2 DEF InputsApart
<1>11. ArgsFit'
  <2> SUFFICES ASSUME NEW i \in 1 .. Size', NEW k \in 1 .. Len(ArgsAt(i)'), NEW arg, arg = ArgsAt(i)'[k]
               PROVE  /\ arg.kind = "Input" => ObjectFits(data'.inputs, arg)
                      /\ RefersToResult(arg) =>
                           NameAt(i)' \in refused' \/ ResultFits(data'.commands, Thunks', standsFor', i, arg)
    <3>0. data'.commands \in Seq(CommandType)
      BY <1>2, DataParts
    <3> QED
      BY DEF ArgsFit, ArgsFitIn, Size, NameAt, ArgsAt
  <2>1. i \in 1 .. Size
    <3> SUFFICES ASSUME i \notin 1 .. Size  PROVE FALSE
      OBVIOUS
    <3>1. ArgsAt(i)' = <<>>
      BY <1>3
    <3> QED
      BY <3>1
  <2>2. /\ arg.kind = "Input" => ObjectFits(data.inputs, arg)
        /\ RefersToResult(arg) => NameAt(i) \in refused \/ ResultFits(data.commands, Thunks, standsFor, i, arg)
    <3>1. k \in 1 .. Len(ArgsAt(i)) /\ arg = ArgsAt(i)[k]
      BY <1>3, <2>1
    <3> QED
      BY <1>0, <2>1, <3>1 DEF ArgsFit, ArgsFitIn, Size, NameAt, ArgsAt
  <2>3. ASSUME ResultFits(data.commands, Thunks, standsFor, i, arg)
        PROVE  ResultFits(data'.commands, Thunks', standsFor', i, arg)
    <3>1. CASE PointsIn(data.commands, Thunks, standsFor, arg.at, arg.of)
      <4>1. Points(arg.at, arg.of)'
        BY <1>6, <3>1 DEF Points
      <4> QED
        BY <2>3, <4>1 DEF Points, ResultFits
    <3>2. CASE arg.at \in 1 .. Size /\ arg.kind = "NestedResult" /\ NameAt(arg.at) = Append(MeaningIn(standsFor, arg.of), 0)
      <4>1. arg.at \in 1 .. Size' /\ NameAt(arg.at) = data'.commands[arg.at].id
        <5>1. data'.commands[arg.at] = data.commands[arg.at]
          BY <1>1, <3>2 DEF AddedTwice
        <5> QED
          BY <1>3, <3>2, <5>1 DEF NameAt
      <4> QED
        BY <1>2, <2>3, <3>2, <4>1 DEF ResultFits, Size
    <3> QED
      BY <2>3, <3>1, <3>2 DEF ResultFits, Size, NameAt
  <2> QED
    BY <1>2, <1>3, <2>1, <2>2, <2>3 DEF Thunks
<1>12. HandlesPoint'
  <2>1. (\A id \in DOMAIN handles \ Thunks : id \notin Replaced /\ handles[id] \in 1 .. Size /\ NameAt(handles[id]) = id)'
    <3> SUFFICES ASSUME NEW id \in DOMAIN handles \ Thunks
                 PROVE  id \notin Replaced /\ handles[id] \in 1 .. Size' /\ data'.commands[handles[id]].id = id
      BY <1>2, <1>5 DEF NameAt
    <3>1. id \notin Replaced /\ handles[id] \in 1 .. Size /\ NameAt(handles[id]) = id
      BY <1>0 DEF HandlesPoint
    <3>2. data'.commands[handles[id]] = data.commands[handles[id]]
      BY <1>1, <3>1 DEF AddedTwice
    <3> QED
      BY <1>3, <3>1, <3>2 DEF NameAt
  <2>2. (\A t \in DOMAIN handles \cap Thunks :
           t \notin InData /\ ~thunks[t].void /\ thunks[t].result \notin Thunks =>
             Points(thunks[t].resultIndex, t))'
    <3> SUFFICES ASSUME NEW t \in DOMAIN handles \cap Thunks, t \notin InData', ~thunks[t].void, thunks[t].result \notin Thunks
                 PROVE  PointsIn(data'.commands, Thunks', standsFor', thunks[t].resultIndex, t)
      BY <1>2, <1>5 DEF Points
    <3>1. Points(thunks[t].resultIndex, t)
      BY <1>0, <1>3 DEF HandlesPoint
    <3>2. PICK h : h = thunks[t].resultIndex
      OBVIOUS
    <3>3. Points(h, t)'
      BY <1>6, <3>1, <3>2
    <3> QED
      BY <3>2, <3>3 DEF Points
  <2>3. (\A i \in 1 .. Size : NameAt(i) \in Thunks =>
           /\ thunks[NameAt(i)].resultIndex = i /\ NameAt(i) \in DOMAIN handles /\ ArgsAt(i) = <<>>)'
    <3>1. \A i \in 1 .. Size' : NameAt(i)' \in InData'
      BY DEF InData, NamesIn, Size, NameAt
    <3>2. InData' \cap Thunks' = {}
      BY <1>0, <1>3, <1>4, <1>5
    <3> QED
      BY <3>1, <3>2
  <2> QED
    BY <2>1, <2>2, <2>3 DEF HandlesPoint
<1>13. InOrder(Size)'
  <2> SUFFICES ASSUME NEW i \in 1 .. Size', NEW j \in 1 .. Size', i < j, User(NameAt(i)')
               PROVE  Less(NameAt(i)', NameAt(j)') \/ NameAt(i)' = NameAt(j)' \/ ~User(NameAt(j)')
    BY DEF InOrder, OrderIn, Size, NameAt
  <2>1. CASE j \in 1 .. Size
    <3>1. i \in 1 .. Size
      BY <1>3, <2>1
    <3> QED
      BY <1>0, <1>3, <2>1, <3>1 DEF InOrder, OrderIn, NameAt
  <2>2. CASE j \notin 1 .. Size /\ i \in 1 .. Size
    <3>1. NameAt(i) \in Name /\ NameAt(i) # <<>> /\ NameAt(i)[1] \in Nat /\ Made(NameAt(i)) /\ Len(NameAt(i)) \in Nat
          /\ 1 \in 1 .. Len(NameAt(i))
      BY <1>0, <2>2, NameAtParts
    <3>2. Inside(NameAt(i), Root) /\ Len(Root) + 1 = 1
      BY <3>1 DEF Inside, Root
    <3>3. NameAt(i)[1] <= count[Root]
      BY <1>0, <3>1, <3>2 DEF Made, BuilderTypes
    <3>4. NameAt(i)[1] < x[1]
      BY <1>3, <3>1, <3>3
    <3>5. Less(NameAt(i), x)
      BY <1>3, <3>1, <3>4, FirstLess
    <3> QED
      BY <1>3, <2>2, <3>5
  <2>3. CASE j \notin 1 .. Size /\ i \notin 1 .. Size
    BY <1>3, <2>3
  <2> QED
    BY <2>1, <2>2, <2>3
<1>14. NamesKnown'
  <2>1. Mentioned' = Mentioned
    BY <1>2, <1>5 DEF Mentioned, Replaced
  <2>2. DOMAIN count' = DOMAIN count /\ Root \in DOMAIN count /\ (\A f \in DOMAIN count : count[f] \in Nat /\ count'[f] \in Nat /\ count[f] <= count'[f])
        /\ count'[Root] = count[Root] + 1
    BY <1>0, <1>2, <1>3 DEF BuilderTypes
  <2>3. Known' \subseteq Known \cup {x}
    BY <1>3, <2>1, <2>2 DEF Known, Root
  <2>4. Made(x)'
    <3> SUFFICES ASSUME NEW f \in DOMAIN count, Inside(x, f)  PROVE x[Len(f) + 1] <= count'[f]
      BY <2>2 DEF Made
    <3>1. f \in Name /\ Len(f) \in Nat
      BY <1>0, NameParts DEF BuilderTypes
    <3>2. f = Root /\ Len(f) = 0
      BY <1>3, <3>1 DEF Inside, Root, Name
    <3> QED
      BY <1>3, <2>2, <3>2
  <2>5. x[1] # 0
    BY <1>3
  <2>6. NamesGrow({x}, {})
    BY <1>2, <1>3, <2>1, <2>2, <2>3, <2>4, <2>5 DEF NamesGrow
  <2> QED
    BY <1>0, <2>6, NamesGrowKeeps
<1>15. SettledStep
  <2>1. available' \in [Forks -> SUBSET (1 .. Size')]
    <3>1. available \in [Forks -> SUBSET (1 .. Size)]
      BY <1>0 DEF BuilderTypes
    <3>2. 1 .. Size \subseteq 1 .. Size'
      BY <1>3
    <3> QED
      BY <1>2, <1>3, <3>1, <3>2
  <2>2. count' \in [DOMAIN count -> Nat]
    BY <1>0, <1>2, <1>3 DEF BuilderTypes
  <2>3. handles' \in [DOMAIN handles' -> Nat] /\ standsFor' \in [Replaced' -> Name]
    BY <1>0, <1>2, <1>5 DEF BuilderTypes, Replaced
  <2> QED
    BY <1>0, <1>2, <1>3, <1>4, <1>5, <2>1, <2>2, <2>3 DEF SettledStep
<1> QED
  <2>1. (Twins /\ KindsNamed /\ ReplacedGone /\ InputsApart /\ ArgsFit /\ HandlesPoint)'
    BY <1>7, <1>8, <1>9, <1>10, <1>11, <1>12
  <2> QED
    BY <1>0, <1>13, <1>14, <1>15, <2>1, SettledStepKeeps

(***************************************************************************)
(* Rewriting the data: commands give way to others, references follow      *)
(***************************************************************************)

(* What holds of the data between sorting and the end of preparation, with *)
(* the asynchronous functions T, what stands for what, S, the refused      *)
(* commands R and the late ones L.                                         *)
DataFits(d, T, S, R, L) ==
  /\ d \in DataType
  /\ TwinsIn(d.commands, L) /\ KindsIn(d.commands, T) /\ GoneIn(d.commands, T, S)
  /\ ApartIn(d.inputs) /\ ArgsFitIn(d, T, S, R) /\ OrderIn(d.commands, Len(d.commands))
  /\ NamesIn(d.commands) \cap T = {}

(* An argument of the command at i fits. *)
ArgFits(d, T, S, R, i, arg) ==
  /\ arg.kind = "Input" => ObjectFits(d.inputs, arg)
  /\ RefersToResult(arg) => d.commands[i].id \in R \/ ResultFits(d.commands, T, S, i, arg)

(* The commands x made from c: the one at i was at old[i], or is new, with *)
(* a name of X, when old[i] is 0. The one that was at g is gone.           *)
Carried(x, c, old, g) ==
  /\ old \in [1 .. Len(x) -> 0 .. Len(c)]
  /\ \A i, j \in 1 .. Len(x) : i < j /\ old[i] # 0 /\ old[j] # 0 => old[i] < old[j]
  /\ \A o \in 1 .. Len(c) : o # g => \E i \in 1 .. Len(x) : old[i] = o
  /\ \A i \in 1 .. Len(x) : old[i] # 0 =>
       /\ old[i] # g /\ x[i].id = c[old[i]].id
       /\ \/ x[i].kind = c[old[i]].kind /\ Len(x[i].args) = Len(c[old[i]].args)
          \/ c[old[i]].kind \in Intents /\ x[i].kind \in {"call", "split"}

(* The names X are those of the commands that were nowhere before. *)
Created(x, c, old, X) ==
  \A i \in 1 .. Len(x) : old[i] = 0 =>
    /\ x[i].id \in X /\ ~User(x[i].id)
    /\ \A j \in 1 .. Len(x) : x[j].id = x[i].id => j = i
    /\ \/ x[i].kind = "call" /\ Last(x[i].id) # 0
       \/ /\ x[i].kind = "merge" /\ Last(x[i].id) = 0
          /\ \E j \in 1 .. Len(x) : x[j].kind = "split" /\ x[j].id = Front(x[i].id)

(* The argument a of the command that was at old[i] has become n.          *)
Follows(n, a, i, x, c, old, g, q) ==
  /\ a.kind = "Input" => n = a
  /\ n.kind = "Input" => a.kind = "Input"
  /\ RefersToResult(n) => RefersToResult(a)
  /\ RefersToResult(a) =>
       /\ n.of = a.of
       /\ a.at \in 1 .. Len(c) /\ a.at < old[i] =>
            /\ n.at \in 1 .. Len(x)
            /\ \/ old[n.at] = a.at /\ (a.kind = "NestedResult" => n.kind = "NestedResult")
               \/ a.at = g /\ n.at < i /\ x[n.at].id = q
               \/ /\ n.kind = "NestedResult" /\ n.at < i /\ x[n.at].id = Append(c[a.at].id, 0)
                  /\ c[a.at].kind # "merge"

(* The command at i was there before, and is still of its kind. *)
SameKind(x, c, old, i) ==
  old[i] # 0 /\ x[i].kind = c[old[i]].kind /\ Len(x[i].args) = Len(c[old[i]].args)

(* q stands for z from now on. *)
Taken(S, S2, z, q) ==
  /\ DOMAIN S2 = DOMAIN S \cup {z} /\ z \notin DOMAIN S /\ q \notin DOMAIN S2
  /\ \A y : MeaningIn(S2, y) = IF MeaningIn(S, y) = z THEN q ELSE MeaningIn(S, y)

(* The command at g is gone and q stands for it; or, if g is 0, none is. *)
Gives(c, S, S2, g, q) ==
  \/ g = 0 /\ S2 = S
  \/ /\ g \in 1 .. Len(c) /\ Taken(S, S2, c[g].id, q)
     /\ c[g].kind \in {"call"} \cup Intents
     /\ \A o \in 1 .. Len(c) : c[o].id = c[g].id => o = g

(* The data e are what a plugin or resolveCoinBalance makes of d: old says *)
(* where each command was, X are the new ones, g the one that q replaced;  *)
(* and the arguments follow.                                               *)
Rewritten(e, d, old, X, S, S2, T, R, g, q) ==
  /\ e \in DataType /\ InputsGrow(e.inputs, d.inputs) /\ ApartIn(e.inputs)
  /\ Carried(e.commands, d.commands, old, g) /\ Created(e.commands, d.commands, old, X)
  /\ X \cap (NamesIn(d.commands) \cup T \cup DOMAIN S) = {}
  /\ Gives(d.commands, S, S2, g, q)
  /\ \A i \in 1 .. Len(e.commands) : SameKind(e.commands, d.commands, old, i) =>
       \A k \in 1 .. Len(e.commands[i].args) :
         Follows(e.commands[i].args[k], d.commands[old[i]].args[k], i, e.commands, d.commands, old, g, q)
  /\ \A i \in 1 .. Len(e.commands) : ~SameKind(e.commands, d.commands, old, i) =>
       \A k \in 1 .. Len(e.commands[i].args) : ArgFits(e, T, S2, R, i, e.commands[i].args[k])

(* The names there are. *)
LEMMA CarriedNames ==
  ASSUME NEW x, NEW c, NEW old, NEW g, NEW X, Carried(x, c, old, g), Created(x, c, old, X),
         X \cap NamesIn(c) = {}, Len(c) \in Nat, Len(x) \in Nat
  PROVE  /\ NamesIn(x) \subseteq NamesIn(c) \cup X
         /\ \A i \in 1 .. Len(x) : old[i] # 0 => old[i] \in 1 .. Len(c) /\ x[i].id = c[old[i]].id
         /\ \A i, j \in 1 .. Len(x) : i # j /\ x[i].id = x[j].id =>
              /\ old[i] # 0 /\ old[j] # 0 /\ old[i] # old[j]
              /\ c[old[i]].id = c[old[j]].id
         /\ \A i, j \in 1 .. Len(x) : old[i] # 0 /\ old[i] = old[j] => i = j
         /\ \A i, j \in 1 .. Len(x) : old[i] # 0 /\ old[j] # 0 /\ old[i] < old[j] => i < j
<1>1. \A i \in 1 .. Len(x) : old[i] # 0 => old[i] \in 1 .. Len(c) /\ x[i].id = c[old[i]].id
  BY DEF Carried
<1>2. \A i \in 1 .. Len(x) : old[i] = 0 => x[i].id \in X /\ \A j \in 1 .. Len(x) : x[j].id = x[i].id => j = i
  BY DEF Created
<1>3. \A i, j \in 1 .. Len(x) : i < j /\ old[i] # 0 /\ old[j] # 0 => old[i] < old[j]
  BY DEF Carried
<1>4. \A i, j \in 1 .. Len(x) : i # j => i < j \/ j < i
  OBVIOUS
<1>5. NamesIn(x) \subseteq NamesIn(c) \cup X
  BY <1>1, <1>2 DEF NamesIn
<1>6. \A i, j \in 1 .. Len(x) : old[i] # 0 /\ old[j] # 0 /\ i # j => old[i] # old[j]
  <2>1. \A i, j \in 1 .. Len(x) : old[i] # 0 /\ old[j] # 0 /\ i < j => old[i] # old[j]
    BY <1>1, <1>3
  <2> QED
    BY <1>4, <2>1
<1>7. \A i, j \in 1 .. Len(x) : i # j /\ x[i].id = x[j].id => old[i] # 0 /\ old[j] # 0
  BY <1>2
<1>8. \A i, j \in 1 .. Len(x) : old[i] # 0 /\ old[j] # 0 /\ old[i] < old[j] => i < j
  <2> SUFFICES ASSUME NEW i \in 1 .. Len(x), NEW j \in 1 .. Len(x), old[i] # 0, old[j] # 0, old[i] < old[j]
               PROVE  i < j
    OBVIOUS
  <2>1. old[i] \in 1 .. Len(c) /\ old[j] \in 1 .. Len(c)
    BY <1>1
  <2>2. CASE j < i
    <3>1. old[j] < old[i]
      BY <1>3, <2>2
    <3> QED
      BY <2>1, <3>1
  <2>3. CASE i = j
    BY <2>1, <2>3
  <2> QED
    BY <1>4, <2>2, <2>3
<1> QED
  BY <1>1, <1>5, <1>6, <1>7, <1>8

(* The parts of DataFits, one by one. No new name is there twice. *)
LEMMA CarriedTwins ==
  ASSUME NEW x, NEW c, NEW old, NEW g, NEW X, Carried(x, c, old, g), Created(x, c, old, X),
         X \cap NamesIn(c) = {}, Len(c) \in Nat, Len(x) \in Nat, NEW L, TwinsIn(c, L),
         \A i \in 1 .. Len(x) : x[i].args \in Seq(ArgType)
  PROVE  TwinsIn(x, L)
<1> SUFFICES ASSUME NEW i \in 1 .. Len(x), NEW j \in 1 .. Len(x), i # j, x[i].id = x[j].id
             PROVE  /\ x[i].kind = "call" /\ x[i].args = <<>> /\ x[i].id \in L
                    /\ \A k \in 1 .. Len(x) : x[k].id = x[i].id => k \in {i, j}
  BY DEF TwinsIn
<1>1. /\ \A m \in 1 .. Len(x) : old[m] # 0 => old[m] \in 1 .. Len(c) /\ x[m].id = c[old[m]].id
      /\ \A m, n \in 1 .. Len(x) : m # n /\ x[m].id = x[n].id =>
              /\ old[m] # 0 /\ old[n] # 0 /\ old[m] # old[n]
              /\ c[old[m]].id = c[old[n]].id
      /\ \A m, n \in 1 .. Len(x) : old[m] # 0 /\ old[m] = old[n] => m = n
  BY CarriedNames
<1>2. old[i] # 0 /\ old[j] # 0 /\ old[i] # old[j] /\ c[old[i]].id = c[old[j]].id
  BY <1>1
<1>3. old[i] \in 1 .. Len(c) /\ old[j] \in 1 .. Len(c) /\ x[i].id = c[old[i]].id
  BY <1>1, <1>2
<1>4. /\ c[old[i]].kind = "call" /\ c[old[i]].args = <<>> /\ c[old[i]].id \in L
      /\ \A k \in 1 .. Len(c) : c[k].id = c[old[i]].id => k \in {old[i], old[j]}
  BY <1>2, <1>3 DEF TwinsIn
<1>5. x[i].kind = "call" /\ Len(x[i].args) = Len(c[old[i]].args)
  BY <1>2, <1>4 DEF Carried, Intents
<1>6. x[i].args = <<>>
  <2>1. x[i].args \in Seq(ArgType) /\ Len(x[i].args) = 0
    BY <1>4, <1>5
  <2> QED
    BY <2>1, EmptySeq
<1>7. ASSUME NEW k \in 1 .. Len(x), x[k].id = x[i].id  PROVE k \in {i, j}
  <2> SUFFICES ASSUME k # i, k # j  PROVE FALSE
    OBVIOUS
  <2>1. old[k] # 0 /\ c[old[k]].id = c[old[i]].id
    BY <1>1, <1>7
  <2>2. old[k] \in {old[i], old[j]}
    BY <1>1, <1>4, <2>1
  <2> QED
    BY <1>1, <2>1, <2>2
<1> QED
  BY <1>3, <1>4, <1>5, <1>6, <1>7

(* Kinds still agree with names. *)
LEMMA CarriedKinds ==
  ASSUME NEW x, NEW c, NEW old, NEW g, NEW X, Carried(x, c, old, g), Created(x, c, old, X),
         X \cap NamesIn(c) = {}, Len(c) \in Nat, Len(x) \in Nat, NEW T, KindsIn(c, T),
         X \cap T = {}, NamesIn(c) \cap T = {}, g \in 1 .. Len(c) => c[g].kind # "split"
  PROVE  KindsIn(x, T)
<1> SUFFICES ASSUME NEW i \in 1 .. Len(x)
             PROVE  /\ x[i].kind \in Intents => x[i].id[1] # 0
                    /\ Last(x[i].id) = 0 <=> x[i].kind = "merge"
                    /\ x[i].kind = "merge" =>
                         \E j \in 1 .. Len(x) : Front(x[i].id) = x[j].id /\ x[j].kind = "split"
                    /\ x[i].kind = "thunk" <=> x[i].id \in T
  BY DEF KindsIn
<1>1. CASE old[i] = 0
  <2>1. /\ x[i].id \in X
        /\ \/ x[i].kind = "call" /\ Last(x[i].id) # 0
           \/ /\ x[i].kind = "merge" /\ Last(x[i].id) = 0
              /\ \E j \in 1 .. Len(x) : x[j].kind = "split" /\ x[j].id = Front(x[i].id)
    BY <1>1 DEF Created
  <2> QED
    BY <2>1 DEF Intents
<1>2. CASE old[i] # 0
  <2> DEFINE o == old[i]
  <2>1. o \in 1 .. Len(c) /\ x[i].id = c[o].id
        /\ (x[i].kind = c[o].kind \/ (c[o].kind \in Intents /\ x[i].kind \in {"call", "split"}))
    BY <1>2 DEF Carried
  <2>2. /\ c[o].kind \in Intents => c[o].id[1] # 0
        /\ Last(c[o].id) = 0 <=> c[o].kind = "merge"
        /\ c[o].kind = "merge" =>
             \E j \in 1 .. Len(c) : Front(c[o].id) = c[j].id /\ c[j].kind = "split"
        /\ c[o].kind = "thunk" <=> c[o].id \in T
    BY <2>1 DEF KindsIn
  <2>3. c[o].id \notin T
    BY <2>1 DEF NamesIn
  <2>4. ASSUME x[i].kind = "merge"
        PROVE  \E j \in 1 .. Len(x) : Front(x[i].id) = x[j].id /\ x[j].kind = "split"
    <3>1. c[o].kind = "merge"
      BY <2>1, <2>4
    <3>2. PICK k \in 1 .. Len(c) : Front(c[o].id) = c[k].id /\ c[k].kind = "split"
      BY <2>2, <3>1
    <3>3. PICK j \in 1 .. Len(x) : old[j] = k
      <4>1. k # g
        BY <3>2
      <4> QED
        BY <4>1 DEF Carried
    <3>4. x[j].id = c[k].id /\ x[j].kind = "split"
      <4>1. old[j] # 0
        BY <3>2, <3>3
      <4>2. x[j].id = c[old[j]].id
            /\ (x[j].kind = c[old[j]].kind \/ (c[old[j]].kind \in Intents /\ x[j].kind \in {"call", "split"}))
        BY <4>1 DEF Carried
      <4> QED
        BY <3>2, <3>3, <4>2 DEF Intents
    <3> QED
      BY <2>1, <3>2, <3>4
  <2> HIDE DEF o
  <2> QED
    BY <2>1, <2>2, <2>3, <2>4 DEF Intents
<1> QED
  BY <1>1, <1>2

(* The user's commands are still in order. *)
LEMMA CarriedOrder ==
  ASSUME NEW x, NEW c, NEW old, NEW g, NEW X, Carried(x, c, old, g), Created(x, c, old, X),
         X \cap NamesIn(c) = {}, Len(c) \in Nat, Len(x) \in Nat, OrderIn(c, Len(c))
  PROVE  OrderIn(x, Len(x))
<1> SUFFICES ASSUME NEW i \in 1 .. Len(x), NEW j \in 1 .. Len(x), i < j, User(x[i].id), User(x[j].id)
             PROVE  Less(x[i].id, x[j].id) \/ x[i].id = x[j].id
  BY DEF OrderIn
<1>1. old[i] # 0 /\ old[j] # 0
  BY DEF Created
<1>2. old[i] < old[j] /\ old[i] \in 1 .. Len(c) /\ old[j] \in 1 .. Len(c) /\ x[i].id = c[old[i]].id /\ x[j].id = c[old[j]].id
  BY SMTT(30), <1>1 DEF Carried
<1> QED
  BY <1>2 DEF OrderIn

(* What was replaced is gone. *)
LEMMA CarriedGone ==
  ASSUME NEW x, NEW c, NEW old, NEW g, NEW X, Carried(x, c, old, g), Created(x, c, old, X),
         X \cap NamesIn(c) = {}, Len(c) \in Nat, Len(x) \in Nat, NEW T, NEW S, NEW S2, NEW q,
         GoneIn(c, T, S), NamesIn(c) \cap T = {}, X \cap DOMAIN S = {}, Gives(c, S, S2, g, q)
  PROVE  GoneIn(x, T, S2)
<1>1. NamesIn(x) \subseteq NamesIn(c) \cup X
  BY CarriedNames
<1>2. NamesIn(c) \cap DOMAIN S = {} /\ NamesIn(x) \cap DOMAIN S = {}
  BY <1>1 DEF GoneIn
<1>3. CASE g = 0 /\ S2 = S
  BY <1>2, <1>3 DEF GoneIn
<1>4. CASE /\ g \in 1 .. Len(c) /\ Taken(S, S2, c[g].id, q)
           /\ \A o \in 1 .. Len(c) : c[o].id = c[g].id => o = g
  <2> DEFINE z == c[g].id
  <2>1. z \notin NamesIn(x)
    <3> SUFFICES ASSUME NEW i \in 1 .. Len(x), x[i].id = z  PROVE FALSE
      BY DEF NamesIn
    <3>1. old[i] # 0
      <4>1. z \in NamesIn(c)
        BY <1>4 DEF NamesIn
      <4> QED
        BY <4>1 DEF Created
    <3>2. old[i] \in 1 .. Len(c) /\ c[old[i]].id = z /\ old[i] # g
      BY <3>1 DEF Carried
    <3> QED
      BY <1>4, <3>2
  <2>2. \A y \in NamesIn(x) \cap DOMAIN S2 : y \in T
    BY <1>2, <1>4, <2>1 DEF Taken
  <2>3. ASSUME NEW y \in DOMAIN S2  PROVE S2[y] \notin DOMAIN S2
    <3>1. S2[y] = IF MeaningIn(S, y) = z THEN q ELSE MeaningIn(S, y)
      BY <1>4 DEF Taken, MeaningIn
    <3>2. y # z => y \in DOMAIN S /\ MeaningIn(S, y) = S[y] /\ S[y] \notin DOMAIN S
      BY <1>4 DEF Taken, MeaningIn, GoneIn
    <3>3. y = z => MeaningIn(S, y) = z
      BY <1>4 DEF Taken, MeaningIn
    <3>4. q \notin DOMAIN S2 /\ DOMAIN S2 = DOMAIN S \cup {z}
      BY <1>4 DEF Taken
    <3> HIDE DEF z
    <3> QED
      BY <3>1, <3>2, <3>3, <3>4
  <2> QED
    BY <2>2, <2>3 DEF GoneIn
<1> QED
  BY <1>3, <1>4 DEF Gives

(* Names that meant a command that stays mean it still, *)
LEMMA GivesMeaning ==
  ASSUME NEW c, NEW S, NEW S2, NEW g, NEW q, Gives(c, S, S2, g, q), NEW o \in 1 .. Len(c), o # g,
         NEW y, MeaningIn(S, y) = c[o].id
  PROVE  MeaningIn(S2, y) = c[o].id
<1>1. CASE g = 0 /\ S2 = S
  BY <1>1
<1>2. CASE /\ g \in 1 .. Len(c) /\ Taken(S, S2, c[g].id, q)
           /\ \A k \in 1 .. Len(c) : c[k].id = c[g].id => k = g
  <2>1. c[o].id # c[g].id
    BY <1>2
  <2> QED
    BY <1>2, <2>1 DEF Taken
<1> QED
  BY <1>1, <1>2 DEF Gives

(* and so do those that meant an intent with a merge. *)
LEMMA MergeMeaning ==
  ASSUME NEW c \in Seq(CommandType), NEW T, KindsIn(c, T), NEW S, NEW S2, NEW g, NEW q, Gives(c, S, S2, g, q),
         NEW o \in 1 .. Len(c), NEW y, MeaningIn(S, y) \in Name, c[o].id = Append(MeaningIn(S, y), 0)
  PROVE  MeaningIn(S2, y) = MeaningIn(S, y) /\ c[o].kind = "merge" /\ o # g
<1>1. Last(c[o].id) = 0 /\ Front(c[o].id) = MeaningIn(S, y)
  BY AppendedName
<1>2. c[o].kind = "merge"
  BY <1>1 DEF KindsIn
<1>3. PICK j \in 1 .. Len(c) : Front(c[o].id) = c[j].id /\ c[j].kind = "split"
  BY <1>2 DEF KindsIn
<1>4. MeaningIn(S, y) = c[j].id
  BY <1>1, <1>3
<1>5. g \in 1 .. Len(c) => c[g].kind \notin {"split", "merge"}
  <2>1. g \in 1 .. Len(c) /\ g # 0 => c[g].kind \in {"call"} \cup Intents
    BY DEF Gives
  <2>2. g \in 1 .. Len(c) => g # 0
    BY CommandParts
  <2> QED
    BY <2>1, <2>2 DEF Intents
<1>6. j # g /\ o # g
  BY <1>2, <1>3, <1>5
<1>7. MeaningIn(S2, y) = c[j].id
  BY <1>4, <1>6, GivesMeaning
<1> QED
  BY <1>2, <1>4, <1>6, <1>7

(* An argument that follows its command fits. *)
LEMMA CarriedArg ==
  ASSUME NEW d, NEW e, NEW old, NEW X, NEW S, NEW S2, NEW T, NEW R, NEW L, NEW g, NEW q,
         DataFits(d, T, S, R, L), Rewritten(e, d, old, X, S, S2, T, R, g, q), S \in [DOMAIN S -> Name],
         NEW i \in 1 .. Len(e.commands), SameKind(e.commands, d.commands, old, i),
         NEW k \in 1 .. Len(e.commands[i].args)
  PROVE  ArgFits(e, T, S2, R, i, e.commands[i].args[k])
<1> DEFINE x == e.commands
           c == d.commands
           o == old[i]
           n == x[i].args[k]
           a == c[o].args[k]
<1>1. /\ d \in DataType /\ e \in DataType /\ x \in Seq(CommandType) /\ c \in Seq(CommandType)
      /\ Len(x) \in Nat /\ Len(c) \in Nat /\ Carried(x, c, old, g) /\ Created(x, c, old, X)
      /\ X \cap NamesIn(c) = {} /\ X \cap T = {} /\ X \cap DOMAIN S = {} /\ Gives(c, S, S2, g, q)
      /\ KindsIn(c, T) /\ NamesIn(c) \cap T = {} /\ ArgsFitIn(d, T, S, R) /\ InputsGrow(e.inputs, d.inputs)
      /\ e.inputs \in Seq(InputType) /\ d.inputs \in Seq(InputType)
  BY DataParts DEF DataFits, Rewritten
<1>2. o \in 1 .. Len(c) /\ x[i].id = c[o].id /\ Len(c[o].args) = Len(x[i].args) /\ k \in 1 .. Len(c[o].args) /\ o # 0
  BY <1>1 DEF SameKind, Carried
<1>3. Follows(n, a, i, x, c, old, g, q)
  BY DEF Rewritten
<1>4. n \in ArgType /\ a \in ArgType /\ a.at \in Nat
  BY <1>1, <1>2, CommandParts, ArgParts
<1>5. ArgFits(d, T, S, R, o, a)
  BY <1>1, <1>2 DEF ArgsFitIn, ArgFits
<1>6. NamesIn(x) \cap T = {}
  BY <1>1, CarriedNames
<1>7. \A m \in 1 .. Len(x) : x[m].id \notin T
  BY <1>6 DEF NamesIn
<1>8. \A m \in 1 .. Len(c) : c[m].id \notin T
  BY <1>1 DEF NamesIn
<1> HIDE DEF n, a
<1>9. ASSUME n.kind = "Input"  PROVE ObjectFits(e.inputs, n)
  <2>1. n = a /\ a.kind = "Input"
    BY <1>3, <1>9 DEF Follows
  <2>2. ObjectFits(d.inputs, a)
    BY <1>5, <2>1 DEF ArgFits
  <2>3. a.at \in 1 .. Len(d.inputs) /\ d.inputs[a.at].object = a.of /\ (a.mutable => d.inputs[a.at].mutable)
    BY <2>2 DEF ObjectFits
  <2>4. a.at \in 1 .. Len(e.inputs) /\ e.inputs[a.at].object = d.inputs[a.at].object
        /\ (d.inputs[a.at].mutable => e.inputs[a.at].mutable)
    <3>1. Len(d.inputs) \in Nat /\ Len(e.inputs) \in Nat /\ Len(d.inputs) <= Len(e.inputs)
      BY <1>1, InputParts DEF InputsGrow
    <3>2. a.at \in 1 .. Len(e.inputs)
      BY <2>3, <3>1
    <3> QED
      BY <1>1, <2>3, <3>2 DEF InputsGrow
  <2> QED
    BY <1>2, <2>1, <2>2, <2>3, <2>4 DEF ObjectFits
<1>10. ASSUME RefersToResult(n), x[i].id \notin R  PROVE ResultFits(x, T, S2, i, n)
  <2>1. RefersToResult(a) /\ n.of = a.of
    BY <1>3, <1>10 DEF Follows
  <2>2. ResultFits(c, T, S, o, a)
    BY <1>2, <1>5, <1>10, <2>1 DEF ArgFits
  <2>3. a.at \in 1 .. Len(c) /\ a.at < o
    BY <2>2 DEF ResultFits, PointsIn
  <2>4. /\ n.at \in 1 .. Len(x)
        /\ \/ old[n.at] = a.at /\ (a.kind = "NestedResult" => n.kind = "NestedResult")
           \/ a.at = g /\ n.at < i /\ x[n.at].id = q
           \/ /\ n.kind = "NestedResult" /\ n.at < i /\ x[n.at].id = Append(c[a.at].id, 0)
              /\ c[a.at].kind # "merge"
    BY <1>3, <2>1, <2>3 DEF Follows
  <2>5. a.of \in Name /\ MeaningIn(S, a.of) \in Name
    BY <1>4, <2>1, ArgParts DEF MeaningIn
  <2>6. \/ c[a.at].id = MeaningIn(S, a.of)
        \/ a.kind = "NestedResult" /\ c[a.at].id = Append(MeaningIn(S, a.of), 0)
    BY <1>8, <2>2, <2>3 DEF ResultFits, PointsIn
  <2> DEFINE of == a.of
             m == n.at
             o2 == a.at
  <2>7. CASE old[m] = o2 /\ (a.kind = "NestedResult" => n.kind = "NestedResult")
    <3>1. m < i /\ x[m].id = c[o2].id
      <4>1. old[m] # 0 /\ old[i] # 0 /\ old[m] < old[i]
        BY <1>1, <1>2, <2>3, <2>7
      <4>2. m < i
        BY <1>1, <2>4, <4>1, CarriedNames
      <4>3. x[m].id = c[old[m]].id
        <5>1. \A j \in 1 .. Len(x) : old[j] # 0 => x[j].id = c[old[j]].id
          BY <1>1 DEF Carried
        <5> QED
          BY <2>4, <4>1, <5>1
      <4> QED
        BY <2>7, <4>2, <4>3
    <3>2. old[m] # g
      <4>1. old[m] # 0
        BY <2>3, <2>7
      <4>2. \A j \in 1 .. Len(x) : old[j] # 0 => old[j] # g
        BY <1>1 DEF Carried
      <4> QED
        BY <2>4, <4>1, <4>2
    <3>3. CASE c[o2].id = MeaningIn(S, of)
      <4>1. MeaningIn(S2, of) = c[o2].id
        BY <1>1, <2>3, <2>7, <3>2, <3>3, GivesMeaning
      <4> QED
        BY <1>7, <2>1, <2>4, <3>1, <4>1 DEF ResultFits, PointsIn
    <3>4. CASE a.kind = "NestedResult" /\ c[o2].id = Append(MeaningIn(S, of), 0)
      <4>1. MeaningIn(S2, of) = MeaningIn(S, of)
        <5>1. PICK y, p : y = a.of /\ p = a.at
          OBVIOUS
        <5>2. p \in 1 .. Len(c) /\ MeaningIn(S, y) \in Name /\ c[p].id = Append(MeaningIn(S, y), 0)
          BY <2>3, <2>5, <3>4, <5>1
        <5>3. MeaningIn(S2, y) = MeaningIn(S, y)
          BY SMTT(30), <1>1, <5>2, MergeMeaning
        <5> QED
          BY <5>1, <5>3
      <4> QED
        BY <2>1, <2>4, <2>7, <3>1, <3>4, <4>1 DEF ResultFits
    <3> QED
      BY <2>6, <3>3, <3>4
  <2>8. CASE o2 = g /\ m < i /\ x[m].id = q
    <3>1. c[o2].id = MeaningIn(S, of)
      BY <1>1, <2>3, <2>5, <2>6, <2>8, MergeMeaning
    <3>2. MeaningIn(S2, of) = q
      <4>1. g # 0
        BY <1>1, <2>3, <2>8
      <4>2. Taken(S, S2, c[g].id, q)
        BY <1>1, <4>1 DEF Gives
      <4> QED
        BY <2>8, <3>1, <4>2 DEF Taken
    <3> QED
      BY <1>7, <2>1, <2>4, <2>8, <3>2 DEF ResultFits, PointsIn
  <2>9. CASE n.kind = "NestedResult" /\ m < i /\ x[m].id = Append(c[o2].id, 0) /\ c[o2].kind # "merge"
    <3>1. c[o2].id = MeaningIn(S, of)
      BY <1>1, <2>3, <2>5, <2>6, <2>9, MergeMeaning
    <3>2. CASE o2 # g
      <4>1. MeaningIn(S2, of) = c[o2].id
        BY <1>1, <2>3, <3>1, <3>2, GivesMeaning
      <4> QED
        BY <2>1, <2>4, <2>9, <4>1 DEF ResultFits
    <3>3. CASE o2 = g
      <4>1. FALSE
        <5>1. KindsIn(x, T)
          <6>1. g \in 1 .. Len(c) => c[g].kind # "split"
            <7>1. g # 0 /\ c[g].kind \in {"call"} \cup Intents
              BY <1>1, <2>3, <3>3 DEF Gives
            <7> QED
              BY <7>1 DEF Intents
          <6> QED
            BY <1>1, <6>1, CarriedKinds
        <5>2. x[m].kind = "merge"
          <6>1. c[o2].id \in Name
            BY <1>1, <2>3, CommandParts
          <6>2. Last(x[m].id) = 0 /\ Front(x[m].id) = c[o2].id
            <7>1. PICK p : p = c[o2].id
              OBVIOUS
            <7>2. Last(Append(p, 0)) = 0 /\ Front(Append(p, 0)) = p
              BY <6>1, <7>1, AppendedName
            <7> QED
              BY <2>9, <7>1, <7>2
          <6> QED
            BY <2>4, <5>1, <6>2 DEF KindsIn
        <5>3. PICK j \in 1 .. Len(x) : Front(x[m].id) = x[j].id
          BY <2>4, <5>1, <5>2 DEF KindsIn
        <5>4. x[j].id = c[g].id
          <6>1. c[o2].id \in Name
            BY <1>1, <2>3, CommandParts
          <6>2. PICK p : p = c[o2].id
            OBVIOUS
          <6>3. Front(Append(p, 0)) = p
            BY <6>1, <6>2, AppendedName
          <6> QED
            BY <2>9, <3>3, <5>3, <6>2, <6>3
        <5>5. old[j] # 0
          <6>1. c[g].id \in NamesIn(c)
            BY <2>3, <3>3 DEF NamesIn
          <6> QED
            BY <1>1, <5>4, <6>1 DEF Created
        <5>6. old[j] \in 1 .. Len(c) /\ c[old[j]].id = c[g].id /\ old[j] # g
          BY <1>1, <5>4, <5>5 DEF Carried
        <5> QED
          BY <1>1, <2>3, <3>3, <5>6 DEF Gives
      <4> QED
        BY <4>1
    <3> QED
      BY <3>2, <3>3
  <2> QED
    BY <2>4, <2>7, <2>8, <2>9
<1> QED
  BY <1>9, <1>10 DEF ArgFits, n

(* What was rewritten fits: references mean what they meant, none refers   *)
(* to a later command, and the user's commands are in order.               *)
LEMMA RewrittenFits ==
  ASSUME NEW d, NEW e, NEW old, NEW X, NEW S, NEW S2, NEW T, NEW R, NEW L, NEW g, NEW q,
         DataFits(d, T, S, R, L), Rewritten(e, d, old, X, S, S2, T, R, g, q), S \in [DOMAIN S -> Name]
  PROVE  DataFits(e, T, S2, R, L) /\ NamesIn(e.commands) \subseteq NamesIn(d.commands) \cup X
<1> DEFINE x == e.commands
           c == d.commands
<1>1. /\ d \in DataType /\ e \in DataType /\ x \in Seq(CommandType) /\ c \in Seq(CommandType)
      /\ Len(x) \in Nat /\ Len(c) \in Nat /\ Carried(x, c, old, g) /\ Created(x, c, old, X)
      /\ X \cap NamesIn(c) = {} /\ X \cap T = {} /\ X \cap DOMAIN S = {} /\ Gives(c, S, S2, g, q)
      /\ KindsIn(c, T) /\ NamesIn(c) \cap T = {} /\ TwinsIn(c, L) /\ GoneIn(c, T, S) /\ OrderIn(c, Len(c)) /\ ApartIn(e.inputs)
  BY DataParts DEF DataFits, Rewritten
<1>2. NamesIn(x) \subseteq NamesIn(c) \cup X
  BY <1>1, CarriedNames
<1>3. NamesIn(x) \cap T = {}
  BY <1>1, <1>2
<1>4. TwinsIn(x, L)
  <2>1. \A i \in 1 .. Len(x) : x[i].args \in Seq(ArgType)
    BY <1>1, CommandParts
  <2> QED
    BY <1>1, <2>1, CarriedTwins
<1>5. KindsIn(x, T)
  <2>1. g \in 1 .. Len(c) => c[g].kind # "split"
    <3>1. g \in 1 .. Len(c) => g # 0
      BY <1>1
    <3> QED
      BY <1>1, <3>1 DEF Gives, Intents
  <2> QED
    BY <1>1, <2>1, CarriedKinds
<1>6. OrderIn(x, Len(x))
  BY <1>1, CarriedOrder
<1>7. GoneIn(x, T, S2)
  BY <1>1, CarriedGone
<1>8. ArgsFitIn(e, T, S2, R)
  <2>1. ASSUME NEW i \in 1 .. Len(x), NEW k \in 1 .. Len(x[i].args)
        PROVE  ArgFits(e, T, S2, R, i, x[i].args[k])
    <3>1. CASE SameKind(x, c, old, i)
      BY <3>1, CarriedArg
    <3>2. CASE ~SameKind(x, c, old, i)
      BY <3>2 DEF Rewritten
    <3> QED
      BY <3>1, <3>2
  <2> QED
    BY <2>1 DEF ArgsFitIn, ArgFits
<1> QED
  BY <1>1, <1>2, <1>3, <1>4, <1>5, <1>6, <1>7, <1>8 DEF DataFits

(* The invariant between sorting and the end of preparing, as DataFits. *)
LEMMA SettledFits ==
  ASSUME BuilderInv, phase \in {"resolving", "resolved"}
  PROVE  /\ DataFits(data, Thunks, standsFor, refused, late) /\ standsFor \in [Replaced -> Name]
         /\ Settled /\ BuilderTypes /\ NamesKnown /\ special \in Nat /\ data \in DataType /\ Size \in Nat
<1>1. /\ Settled /\ BuilderTypes /\ NamesKnown /\ special \in Nat /\ data \in DataType /\ Twins /\ KindsNamed
      /\ ReplacedGone /\ InputsApart /\ ArgsFit /\ InOrder(Size) /\ InData \cap Thunks = {} /\ standsFor \in [Replaced -> Name]
  BY DEF BuilderInv, BuilderTypes, Settled
<1>2. Size \in Nat
  BY <1>1, DataParts DEF Size
<1> QED
  BY <1>1, <1>2 DEF DataFits, Twins, KindsNamed, ReplacedGone, InputsApart, ArgsFit, InOrder, Size, InData

(* New data, with new names X, of which those in Y are mentioned.          *)
Rewrites(X, Y) ==
  /\ DataFits(data', Thunks, standsFor', refused, late) /\ InData' \subseteq InData \cup X
  /\ UNCHANGED <<section, available, running, thunks, count, refused, late>>
  /\ phase' \in {"resolving", "resolved"} /\ Size <= Size'
  /\ special' \in Nat /\ special <= special'
  /\ Y \subseteq X
  /\ \A x \in X : x \in Name /\ x # <<>> /\ Made(x) /\ (x[1] = 0 => Len(x) > 1 /\ x[2] <= special')
  /\ \A y \in Y : Last(y) # 0
  /\ Mentioned' \subseteq Mentioned \cup Y
  /\ standsFor' \in [Replaced' -> Name] /\ Replaced' \cap Thunks \subseteq Replaced
  /\ handles' \in [DOMAIN handles' -> Nat]
  /\ \A id \in DOMAIN handles' : handles' = handles /\ (id \in Thunks \/ 
        (id \notin Replaced' /\ handles[id] \in 1 .. Size' /\ data'.commands[handles[id]].id = id))
  /\ \A t \in DOMAIN handles' : t \in Thunks /\ Points(thunks[t].resultIndex, t) => 
        PointsIn(data'.commands, Thunks, standsFor', thunks[t].resultIndex, t)

(* So rewriting the data keeps the invariant. *)
LEMMA RewriteKeeps ==
  ASSUME BuilderInv, phase \in {"resolving", "resolved"}, NEW X, NEW Y, Rewrites(X, Y)
  PROVE  BuilderInv'
<1>1. /\ BuilderTypes /\ NamesKnown /\ Settled /\ HandlesPoint /\ InData \cap Thunks = {} /\ Size \in Nat
      /\ available \in [Forks -> SUBSET (1 .. Size)] /\ count \in [DOMAIN count -> Nat]
  BY SettledFits DEF BuilderInv, Settled, BuilderTypes
<1>2. /\ data' \in DataType /\ UNCHANGED <<section, available, running, thunks, count, refused, late>>
      /\ phase' \in {"resolving", "resolved"} /\ Size <= Size' /\ InData' \subseteq InData \cup X
      /\ standsFor' \in [Replaced' -> Name] /\ Replaced' \cap Thunks \subseteq Replaced
      /\ handles' \in [DOMAIN handles' -> Nat] /\ special' \in Nat /\ special <= special'
      /\ Mentioned' \subseteq Mentioned \cup Y /\ Y \subseteq X
  BY DEF Rewrites, DataFits
<1>3. Thunks' = Thunks /\ Size' \in Nat
  BY <1>2, DataParts DEF Thunks, Size
<1>4. (Twins /\ KindsNamed /\ ReplacedGone /\ InputsApart /\ ArgsFit /\ InOrder(Size))' /\ InData' \cap Thunks = {}
  <2>1. /\ TwinsIn(data'.commands, late) /\ KindsIn(data'.commands, Thunks) /\ GoneIn(data'.commands, Thunks, standsFor')
        /\ ApartIn(data'.inputs) /\ ArgsFitIn(data', Thunks, standsFor', refused) /\ OrderIn(data'.commands, Len(data'.commands))
        /\ NamesIn(data'.commands) \cap Thunks = {}
    BY DEF Rewrites, DataFits
  <2> QED
    BY <1>2, <1>3, <2>1 DEF Twins, KindsNamed, ReplacedGone, InputsApart, ArgsFit, InOrder, Size, InData
<1>5. NamesKnown'
  <2>1. DOMAIN count' = DOMAIN count /\ \A f \in DOMAIN count : count'[f] \in Nat /\ count[f] <= count'[f]
    BY <1>1, <1>2
  <2>2. Known' \subseteq Known \cup X
    BY <1>2 DEF Known
  <2>3. \A x \in X : x \in Name /\ x # <<>> /\ Made(x)' /\ (x[1] = 0 => Len(x) > 1 /\ x[2] <= special')
    BY <1>2 DEF Rewrites, Made
  <2>4. \A y \in Y : Last(y) # 0
    BY DEF Rewrites
  <2>5. NamesGrow(X, Y)
    BY <1>2, <2>1, <2>2, <2>3, <2>4 DEF NamesGrow
  <2> QED
    BY <1>1, <2>5, NamesGrowKeeps
<1>6. SettledStep
  <2>1. available' \in [Forks -> SUBSET (1 .. Size')]
    <3>1. 1 .. Size \subseteq 1 .. Size'
      BY <1>1, <1>2, <1>3
    <3> QED
      BY <1>1, <1>2, <3>1
  <2> QED
    BY <1>1, <1>2, <1>4, <2>1 DEF SettledStep
<1>7. HandlesPoint'
  <2>1. (\A id \in DOMAIN handles \ Thunks : id \notin Replaced /\ handles[id] \in 1 .. Size /\ NameAt(handles[id]) = id)'
    <3> SUFFICES ASSUME NEW id \in DOMAIN handles' \ Thunks
                 PROVE  id \notin Replaced' /\ handles'[id] \in 1 .. Size' /\ data'.commands[handles'[id]].id = id
      BY <1>3 DEF NameAt
    <3> QED
      BY DEF Rewrites
  <2>2. (\A t \in DOMAIN handles \cap Thunks :
           t \notin InData /\ ~thunks[t].void /\ thunks[t].result \notin Thunks =>
             Points(thunks[t].resultIndex, t))'
    <3> SUFFICES ASSUME NEW t \in DOMAIN handles' \cap Thunks, ~thunks[t].void, thunks[t].result \notin Thunks
                 PROVE  PointsIn(data'.commands, Thunks', standsFor', thunks[t].resultIndex, t)
      BY <1>2, <1>3 DEF Points
    <3>1. handles' = handles
      BY DEF Rewrites
    <3>2. Points(thunks[t].resultIndex, t)
      BY <1>1, <3>1 DEF HandlesPoint
    <3> QED
      BY <1>3, <3>2 DEF Rewrites
  <2>3. (\A i \in 1 .. Size : NameAt(i) \in Thunks =>
           /\ thunks[NameAt(i)].resultIndex = i /\ NameAt(i) \in DOMAIN handles /\ ArgsAt(i) = <<>>)'
    <3>1. \A i \in 1 .. Size' : NameAt(i)' \in InData'
      BY DEF InData, NamesIn, Size, NameAt
    <3> QED
      BY <1>3, <1>4, <3>1
  <2> QED
    BY <2>1, <2>2, <2>3 DEF HandlesPoint
<1> QED
  <2>1. (Twins /\ KindsNamed /\ ReplacedGone /\ InputsApart /\ ArgsFit /\ HandlesPoint)'
    BY <1>4, <1>7
  <2> QED
    BY <1>1, <1>4, <1>5, <1>6, <2>1, SettledStepKeeps

(* Plugins' names are new. *)
LEMMA PluginNames ==
  ASSUME BuilderTypes, NamesKnown, Special(1), NEW k \in {1, 2}, NEW p, p = PluginName(k)
  PROVE  /\ p \in Name /\ p # <<>> /\ Last(p) = k /\ ~User(p) /\ Made(p) /\ p \notin Known
         /\ p[1] = 0 /\ Len(p) > 1 /\ p[2] <= special'
<1>1. special \in Nat /\ special' = special + 1
  BY DEF BuilderTypes, Special
<1>2. p = <<0, special + 1, k>> /\ Len(p) = 3 /\ p[1] = 0 /\ p[2] = special + 1 /\ p[3] = k /\ p \in Name
  <2>1. p = <<0, special + 1, k>>
    BY DEF PluginName
  <2>2. Len(p) = 3 /\ p[1] = 0 /\ p[2] = special + 1 /\ p[3] = k
    BY <2>1
  <2>3. special + 1 \in Nat /\ k \in Nat /\ 0 \in Nat
    BY <1>1
  <2>4. p \in Name
    BY <2>1, <2>3 DEF Name
  <2> QED
    BY <2>1, <2>2, <2>4
<1>3. Last(p) = k
  BY <1>2 DEF Last
<1>4. p \notin Known
  <2>1. ASSUME p \in Known  PROVE FALSE
    <3>1. p[2] <= special
      BY <1>2, <2>1 DEF NamesKnown
    <3> QED
      BY <1>1, <1>2, <3>1
  <2> QED
    BY <2>1
<1>5. Made(p)
  <2> SUFFICES ASSUME NEW f \in DOMAIN count, Inside(p, f)  PROVE p[Len(f) + 1] <= count[f]
    BY DEF Made
  <2>1. f \in Name /\ Len(f) \in Nat /\ count[f] \in Nat
    BY NameParts DEF BuilderTypes
  <2>2. CASE Len(f) = 0
    BY <1>2, <2>1, <2>2
  <2>3. CASE Len(f) # 0
    <3>1. 1 \in 1 .. Len(f)
      BY <2>1, <2>3
    <3>2. f[1] > 0 /\ f[1] = p[1]
      BY <3>1 DEF NamesKnown, Inside
    <3> QED
      BY <1>2, <3>2
  <2> QED
    BY <2>2, <2>3
<1>6. p # <<>> /\ ~User(p)
  BY <1>2 DEF User
<1> QED
  BY <1>1, <1>2, <1>3, <1>4, <1>5, <1>6

(* TakesThePlaceOf, in these words. *)
LEMMA TakesIsTaken ==
  ASSUME NEW q, NEW z, TakesThePlaceOf(q, z), z \notin Replaced, q \notin Replaced, q # z, q \in Name,
         standsFor \in [Replaced -> Name]
  PROVE  /\ Taken(standsFor, standsFor', z, q) /\ standsFor' \in [Replaced' -> Name] /\ Replaced' = Replaced \cup {z}
         /\ \A y \in Replaced' : standsFor'[y] = q \/ (y \in Replaced /\ standsFor'[y] = standsFor[y])
<1>1. Meaning(q) = q
  BY DEF Meaning, Replaced
<1>2. DOMAIN standsFor' = Replaced \cup {z}
      /\ \A y \in Replaced \cup {z} : standsFor'[y] = IF y = z \/ standsFor[y] = z THEN q ELSE standsFor[y]
  BY <1>1 DEF TakesThePlaceOf, Replaced
<1>3. standsFor' \in [Replaced \cup {z} -> Name]
  <2>1. standsFor' = [x \in Replaced \cup {z} |-> IF x = z \/ standsFor[x] = z THEN q ELSE standsFor[x]]
    BY <1>1 DEF TakesThePlaceOf, Replaced
  <2>2. \A y \in Replaced \cup {z} : (IF y = z \/ standsFor[y] = z THEN q ELSE standsFor[y]) \in Name
    OBVIOUS
  <2> QED
    BY <2>1, <2>2
<1>4. ASSUME NEW y  PROVE MeaningIn(standsFor', y) = IF MeaningIn(standsFor, y) = z THEN q ELSE MeaningIn(standsFor, y)
  BY <1>2 DEF MeaningIn, Replaced
<1> QED
  BY <1>2, <1>3, <1>4 DEF Taken, Replaced

(***************************************************************************)
(* Where commands are after they were spliced                              *)
(***************************************************************************)

(* Where the commands were before n replaced the one at index (r = 1), or  *)
(* were put there (r = 0).                                                 *)
OldPlace(i, index, r, n) ==
  IF i < index THEN i ELSE IF i < index + n THEN 0 ELSE i - n + r

(* The same for every place, *)
OldPlaces(size, index, r, n) == [i \in 1 .. size |-> OldPlace(i, index, r, n)]

(* which is monotone, and leaves out what is removed. *)
OldFits(old, N, size, index, r, n) ==
  /\ size \in Nat /\ old \in [1 .. size -> 0 .. N]
  /\ \A i \in 1 .. size : old[i] = OldPlace(i, index, r, n)
  /\ \A i, j \in 1 .. size : i < j /\ old[i] # 0 /\ old[j] # 0 => old[i] < old[j]
  /\ \A o \in 1 .. N : (r = 1 => o # index) => \E i \in 1 .. size : old[i] = o
  /\ \A i \in 1 .. size : old[i] # 0 => old[i] \in 1 .. N /\ (r = 1 => old[i] # index)
  /\ \A i \in 1 .. size : old[i] = 0 <=> i >= index /\ i < index + n

(* It is. *)
LEMMA OldParts ==
  ASSUME NEW N \in Nat, NEW r \in {0, 1}, NEW n \in Nat, NEW index \in 1 .. N + 1, index + r <= N + 1,
         NEW size, size = N + n - r, NEW old, old = OldPlaces(size, index, r, n)
  PROVE  OldFits(old, N, size, index, r, n)
<1>1. size \in Nat
  OBVIOUS
<1>2. \A i \in 1 .. size : old[i] = OldPlace(i, index, r, n)
  BY DEF OldPlaces
<1>3. \A i \in 1 .. size : OldPlace(i, index, r, n) \in 0 .. N
  BY DEF OldPlace
<1>4. old \in [1 .. size -> 0 .. N]
  BY <1>3 DEF OldPlaces
<1>5. \A i, j \in 1 .. size : i < j /\ old[i] # 0 /\ old[j] # 0 => old[i] < old[j]
  <2>1. \A i, j \in 1 .. size : i < j /\ OldPlace(i, index, r, n) # 0 /\ OldPlace(j, index, r, n) # 0 =>
           OldPlace(i, index, r, n) < OldPlace(j, index, r, n)
    BY DEF OldPlace
  <2> QED
    BY <1>2, <2>1
<1>6. ASSUME NEW o \in 1 .. N, r = 1 => o # index  PROVE \E i \in 1 .. size : old[i] = o
  <2>1. CASE o < index
    <3>1. o \in 1 .. size /\ OldPlace(o, index, r, n) = o
      BY <2>1 DEF OldPlace
    <3> QED
      BY <1>2, <3>1
  <2>2. CASE o >= index
    <3>1. PICK i : i = o + n - r
      OBVIOUS
    <3>2. i \in 1 .. size /\ OldPlace(i, index, r, n) = o
      <4>1. CASE r = 0
        BY <2>2, <3>1, <4>1 DEF OldPlace
      <4>2. CASE r = 1
        BY <1>6, <2>2, <3>1, <4>2 DEF OldPlace
      <4> QED
        BY <4>1, <4>2
    <3> QED
      BY <1>2, <3>2
  <2> QED
    BY <2>1, <2>2
<1>7. \A i \in 1 .. size : old[i] = 0 <=> i >= index /\ i < index + n
  <2>1. \A i \in 1 .. size : OldPlace(i, index, r, n) = 0 <=> i >= index /\ i < index + n
    BY DEF OldPlace
  <2> QED
    BY <1>2, <2>1
<1>8. \A i \in 1 .. size : old[i] # 0 => old[i] \in 1 .. N /\ (r = 1 => old[i] # index)
  <2>1. \A i \in 1 .. size : r = 1 => OldPlace(i, index, r, n) # index
    BY DEF OldPlace
  <2> QED
    BY <1>2, <1>3, <2>1
<1> QED
  BY <1>1, <1>2, <1>4, <1>5, <1>6, <1>7, <1>8 DEF OldFits

(* x is s, but for arguments, and s is c with rep spliced in. *)
SplicedInto(x, c, s, rep, index, r, n, old, g) ==
  /\ Carried(x, c, old, g)
  /\ Len(x) = Len(c) + n - r /\ Len(s) = Len(x) /\ Len(x) \in Nat /\ Len(c) \in Nat
  /\ \A i \in 1 .. Len(x) : SameKind(x, c, old, i) <=> old[i] # 0
  /\ \A i \in 1 .. Len(x) : old[i] # 0 => s[i] = c[old[i]]
  /\ \A i \in 1 .. Len(x) : old[i] = 0 =>
       /\ i >= index /\ i < index + n /\ i - index + 1 \in 1 .. n /\ s[i] = rep[i - index + 1]
       /\ x[i].id = rep[i - index + 1].id /\ x[i].kind = rep[i - index + 1].kind
       /\ Len(x[i].args) = Len(rep[i - index + 1].args)

(* Splice carries commands to where OldPlaces says. *)
LEMMA SplicedCarried ==
  ASSUME NEW c \in Seq(CommandType), NEW s \in Seq(CommandType), NEW x \in Seq(CommandType), NEW rep,
         NEW r \in {0, 1}, NEW n \in Nat, NEW index \in 1 .. Len(c) + 1, index + r <= Len(c) + 1,
         Spliced(s, c, index, r, n, rep), SameButArgs(x, s),
         NEW old, old = OldPlaces(Len(x), index, r, n), NEW g, g = IF r = 1 THEN index ELSE 0
  PROVE  SplicedInto(x, c, s, rep, index, r, n, old, g)
<1>1. Len(c) \in Nat /\ Len(x) = Len(c) + n - r /\ Len(s) = Len(x)
  BY CommandParts DEF Spliced, SameButArgs
<1>2. PICK N : N = Len(c)
  OBVIOUS
<1>3. PICK size : size = Len(x)
  OBVIOUS
<1>4. /\ size \in Nat /\ old \in [1 .. size -> 0 .. N]
      /\ \A i \in 1 .. size : old[i] = OldPlace(i, index, r, n)
      /\ \A i, j \in 1 .. size : i < j /\ old[i] # 0 /\ old[j] # 0 => old[i] < old[j]
      /\ \A o \in 1 .. N : (r = 1 => o # index) => \E i \in 1 .. size : old[i] = o
      /\ \A i \in 1 .. size : old[i] # 0 => old[i] \in 1 .. N /\ (r = 1 => old[i] # index)
      /\ \A i \in 1 .. size : old[i] = 0 <=> i >= index /\ i < index + n
  <2>1. N \in Nat /\ index \in 1 .. N + 1 /\ index + r <= N + 1 /\ size = N + n - r /\ old = OldPlaces(size, index, r, n)
    BY <1>1, <1>2, <1>3
  <2>2. OldFits(old, N, size, index, r, n)
    BY <2>1, OldParts
  <2> QED
    BY <2>2 DEF OldFits
<1>5. ASSUME NEW i \in 1 .. size, old[i] # 0  PROVE s[i] = c[old[i]]
  <2>1. i \in 1 .. Len(s) /\ old[i] = OldPlace(i, index, r, n) /\ ~(i >= index /\ i < index + n)
    BY <1>1, <1>3, <1>4, <1>5
  <2>2. CASE i < index
    BY <2>1, <2>2 DEF OldPlace, Spliced
  <2>3. CASE i >= index + n
    <3>1. s[i] = c[i - n + r]
      BY <2>1, <2>3 DEF Spliced
    <3> QED
      BY <2>1, <2>3, <3>1 DEF OldPlace
  <2> QED
    BY <2>1, <2>2, <2>3
<1>6. \A i \in 1 .. size : x[i].id = s[i].id /\ x[i].kind = s[i].kind /\ Len(x[i].args) = Len(s[i].args)
  BY <1>1, <1>3 DEF SameButArgs
<1>7. ASSUME NEW i \in 1 .. size, old[i] = 0
      PROVE  i >= index /\ i < index + n /\ i - index + 1 \in 1 .. n /\ s[i] = rep[i - index + 1]
  BY <1>1, <1>3, <1>4, <1>7 DEF Spliced
<1>8. g # 0 => r = 1 /\ g = index
  BY <1>1
<1>9. Carried(x, c, old, g)
  <2>1. \A o \in 1 .. Len(c) : o # g => \E i \in 1 .. Len(x) : old[i] = o
    BY <1>2, <1>3, <1>4
  <2>2. \A i \in 1 .. Len(x) : old[i] # 0 => old[i] # g
    BY <1>2, <1>3, <1>4, <1>8
  <2> QED
    BY <1>2, <1>3, <1>4, <1>5, <1>6, <2>1, <2>2 DEF Carried
<1> QED
  BY SMTT(30), <1>1, <1>3, <1>4, <1>5, <1>6, <1>7, <1>9 DEF SameKind, SplicedInto

(* It does. *)
LEMMA MovedIs ==
  ASSUME NEW arg \in ArgType, NEW i \in Nat, NEW index \in Nat, index > 0, NEW n \in Nat,
         NEW result \in {Same} \cup ResultType, NEW new, new = Moved(arg, i, index, n, result)
  PROVE  MovedTo(arg, i, index, n, result, new)
BY MovedParts

(* A reference that ReplaceCommand renumbers follows its command. *)
LEMMA MovedFollows ==
  ASSUME NEW c \in Seq(CommandType), NEW x \in Seq(CommandType), NEW n \in Nat,
         NEW index \in 1 .. Len(c), Len(x) = Len(c) + n - 1,
         NEW old, old = OldPlaces(Len(x), index, 1, n),
         NEW result \in ResultType, result.at \in 1 .. Len(x), result.at < index + n,
         NEW q, x[result.at].id = q,
         NEW i \in 1 .. Len(x), old[i] # 0, NEW a \in ArgType, NEW new, new = Moved(a, i, index, n, result)
  PROVE  Follows(new, a, i, x, c, old, index, q)
<1>1. Len(c) \in Nat /\ Len(x) \in Nat
  BY CommandParts
<1>2. PICK N : N = Len(c)
  OBVIOUS
<1>3. PICK size : size = Len(x)
  OBVIOUS
<1>4. /\ \A j \in 1 .. size : old[j] = OldPlace(j, index, 1, n)
      /\ \A j \in 1 .. size : old[j] = 0 <=> j >= index /\ j < index + n
  <2>1. N \in Nat /\ index \in 1 .. N + 1 /\ index + 1 <= N + 1 /\ size = N + n - 1 /\ old = OldPlaces(size, index, 1, n) /\ 1 \in {0, 1}
    BY <1>1, <1>2, <1>3
  <2>2. OldFits(old, N, size, index, 1, n)
    BY <1>1, <2>1, OldParts
  <2> QED
    BY <2>2 DEF OldFits
<1>5. /\ new \in ArgType
      /\ i < index + n \/ ~RefersToResult(a) => new = a
      /\ RefersToResult(a) => RefersToResult(new) /\ new.of = a.of
      /\ i >= index + n /\ RefersToResult(a) /\ a.at = index /\ result # Same =>
           new.at = result.at /\ new.kind = result.kind
      /\ i >= index + n /\ RefersToResult(a) /\ a.at > index =>
           new.at = a.at + n - 1 /\ new.kind = a.kind
      /\ i >= index + n /\ RefersToResult(a) /\ a.at < index => new = a
  <2>1. i \in Nat /\ index \in Nat /\ index > 0 /\ result \in {Same} \cup ResultType
    BY <1>1
  <2>2. MovedTo(a, i, index, n, result, new)
    BY <2>1, MovedIs
  <2> QED
    BY <2>2 DEF MovedTo
<1>6. result # Same
  BY DEF ResultType, Same
<1>7. (RefersToResult(a) <=> a.kind \in {"Result", "NestedResult"}) /\ a.at \in Nat
      /\ (RefersToResult(new) <=> new.kind \in {"Result", "NestedResult"})
  BY <1>5, ArgParts
<1>8. CASE ~RefersToResult(a)
  BY <1>5, <1>7, <1>8 DEF Follows
<1>9. CASE RefersToResult(a)
  <2>1. RefersToResult(new) /\ new.of = a.of /\ a.kind # "Input" /\ new.kind # "Input"
    BY <1>5, <1>7, <1>9
  <2>2. ASSUME a.at \in 1 .. Len(c), a.at < old[i]
        PROVE  /\ new.at \in 1 .. Len(x)
               /\ \/ old[new.at] = a.at /\ (a.kind = "NestedResult" => new.kind = "NestedResult")
                  \/ a.at = index /\ new.at < i /\ x[new.at].id = q
    <3>1. CASE i < index
      <4>1. old[i] = i /\ new = a
        BY <1>1, <1>3, <1>4, <1>5, <3>1 DEF OldPlace
      <4>2. a.at \in 1 .. size /\ old[a.at] = a.at
        BY SMTT(30), <1>1, <1>3, <1>4, <2>2, <3>1, <4>1 DEF OldPlace
      <4> QED
        BY <1>3, <4>1, <4>2
    <3>2. CASE i >= index + n
      <4>1. old[i] = i - n + 1
        BY <1>1, <1>3, <1>4, <3>2 DEF OldPlace
      <4>2. CASE a.at < index
        <5>1. new = a
          BY <1>5, <1>9, <3>2, <4>2
        <5>2. a.at \in 1 .. size
          BY <1>1, <1>3, <1>7, <2>2, <3>2, <4>2
        <5>3. old[a.at] = a.at
          BY <1>4, <4>2, <5>2 DEF OldPlace
        <5> QED
          BY <1>3, <5>1, <5>2, <5>3
      <4>3. CASE a.at = index
        <5>1. new.at = result.at /\ new.at < i
          BY <1>1, <1>5, <1>6, <1>9, <3>2, <4>3
        <5> QED
          BY <4>3, <5>1
      <4>4. CASE a.at > index
        <5>1. new.at = a.at + n - 1 /\ new.kind = a.kind
          BY <1>5, <1>9, <3>2, <4>4
        <5>2. PICK m : m = a.at + n - 1
          OBVIOUS
        <5>3. m \in 1 .. size /\ ~(m < index) /\ ~(m < index + n) /\ m - n + 1 = a.at
          <6>1. a.at \in Nat /\ a.at <= Len(c) /\ a.at > index /\ index \in Nat /\ index > 0 /\ Len(x) = Len(c) + n - 1
            BY <1>1, <1>7, <2>2, <4>4
          <6>2. m \in Nat /\ m <= Len(x) /\ m >= index + n /\ m > 0
            BY SMTT(30), <1>1, <5>2, <6>1
          <6>3. ~(m < index) /\ ~(m < index + n)
            BY <6>1, <6>2
          <6>4. m - n + 1 = a.at
            <7>1. PICK v : v = a.at
              OBVIOUS
            <7>2. v \in Nat /\ m = v + n - 1 /\ n \in Nat
              BY <5>2, <6>1, <7>1
            <7>3. m - n + 1 = v
              BY <7>2
            <7> QED
              BY <7>1, <7>3
          <6> QED
            BY <1>1, <1>3, <6>2, <6>3, <6>4
        <5>4. old[m] = a.at
          BY <1>4, <5>3 DEF OldPlace
        <5> QED
          BY <1>3, <5>1, <5>2, <5>3, <5>4
      <4> QED
        BY <1>7, <4>2, <4>3, <4>4
    <3> QED
      BY <1>1, <1>3, <1>4, <3>1, <3>2
  <2> QED
    BY <1>9, <2>1, <2>2 DEF Follows
<1> QED
  BY <1>8, <1>9

(***************************************************************************)
(* Plugins                                                                 *)
(***************************************************************************)

(* A command is what it was made of. *)
LEMMA CommandIs ==
  ASSUME NEW x \in Name, NEW k \in Kinds, NEW a \in Seq(ArgType), NEW c, c = Command(x, k, a)
  PROVE  c \in CommandType /\ c.id = x /\ c.kind = k /\ c.args = a
BY Constructed

(* A reference to a command that stays where it is fits. *)
LEMMA KeptResult ==
  ASSUME NEW c \in Seq(CommandType), NEW x \in Seq(CommandType), NEW T, KindsIn(c, T),
         NEW S, S \in [DOMAIN S -> Name], NEW S2, NEW g, NEW q, Gives(c, S, S2, g, q),
         NEW o, NEW i, NEW a \in ArgType, RefersToResult(a), ResultFits(c, T, S, o, a), a.at # g,
         a.at \in 1 .. Len(x), x[a.at].id = c[a.at].id, c[a.at].id \notin T, a.at < i
  PROVE  ResultFits(x, T, S2, i, a)
<1>1. PICK y, m : y = a.of /\ m = a.at
  OBVIOUS
<1>2. y \in Name /\ MeaningIn(S, y) \in Name /\ m \in 1 .. Len(c)
  BY <1>1, ArgParts DEF MeaningIn, ResultFits, PointsIn
<1>3. CASE c[m].id = MeaningIn(S, y)
  <2>1. m # g
    BY <1>1
  <2>2. MeaningIn(S2, y) = c[m].id
    BY <1>2, <1>3, <2>1, GivesMeaning
  <2> QED
    BY <1>1, <2>2 DEF ResultFits, PointsIn
<1>4. CASE c[m].id = Append(MeaningIn(S, y), 0) /\ a.kind = "NestedResult"
  <2>1. MeaningIn(S2, y) = MeaningIn(S, y)
    BY <1>2, <1>4, MergeMeaning
  <2> QED
    BY <1>1, <1>4, <2>1 DEF ResultFits
<1> QED
  BY <1>1, <1>3, <1>4 DEF ResultFits, PointsIn

(* Inputs that do not change. *)
LEMMA InputsSame ==
  ASSUME NEW x \in Seq(InputType)
  PROVE  InputsGrow(x, x)
BY InputParts DEF InputsGrow

(* A command that is not named twice, and what takes its place.            *)
LEMMA TakenIsGiven ==
  ASSUME BuilderInv, phase \in {"resolving", "resolved"}, NEW index \in 1 .. Size, NEW q,
         KindAt(index) \in {"call"} \cup Intents, KindAt(index) = "call" => NameAt(index) \notin late,
         TakesThePlaceOf(q, NameAt(index)), q \in Name, q \notin Known
  PROVE  /\ Gives(data.commands, standsFor, standsFor', index, q)
         /\ standsFor' \in [Replaced' -> Name] /\ Replaced' = Replaced \cup {NameAt(index)}
         /\ \A y \in Replaced' : standsFor'[y] = q \/ (y \in Replaced /\ standsFor'[y] = standsFor[y])
         /\ NameAt(index) \notin Thunks
<1>1. /\ InData \cap Thunks = {} /\ ReplacedGone /\ Twins /\ standsFor \in [Replaced -> Name] /\ NameAt(index) \in InData
  BY SettledFits, NameAtParts DEF BuilderInv, Settled
<1>2. NameAt(index) \notin Thunks /\ NameAt(index) \notin Replaced
  BY <1>1 DEF ReplacedGone, GoneIn, InData, Replaced
<1>3. q \notin Replaced /\ q # NameAt(index)
  BY <1>1 DEF Known, Mentioned
<1>4. ASSUME NEW o \in 1 .. Size, NameAt(o) = NameAt(index), o # index  PROVE FALSE
  BY <1>1, <1>4 DEF Twins, TwinsIn, Size, NameAt, KindAt, Intents
<1>5. PICK z : z = NameAt(index)
  OBVIOUS
<1>6. Taken(standsFor, standsFor', z, q) /\ standsFor' \in [Replaced' -> Name] /\ Replaced' = Replaced \cup {z}
      /\ \A y \in Replaced' : standsFor'[y] = q \/ (y \in Replaced /\ standsFor'[y] = standsFor[y])
  BY <1>1, <1>2, <1>3, <1>5, TakesIsTaken
<1> QED
  BY <1>2, <1>4, <1>5, <1>6 DEF Gives, Size, NameAt, KindAt

(* What the plugins' changes have in common.                               *)
LEMMA PluginRewrites ==
  ASSUME BuilderInv, Plugs, NEW p, NEW q, p = PluginName(1), q = PluginName(2),
         DataFits(data', Thunks, standsFor', refused, late), InData' \subseteq InData \cup {p, q}, Size <= Size',
         standsFor' \in [Replaced' -> Name], Replaced' \cap Thunks \subseteq Replaced, Replaced' \subseteq Replaced \cup InData \cup {q},
         \A y \in Replaced' : standsFor'[y] = q \/ (y \in Replaced /\ standsFor'[y] = standsFor[y]),
         \A y \in Replaced' \ Replaced : Last(y) # 0
  PROVE  BuilderInv'
<1>1. /\ BuilderTypes /\ NamesKnown /\ special \in Nat /\ phase \in {"resolving", "resolved"} /\ Special(1)
      /\ handles' = [t \in {} |-> 0] /\ UNCHANGED <<section, available, running, thunks, phase, count, prepares, refused, late>>
  BY DEF BuilderInv, BuilderTypes, Plugs, HandlesLeftBehind
<1>2. special' \in Nat /\ special <= special'
  <2>1. 1 \in Nat
    OBVIOUS
  <2> QED
    BY <1>1, <2>1, SpecialCounts
<1>3. \A x \in {p, q} : x \in Name /\ x # <<>> /\ Made(x) /\ (x[1] = 0 => Len(x) > 1 /\ x[2] <= special') /\ Last(x) # 0
  <2>1. 1 \in {1, 2} /\ 2 \in {1, 2}
    OBVIOUS
  <2>2. p \in Name /\ p # <<>> /\ Last(p) = 1 /\ Made(p) /\ Len(p) > 1 /\ p[2] <= special'
    BY <1>1, <2>1, PluginNames
  <2>3. q \in Name /\ q # <<>> /\ Last(q) = 2 /\ Made(q) /\ Len(q) > 1 /\ q[2] <= special'
    BY <1>1, <2>1, PluginNames
  <2> QED
    BY <2>2, <2>3
<1>4. PICK Y : Y = (Replaced' \ Replaced) \cup {q}
  OBVIOUS
<1>5. PICK X : X = {p, q} \cup Y
  OBVIOUS
<1>6. \A x \in X : x \in Name /\ x # <<>> /\ Made(x) /\ (x[1] = 0 => Len(x) > 1 /\ x[2] <= special')
  <2> SUFFICES ASSUME NEW x \in InData  PROVE x \in Name /\ x # <<>> /\ Made(x) /\ (x[1] = 0 => Len(x) > 1 /\ x[2] <= special')
    BY <1>3, <1>4, <1>5
  <2>1. x \in Known
    BY DEF Known
  <2>2. x \in Name /\ x # <<>> /\ Made(x) /\ (x[1] = 0 => Len(x) > 1 /\ x[2] <= special)
    BY <1>1, <2>1 DEF NamesKnown
  <2>3. x[1] = 0 => x[2] \in Nat
    <3>1. Len(x) \in Nat /\ \A j \in 1 .. Len(x) : x[j] \in Nat
      BY <2>2, NameParts
    <3>2. x[1] = 0 => 2 \in 1 .. Len(x)
      BY <2>2, <3>1
    <3> QED
      BY <3>1, <3>2
  <2> QED
    BY <1>1, <1>2, <2>2, <2>3
<1>7. Mentioned' \subseteq Mentioned \cup Y
  <2>1. Thunks' = Thunks /\ DOMAIN handles' = {} /\ refused' = refused
    BY <1>1 DEF Thunks
  <2>2. \A y \in Replaced' : standsFor'[y] \in Mentioned \cup Y
    BY <1>4 DEF Mentioned
  <2>3. \A t \in Thunks : thunks'[t].result \in Mentioned
    BY <1>1 DEF Mentioned
  <2>4. Replaced' \subseteq Mentioned \cup Y
    BY <1>4 DEF Mentioned
  <2>5. Mentioned' = Thunks' \cup DOMAIN handles' \cup Replaced' \cup refused'
               \cup {standsFor'[x] : x \in Replaced'} \cup {thunks'[t].result : t \in Thunks'}
    BY DEF Mentioned
  <2>6. Thunks \cup refused \subseteq Mentioned
    BY DEF Mentioned
  <2> QED
    BY <2>1, <2>2, <2>3, <2>4, <2>5, <2>6
<1>8. handles' \in [DOMAIN handles' -> Nat] /\ DOMAIN handles' = {}
  BY <1>1
<1>9. Rewrites(X, Y)
  BY <1>1, <1>2, <1>3, <1>4, <1>5, <1>6, <1>7, <1>8 DEF Rewrites
<1> QED
  BY <1>1, <1>9, RewriteKeeps

(* replaceCommand with two commands rewrites the data. *)
LEMMA ReplacesCommandRewrites ==
  ASSUME BuilderInv, NEW index \in 1 .. Size, NEW given \in PluginResults(index),
         PluginReplacesCommand(index, given), astray' = {}, NEW p, NEW q, p = PluginName(1), q = PluginName(2)
  PROVE  /\ \E old : Rewritten(data', data, old, {p, q}, standsFor, standsFor', Thunks, refused, index, q)
         /\ Size <= Size'
<1> DEFINE c == data.commands
           z == NameAt(index)
<1>1. /\ BuilderTypes /\ NamesKnown /\ phase \in {"resolving", "resolved"} /\ Special(1) /\ Plugs
      /\ KindAt(index) = "call" /\ z \notin late /\ z \notin refused /\ TakesThePlaceOf(q, z)
      /\ c \in Seq(CommandType) /\ Len(c) = Size /\ Size \in Nat /\ data \in DataType /\ index \in Nat /\ index > 0
  BY DataParts DEF BuilderInv, BuilderTypes, PluginReplacesCommand, Plugs, NameAt, KindAt, Size
<1>2. /\ DataFits(data, Thunks, standsFor, refused, late) /\ standsFor \in [Replaced -> Name]
      /\ KindsIn(c, Thunks) /\ NamesIn(c) \cap Thunks = {} /\ ArgsFitIn(data, Thunks, standsFor, refused) /\ ApartIn(data.inputs)
  BY <1>1, SettledFits DEF DataFits
<1>3. p \in Name /\ q \in Name /\ Last(p) = 1 /\ Last(q) = 2 /\ ~User(p) /\ ~User(q) /\ p \notin Known /\ q \notin Known
  <2>1. 1 \in {1, 2} /\ 2 \in {1, 2}
    OBVIOUS
  <2>2. p \in Name /\ Last(p) = 1 /\ ~User(p) /\ p \notin Known
    BY <1>1, <2>1, PluginNames
  <2>3. q \in Name /\ Last(q) = 2 /\ ~User(q) /\ q \notin Known
    BY <1>1, <2>1, PluginNames
  <2> QED
    BY <2>2, <2>3
<1>4. p # q /\ {p, q} \cap (NamesIn(c) \cup Thunks \cup DOMAIN standsFor) = {} /\ q \notin refused
  BY <1>3 DEF Known, Mentioned, InData, Replaced
<1>5. Gives(c, standsFor, standsFor', index, q) /\ z \notin Thunks
  BY <1>1, <1>3, TakenIsGiven
<1>6. PICK empty, call, args : empty = <<>> /\ call = "call" /\ args = ArgsAt(index)
  OBVIOUS
<1>7. empty \in Seq(ArgType) /\ call \in Kinds /\ args \in Seq(ArgType) /\ Len(empty) = 0
  <2>1. <<>> \in Seq(ArgType)
    OBVIOUS
  <2>2. args \in Seq(ArgType)
    BY <1>1, <1>6, NameAtParts
  <2> QED
    BY <1>6, <2>1, <2>2 DEF Kinds
<1>8. PICK c1, c2 : c1 = Command(p, call, empty) /\ c2 = Command(q, call, args)
  OBVIOUS
<1>9. /\ c1 \in CommandType /\ c1.id = p /\ c1.kind = "call" /\ c1.args = <<>>
      /\ c2 \in CommandType /\ c2.id = q /\ c2.kind = "call" /\ c2.args = args
  <2>1. c1 \in CommandType /\ c1.id = p /\ c1.kind = call /\ c1.args = empty
    <3>1. p \in Name /\ empty \in Seq(ArgType) /\ call \in Kinds
      BY <1>3, <1>7
    <3>2. c1 = Command(p, call, empty)
      BY <1>8
    <3> QED
      BY <3>1, <3>2, CommandIs
  <2>2. c2 \in CommandType /\ c2.id = q /\ c2.kind = call /\ c2.args = args
    BY <1>3, <1>7, <1>8, CommandIs
  <2> QED
    BY <1>6, <2>1, <2>2
<1>10. PICK rep : rep = <<c1, c2>>
  OBVIOUS
<1>11. rep \in Seq(CommandType) /\ Len(rep) = 2 /\ rep[1] = c1 /\ rep[2] = c2
  BY <1>9, <1>10
<1>12. PICK m, result : m = index + 1 /\ result = Result(m, q)
  OBVIOUS
<1>12a. given = result
  <2>1. ~GoesAstray(z)
    BY DEF GoesAstray
  <2>2. given.kind # "Number"
    BY <2>1 DEF PluginReplacesCommand, NameAt
  <2> QED
    BY <1>12, <2>2 DEF PluginResults, Number
<1>13. m \in Nat /\ result \in ResultType /\ result.at = m
  <2>1. m \in Nat
    BY <1>1, <1>12
  <2> QED
    BY <1>3, <1>12, <2>1, Constructed
<1>14. PICK x : x = ReplaceCommand(c, index, rep, result)
  OBVIOUS
<1>15. data' = [data EXCEPT !.commands = x]
  BY <1>6, <1>8, <1>10, <1>12a, <1>14 DEF PluginReplacesCommand, ArgsAt
<1>16. x \in Seq(CommandType) /\ Replaced1(x, c, index, rep, result)
  <2>1. result = GivenResult(result, index)
    BY <1>13, GivenOther
  <2> QED
    BY <1>1, <1>11, <1>13, <1>14, <2>1, ReplacePlaces
<1>17. data' \in DataType /\ data'.commands = x /\ data'.inputs = data.inputs
  BY <1>1, <1>15, <1>16 DEF DataType
<1>18. PICK s \in Seq(CommandType) :
         /\ Spliced(s, c, index, 1, 2, rep) /\ SameButArgs(x, s)
         /\ \A i \in 1 .. Len(s) : \A k \in 1 .. Len(s[i].args) :
              x[i].args[k] = Moved(s[i].args[k], i, index, 2, result)
  BY <1>11, <1>16 DEF Replaced1
<1>19. PICK old : old = OldPlaces(Len(x), index, 1, 2)
  OBVIOUS
<1>20. /\ Carried(x, c, old, index)
       /\ Len(x) = Len(c) + 2 - 1 /\ Len(s) = Len(x) /\ Len(x) \in Nat /\ Len(c) \in Nat
       /\ \A i \in 1 .. Len(x) : SameKind(x, c, old, i) <=> old[i] # 0
       /\ \A i \in 1 .. Len(x) : old[i] # 0 => s[i] = c[old[i]]
       /\ \A i \in 1 .. Len(x) : old[i] = 0 =>
            /\ i >= index /\ i < index + 2 /\ i - index + 1 \in 1 .. 2 /\ s[i] = rep[i - index + 1]
            /\ x[i].id = rep[i - index + 1].id /\ x[i].kind = rep[i - index + 1].kind
            /\ Len(x[i].args) = Len(rep[i - index + 1].args)
  <2>1. index \in 1 .. Len(c) + 1 /\ index + 1 <= Len(c) + 1 /\ 1 \in {0, 1} /\ 2 \in Nat
    BY <1>1
  <2>2. PICK g : g = IF 1 = 1 THEN index ELSE 0
    OBVIOUS
  <2>3. g = index
    BY <2>2
  <2>4. SplicedInto(x, c, s, rep, index, 1, 2, old, g)
    BY <1>1, <1>16, <1>18, <1>19, <2>1, <2>2, SplicedCarried
  <2> QED
    BY <2>3, <2>4 DEF SplicedInto
<1>21. /\ \A i \in 1 .. Len(x) : old[i] = 0 => i = index \/ i = m
       /\ index \in 1 .. Len(x) /\ m \in 1 .. Len(x) /\ old[index] = 0 /\ old[m] = 0
       /\ x[index].id = p /\ x[index].kind = "call" /\ Len(x[index].args) = 0
       /\ x[m].id = q /\ x[m].kind = "call" /\ s[m] = c2 /\ Len(x[m].args) = Len(args)
  <2>1. \A i \in 1 .. Len(x) : old[i] = 0 => i = index \/ i = m
    BY <1>1, <1>12, <1>20
  <2>2. index \in 1 .. Len(x) /\ m \in 1 .. Len(x)
    BY <1>1, <1>12, <1>20
  <2>3. old[index] = 0 /\ old[m] = 0
    BY <1>1, <1>12, <1>19, <2>2 DEF OldPlaces, OldPlace
  <2>4. index - index + 1 = 1 /\ m - index + 1 = 2
    BY <1>1, <1>12
  <2>5. x[index].id = p /\ x[index].kind = "call" /\ Len(x[index].args) = 0
    <3>1. x[index].id = rep[1].id /\ x[index].kind = rep[1].kind /\ Len(x[index].args) = Len(rep[1].args)
      BY <1>20, <2>2, <2>3, <2>4
    <3> QED
      BY <1>9, <1>11, <3>1
  <2>6. x[m].id = q /\ x[m].kind = "call" /\ s[m] = c2 /\ Len(x[m].args) = Len(args)
    <3>1. x[m].id = rep[2].id /\ x[m].kind = rep[2].kind /\ Len(x[m].args) = Len(rep[2].args) /\ s[m] = rep[2]
      BY <1>20, <2>2, <2>3, <2>4
    <3> QED
      BY <1>9, <1>11, <3>1
  <2> QED
    BY <2>1, <2>2, <2>3, <2>5, <2>6
<1>22. Created(x, c, old, {p, q})
  <2> SUFFICES ASSUME NEW i \in 1 .. Len(x), old[i] = 0
               PROVE  /\ x[i].id \in {p, q} /\ ~User(x[i].id)
                      /\ \A j \in 1 .. Len(x) : x[j].id = x[i].id => j = i
                      /\ x[i].kind = "call" /\ Last(x[i].id) # 0
    BY DEF Created
  <2>1. i = index \/ i = m
    BY <1>21
  <2>2. ASSUME NEW j \in 1 .. Len(x), x[j].id = x[i].id  PROVE j = i
    <3>1. old[j] = 0
      <4>1. old[j] # 0 => x[j].id = c[old[j]].id /\ old[j] \in 1 .. Len(c)
        BY <1>20 DEF Carried
      <4> QED
        BY <1>4, <1>21, <2>1, <2>2, <4>1 DEF NamesIn
    <3>2. j = index \/ j = m
      BY <1>21, <3>1
    <3> QED
      BY <1>4, <1>21, <2>1, <2>2, <3>2
  <2> QED
    BY <1>3, <1>21, <2>1, <2>2
<1>23. ASSUME NEW i \in 1 .. Len(x), SameKind(x, c, old, i), NEW k \in 1 .. Len(x[i].args)
       PROVE  Follows(x[i].args[k], c[old[i]].args[k], i, x, c, old, index, q)
  <2>1. old[i] # 0 /\ old[i] \in 1 .. Len(c) /\ k \in 1 .. Len(c[old[i]].args) /\ s[i] = c[old[i]]
    BY <1>20, <1>23 DEF SameKind, Carried
  <2>2. PICK a : a = c[old[i]].args[k]
    OBVIOUS
  <2>3. a \in ArgType
    BY <1>1, <2>1, <2>2, CommandParts
  <2>4. x[i].args[k] = Moved(a, i, index, 2, result)
    BY SMTT(30), <1>18, <1>20, <2>1, <2>2
  <2>5. result.at \in 1 .. Len(x) /\ result.at < index + 2 /\ x[result.at].id = q /\ 2 \in Nat /\ index \in 1 .. Len(c)
    BY <1>1, <1>12, <1>13, <1>21
  <2>6. PICK b : b = x[i].args[k]
    OBVIOUS
  <2>7. b = Moved(a, i, index, 2, result)
    BY <2>4, <2>6
  <2>8. Follows(b, a, i, x, c, old, index, q)
    BY <1>1, <1>13, <1>16, <1>19, <1>20, <2>1, <2>3, <2>5, <2>7, MovedFollows
  <2> QED
    BY <2>2, <2>6, <2>8
<1>24. ASSUME NEW i \in 1 .. Len(x), ~SameKind(x, c, old, i), NEW k \in 1 .. Len(x[i].args)
       PROVE  ArgFits(data', Thunks, standsFor', refused, i, x[i].args[k])
  <2>1. i = m
    BY SMTT(30), <1>20, <1>21, <1>24
  <2>2. k \in 1 .. Len(args) /\ s[m].args = args
    BY <1>9, <1>21, <2>1
  <2>3. PICK a : a = args[k]
    OBVIOUS
  <2>4. a \in ArgType
    BY <1>7, <2>2, <2>3
  <2>5. x[i].args[k] = a
    <3>1. x[i].args[k] = Moved(a, i, index, 2, result)
      BY <1>18, <1>20, <1>21, <2>1, <2>2, <2>3
    <3>2. i < index + 2
      BY <1>1, <1>12, <2>1
    <3> QED
      BY <3>1, <3>2 DEF Moved
  <2>6. ArgFits(data, Thunks, standsFor, refused, index, a)
    BY <1>1, <1>2, <1>6, <2>2, <2>3 DEF ArgsFitIn, ArgFits, ArgsAt, Size
  <2>7. ASSUME RefersToResult(a)  PROVE ResultFits(x, Thunks, standsFor', i, a)
    <3>1. ResultFits(c, Thunks, standsFor, index, a)
      BY <1>1, <2>6, <2>7 DEF ArgFits, NameAt
    <3>2. a.at \in 1 .. Len(c) /\ a.at < index
      BY <3>1 DEF ResultFits, PointsIn
    <3>3. PICK o : o = a.at
      OBVIOUS
    <3>4. o \in 1 .. Len(x) /\ old[o] = o /\ o < i /\ o # index /\ o # 0
      <4>1. o \in 1 .. Len(x) /\ o < i /\ o # index /\ o < index /\ o # 0
        BY <1>1, <1>12, <1>20, <2>1, <3>2, <3>3
      <4> QED
        BY <1>19, <4>1 DEF OldPlaces, OldPlace
    <3>5. x[o].id = c[o].id
      BY <1>20, <3>4 DEF Carried
    <3>6. c[o].id \notin Thunks
      BY <1>2, <3>2, <3>3 DEF NamesIn
    <3> QED
      BY <1>1, <1>2, <1>5, <1>16, <2>4, <2>7, <3>1, <3>3, <3>4, <3>5, <3>6, KeptResult DEF Replaced
  <2>8. ASSUME a.kind = "Input"  PROVE ObjectFits(data'.inputs, a)
    BY <1>17, <2>6, <2>8 DEF ArgFits
  <2>9. x[i].id \notin refused
    BY <1>4, <1>21, <2>1
  <2> QED
    BY <1>17, <2>5, <2>7, <2>8, <2>9 DEF ArgFits
<1>25. InputsGrow(data'.inputs, data.inputs) /\ ApartIn(data'.inputs)
  BY <1>1, <1>2, <1>17, DataParts, InputsSame
<1>26. Size <= Size'
  BY <1>1, <1>17, <1>20 DEF Size
<1> QED
  BY <1>4, <1>5, <1>17, <1>20, <1>22, <1>23, <1>24, <1>25, <1>26 DEF Rewritten

(* A plugin replaces a command. *)
LEMMA ReplacesCommandKeeps ==
  ASSUME BuilderInv, NEW index \in 1 .. Size, NEW given \in PluginResults(index),
         PluginReplacesCommand(index, given), astray' = {}
  PROVE  BuilderInv'
<1>1. PICK p, q : p = PluginName(1) /\ q = PluginName(2)
  OBVIOUS
<1>2. PICK old : Rewritten(data', data, old, {p, q}, standsFor, standsFor', Thunks, refused, index, q)
  BY <1>1, ReplacesCommandRewrites
<1>3. Size <= Size'
  BY <1>1, ReplacesCommandRewrites
<1>4. /\ BuilderTypes /\ NamesKnown /\ phase \in {"resolving", "resolved"} /\ Special(1) /\ Plugs
      /\ KindAt(index) = "call" /\ NameAt(index) \notin late /\ TakesThePlaceOf(q, NameAt(index))
  BY <1>1 DEF BuilderInv, PluginReplacesCommand, Plugs, NameAt, KindAt
<1>5. DataFits(data, Thunks, standsFor, refused, late) /\ standsFor \in [DOMAIN standsFor -> Name]
  BY <1>4, SettledFits DEF Replaced
<1>6. DataFits(data', Thunks, standsFor', refused, late) /\ InData' \subseteq InData \cup {p, q}
  BY <1>2, <1>5, RewrittenFits DEF InData
<1>7. q \in Name /\ q \notin Known /\ Last(q) # 0
  <2>1. 2 \in {1, 2}
    OBVIOUS
  <2>2. q \in Name /\ q \notin Known /\ Last(q) = 2
    BY <1>1, <1>4, <2>1, PluginNames
  <2> QED
    BY <2>2
<1>8. /\ standsFor' \in [Replaced' -> Name] /\ Replaced' = Replaced \cup {NameAt(index)} /\ NameAt(index) \notin Thunks
      /\ \A y \in Replaced' : standsFor'[y] = q \/ (y \in Replaced /\ standsFor'[y] = standsFor[y])
  BY <1>4, <1>7, TakenIsGiven
<1>9. NameAt(index) \in InData /\ Last(NameAt(index)) # 0
  <2>1. NameAt(index) \in InData
    BY <1>4, NameAtParts
  <2>2. KindsNamed
    BY DEF BuilderInv
  <2> QED
    BY <1>4, <2>1, <2>2 DEF KindsNamed, KindsIn, NameAt, KindAt, Size
<1> QED
  BY <1>1, <1>3, <1>4, <1>6, <1>8, <1>9, PluginRewrites

(* How InsertTransaction renumbers, by cases. *)
ShiftedTo(arg, i, at, n, new) ==
  /\ new \in ArgType
  /\ i \in at .. at + n - 1 \/ ~RefersToResult(arg) \/ arg.at < at => new = arg
  /\ RefersToResult(arg) => RefersToResult(new) /\ new.of = arg.of /\ new.kind = arg.kind
  /\ i \notin at .. at + n - 1 /\ RefersToResult(arg) /\ arg.at >= at => new.at = arg.at + n

(* It does. *)
LEMMA ShiftedIs ==
  ASSUME NEW arg \in ArgType, NEW i \in Nat, NEW at \in Nat, NEW n \in Nat,
         NEW new, new = Shifted(arg, i, at, n)
  PROVE  ShiftedTo(arg, i, at, n, new)
<1> DEFINE m == Shifted(arg, i, at, n)
<1>1. /\ m \in ArgType
      /\ i \in at .. at + n - 1 \/ ~RefersToResult(arg) \/ arg.at < at => m = arg
      /\ RefersToResult(arg) => RefersToResult(m) /\ m.of = arg.of /\ m.kind = arg.kind
      /\ i \notin at .. at + n - 1 /\ RefersToResult(arg) /\ arg.at >= at => m.at = arg.at + n
  BY ZenonT(60), ShiftedParts
<1>2. m = new
  OBVIOUS
<1> HIDE DEF m
<1> QED
  BY <1>1, <1>2 DEF ShiftedTo

(* A reference that InsertTransaction renumbers follows its command. *)
LEMMA ShiftedFollows ==
  ASSUME NEW c \in Seq(CommandType), NEW x \in Seq(CommandType), NEW n \in Nat,
         NEW index \in 1 .. Len(c) + 1, Len(x) = Len(c) + n,
         NEW old, old = OldPlaces(Len(x), index, 0, n), NEW q,
         NEW i \in 1 .. Len(x), old[i] # 0, NEW a \in ArgType, NEW new, new = Shifted(a, i, index, n)
  PROVE  Follows(new, a, i, x, c, old, 0, q)
<1>1. Len(c) \in Nat /\ Len(x) \in Nat /\ i \in Nat /\ index \in Nat
  BY CommandParts
<1>2. PICK N : N = Len(c)
  OBVIOUS
<1>3. PICK size : size = Len(x)
  OBVIOUS
<1>4. /\ \A j \in 1 .. size : old[j] = OldPlace(j, index, 0, n)
      /\ \A j \in 1 .. size : old[j] = 0 <=> j >= index /\ j < index + n
  <2>1. N \in Nat /\ index \in 1 .. N + 1 /\ index + 0 <= N + 1 /\ size = N + n - 0 /\ old = OldPlaces(size, index, 0, n) /\ 0 \in {0, 1}
    BY <1>1, <1>2, <1>3
  <2>2. OldFits(old, N, size, index, 0, n)
    BY <1>1, <2>1, OldParts
  <2> QED
    BY <2>2 DEF OldFits
<1>5. ShiftedTo(a, i, index, n, new)
  BY <1>1, ShiftedIs
<1>6. new \in ArgType
  BY <1>5 DEF ShiftedTo
<1>7. (RefersToResult(a) <=> a.kind \in {"Result", "NestedResult"}) /\ a.at \in Nat
      /\ (RefersToResult(new) <=> new.kind \in {"Result", "NestedResult"})
  BY <1>6, ArgParts
<1>8. CASE ~RefersToResult(a)
  BY <1>5, <1>7, <1>8 DEF Follows, ShiftedTo
<1>9. CASE RefersToResult(a)
  <2>1. RefersToResult(new) /\ new.of = a.of /\ a.kind # "Input" /\ new.kind # "Input" /\ new.kind = a.kind
    BY <1>5, <1>7, <1>9 DEF ShiftedTo
  <2>2. ASSUME a.at \in 1 .. Len(c), a.at < old[i]
        PROVE  new.at \in 1 .. Len(x) /\ old[new.at] = a.at
    <3>0. i \notin index .. index + n - 1
      BY <1>1, <1>3, <1>4
    <3>1. PICK v : v = a.at
      OBVIOUS
    <3>2. v \in Nat /\ v <= Len(c) /\ v > 0 /\ v <= size
      BY <1>1, <1>3, <1>7, <2>2, <3>1
    <3>3. CASE v < index
      <4>1. new = a
        BY <1>5, <3>1, <3>3 DEF ShiftedTo
      <4>2. v \in 1 .. size
        BY <1>1, <1>3, <3>2
      <4>3. old[v] = v
        BY <1>4, <3>3, <4>2 DEF OldPlace
      <4> QED
        BY <1>3, <3>1, <4>1, <4>2, <4>3
    <3>4. CASE v >= index
      <4>1. new.at = v + n
        BY <1>5, <1>9, <3>0, <3>1, <3>4 DEF ShiftedTo
      <4>2. PICK m : m = v + n
        OBVIOUS
      <4>3. m \in 1 .. size /\ ~(m < index) /\ ~(m < index + n) /\ m - n + 0 = v
        <5>1. m \in Nat /\ m <= Len(x) /\ m > 0
          BY <1>1, <3>2, <4>2
        <5>2. ~(m < index) /\ ~(m < index + n) /\ m - n + 0 = v
          BY <1>1, <3>2, <3>4, <4>2
        <5> QED
          BY <1>1, <1>3, <5>1, <5>2
      <4>4. old[m] = v
        BY <1>4, <4>3 DEF OldPlace
      <4> QED
        BY <1>3, <3>1, <4>1, <4>2, <4>3, <4>4
    <3> QED
      BY <1>1, <3>2, <3>3, <3>4
  <2> QED
    BY <1>9, <2>1, <2>2 DEF Follows
<1> QED
  BY <1>8, <1>9

(* Two commands are inserted, the second using the first.                  *)
InsertedAt(e, d, at, p, q, old) ==
  /\ Len(e.commands) = Len(d.commands) + 2
  /\ e.commands[at].id = p /\ e.commands[at + 1].id = q
  /\ old = OldPlaces(Len(e.commands), at, 0, 2)
  /\ \A i \in 1 .. Len(e.commands) : old[i] # 0 => old[i] \in 1 .. Len(d.commands) /\ SameKind(e.commands, d.commands, old, i)

(* insertTransaction rewrites the data. *)
LEMMA InsertRewrites ==
  ASSUME NEW d, NEW S, NEW T, NEW R, NEW L, DataFits(d, T, S, R, L), NEW at \in 1 .. Len(d.commands) + 1,
         NEW object \in Objects, NEW p \in Name, NEW q \in Name, p # q,
         {p, q} \cap (NamesIn(d.commands) \cup T \cup DOMAIN S \cup R) = {},
         ~User(p), ~User(q), Last(p) # 0, Last(q) # 0,
         NEW e, e = InsertTransaction(d, at, OtherOf(object, p, q))
  PROVE  \E old : Rewritten(e, d, old, {p, q}, S, S, T, R, 0, q) /\ InsertedAt(e, d, at, p, q, old)
<1> DEFINE c == d.commands
           x == e.commands
<1>1. /\ d \in DataType /\ c \in Seq(CommandType) /\ Len(c) \in Nat /\ at \in Nat /\ at > 0 /\ ApartIn(d.inputs)
      /\ d.inputs \in Seq(InputType) /\ object \in Object /\ NamesIn(c) \cap T = {}
  BY DataParts DEF DataFits, Object
<1>2. e \in DataType /\ Inserted1(d, e, at, object, p, q)
  <2> DEFINE e0 == InsertTransaction(d, at, OtherOf(object, p, q))
  <2>1. e0 \in DataType /\ Inserted1(d, e0, at, object, p, q)
    BY <1>1, InsertPlaces
  <2>2. e0 = e
    OBVIOUS
  <2> HIDE DEF e0
  <2> QED
    BY <2>1, <2>2
<1>3. x \in Seq(CommandType) /\ Len(x) \in Nat
  BY <1>2, DataParts
<1>4. ApartIn(e.inputs) /\ InputsGrow(e.inputs, d.inputs) /\ HasObject(e.inputs, object, TRUE)
  <2>1. TRUE \in BOOLEAN
    OBVIOUS
  <2>2. PICK y : y = WithObject(d.inputs, object, TRUE)
    OBVIOUS
  <2>3. ApartIn(y) /\ InputsGrow(y, d.inputs) /\ HasObject(y, object, TRUE)
    BY <1>1, <2>1, <2>2, WithObjectGrows
  <2>4. y = e.inputs
    BY <1>2, <2>2 DEF Inserted1
  <2> QED
    BY <2>3, <2>4
<1>5. PICK s \in Seq(CommandType), rep \in Seq(CommandType) :
       /\ Len(rep) = 2 /\ rep[1].id = p /\ rep[1].kind = "call" /\ rep[2].id = q /\ rep[2].kind = "call"
       /\ Len(rep[1].args) = 1 /\ Len(rep[2].args) = 1
       /\ rep[1].args[1] = InputArg(InputIndex(e.inputs, object), object, TRUE)
       /\ rep[2].args[1] = Result(at, p)
       /\ Spliced(s, c, at, 0, 2, rep) /\ SameButArgs(x, s)
       /\ \A i \in 1 .. Len(s) : \A k \in 1 .. Len(s[i].args) :
            x[i].args[k] = Shifted(s[i].args[k], i, at, 2)
  BY <1>2 DEF Inserted1
<1>6. PICK old : old = OldPlaces(Len(x), at, 0, 2)
  OBVIOUS
<1>7. /\ Carried(x, c, old, 0)
      /\ Len(x) = Len(c) + 2 /\ Len(s) = Len(x)
      /\ \A i \in 1 .. Len(x) : SameKind(x, c, old, i) <=> old[i] # 0
      /\ \A i \in 1 .. Len(x) : old[i] # 0 => s[i] = c[old[i]]
      /\ \A i \in 1 .. Len(x) : old[i] = 0 =>
           /\ i >= at /\ i < at + 2 /\ s[i] = rep[i - at + 1]
           /\ x[i].id = rep[i - at + 1].id /\ x[i].kind = rep[i - at + 1].kind
           /\ Len(x[i].args) = Len(rep[i - at + 1].args)
  <2>1. at \in 1 .. Len(c) + 1 /\ at + 0 <= Len(c) + 1 /\ 0 \in {0, 1} /\ 2 \in Nat
    BY <1>1
  <2>2. PICK g : g = IF 0 = 1 THEN at ELSE 0
    OBVIOUS
  <2>3. g = 0
    BY <2>2
  <2>4. SplicedInto(x, c, s, rep, at, 0, 2, old, g)
    BY <1>1, <1>3, <1>5, <1>6, <2>1, <2>2, SplicedCarried
  <2>5. Len(x) = Len(c) + 2 - 0
    BY <2>4 DEF SplicedInto
  <2>6. Len(x) = Len(c) + 2
    BY <1>1, <2>5
  <2> QED
    BY <2>3, <2>4, <2>6 DEF SplicedInto
<1>8. PICK m : m = at + 1
  OBVIOUS
<1>9. /\ \A i \in 1 .. Len(x) : old[i] = 0 => i = at \/ i = m
      /\ at \in 1 .. Len(x) /\ m \in 1 .. Len(x) /\ old[at] = 0 /\ old[m] = 0
      /\ at - at + 1 = 1 /\ m - at + 1 = 2 /\ at \in at .. at + 2 - 1 /\ m \in at .. at + 2 - 1 /\ at < m
  <2>1. \A i \in 1 .. Len(x) : old[i] = 0 => i = at \/ i = m
    BY <1>1, <1>7, <1>8
  <2>2. at \in 1 .. Len(x) /\ m \in 1 .. Len(x)
    BY <1>1, <1>7, <1>8
  <2>3. old[at] = 0 /\ old[m] = 0
    BY <1>1, <1>6, <1>8, <2>2 DEF OldPlaces, OldPlace
  <2>4. at - at + 1 = 1 /\ m - at + 1 = 2 /\ at \in at .. at + 2 - 1 /\ m \in at .. at + 2 - 1 /\ at < m
    BY <1>1, <1>8
  <2> QED
    BY <2>1, <2>2, <2>3, <2>4
<1>10. x[at].id = p /\ x[at].kind = "call" /\ Len(x[at].args) = 1 /\ s[at] = rep[1]
  BY SMTT(30), <1>5, <1>7, <1>9
<1>11. x[m].id = q /\ x[m].kind = "call" /\ Len(x[m].args) = 1 /\ s[m] = rep[2]
  <2>1. x[m].id = rep[m - at + 1].id /\ x[m].kind = rep[m - at + 1].kind /\ Len(x[m].args) = Len(rep[m - at + 1].args)
        /\ s[m] = rep[m - at + 1]
    BY <1>7, <1>9
  <2>2. m - at + 1 = 2
    BY <1>9
  <2> QED
    BY <1>5, <2>1, <2>2
<1>11a. \A i \in 1 .. Len(x) : \A k \in 1 .. Len(s[i].args) : x[i].args[k] = Shifted(s[i].args[k], i, at, 2)
  BY SMTT(30), <1>5, <1>7
<1>12. Created(x, c, old, {p, q})
  <2> SUFFICES ASSUME NEW i \in 1 .. Len(x), old[i] = 0
               PROVE  /\ x[i].id \in {p, q} /\ ~User(x[i].id)
                      /\ \A j \in 1 .. Len(x) : x[j].id = x[i].id => j = i
                      /\ x[i].kind = "call" /\ Last(x[i].id) # 0
    BY DEF Created
  <2>1. i = at \/ i = m
    BY <1>9
  <2>2. ASSUME NEW j \in 1 .. Len(x), x[j].id = x[i].id  PROVE j = i
    <3>1. old[j] = 0
      <4>1. old[j] # 0 => x[j].id = c[old[j]].id /\ old[j] \in 1 .. Len(c)
        BY SMTT(30), <1>7 DEF Carried
      <4> QED
        <5>1. x[i].id \notin NamesIn(c)
          BY <1>10, <1>11, <2>1
        <5> QED
          BY <2>2, <4>1, <5>1 DEF NamesIn
    <3>2. j = at \/ j = m
      BY <1>9, <3>1
    <3> QED
      BY <1>10, <1>11, <2>1, <2>2, <3>2
  <2> QED
    BY <1>10, <1>11, <2>1, <2>2
<1>13. ASSUME NEW i \in 1 .. Len(x), SameKind(x, c, old, i), NEW k \in 1 .. Len(x[i].args)
       PROVE  Follows(x[i].args[k], c[old[i]].args[k], i, x, c, old, 0, q)
  <2>1. old[i] # 0 /\ old[i] \in 1 .. Len(c) /\ k \in 1 .. Len(c[old[i]].args) /\ s[i] = c[old[i]]
    <3>1. old[i] # 0 /\ Len(x[i].args) = Len(c[old[i]].args)
      BY <1>13 DEF SameKind
    <3>2. old[i] \in 1 .. Len(c)
      <4>1. Carried(x, c, old, 0)
        BY <1>7
      <4>2. old[i] \in 0 .. Len(c)
        BY <4>1 DEF Carried
      <4>3. Len(c) \in Nat
        BY <1>1
      <4> QED
        BY <3>1, <4>2, <4>3
    <3>3. s[i] = c[old[i]]
      BY <1>7, <3>1
    <3> QED
      BY <1>13, <3>1, <3>2, <3>3
  <2>2. PICK a : a = c[old[i]].args[k]
    OBVIOUS
  <2>3. a \in ArgType
    BY <1>1, <2>1, <2>2, CommandParts
  <2>4. PICK b : b = x[i].args[k]
    OBVIOUS
  <2>5. b = Shifted(a, i, at, 2)
    <3>1. k \in 1 .. Len(s[i].args) /\ s[i].args[k] = a
      BY <2>1, <2>2
    <3> QED
      BY <1>11a, <2>4, <3>1
  <2>6. 2 \in Nat /\ at \in 1 .. Len(c) + 1
    OBVIOUS
  <2>7. Follows(b, a, i, x, c, old, 0, q)
    BY <1>1, <1>3, <1>6, <1>7, <2>1, <2>3, <2>5, <2>6, ShiftedFollows
  <2> QED
    BY <2>2, <2>4, <2>7
<1>14. ASSUME NEW i \in 1 .. Len(x), ~SameKind(x, c, old, i), NEW k \in 1 .. Len(x[i].args)
       PROVE  ArgFits(e, T, S, R, i, x[i].args[k])
  <2>1. i = at \/ i = m
    BY <1>7, <1>9, <1>14
  <2>2. CASE i = at
    <3>1. k = 1 /\ 1 \in 1 .. Len(s[i].args)
      <4>1. Len(x[i].args) = 1
        BY <1>10, <2>2
      <4>2. Len(s[i].args) = 1
        <5>1. Len(rep[1].args) = 1
          BY <1>5
        <5> QED
          BY <1>10, <2>2, <5>1
      <4> QED
        BY <4>1, <4>2
    <3>2. PICK a : a = InputArg(InputIndex(e.inputs, object), object, TRUE)
      OBVIOUS
    <3>3. x[i].args[k] = Shifted(a, i, at, 2) /\ i \in at .. at + 2 - 1
      <4>1. s[i].args[k] = a
        BY <1>5, <1>10, <2>2, <3>1, <3>2
      <4>2. x[i].args[k] = Shifted(s[i].args[k], i, at, 2)
        BY <1>11a, <3>1
      <4> QED
        BY <1>9, <2>2, <4>1, <4>2
    <3>4. x[i].args[k] = a
      BY <3>3 DEF Shifted
    <3>5. a.kind = "Input" /\ ~RefersToResult(a) /\ ObjectFits(e.inputs, a)
      BY <1>4, <3>2 DEF InputArg, RefersToResult, ObjectFits, HasObject
    <3> QED
      BY <1>10, <2>2, <3>4, <3>5 DEF ArgFits
  <2>3. CASE i = m
    <3>1. k = 1 /\ 1 \in 1 .. Len(s[i].args)
      <4>1. Len(x[i].args) = 1
        BY <1>11, <2>3
      <4>2. Len(s[i].args) = 1
        <5>1. Len(rep[2].args) = 1
          BY <1>5
        <5> QED
          BY <1>11, <2>3, <5>1
      <4> QED
        BY <4>1, <4>2
    <3>2. PICK a : a = Result(at, p)
      OBVIOUS
    <3>3. x[i].args[k] = Shifted(a, i, at, 2) /\ i \in at .. at + 2 - 1
      <4>1. s[i].args[k] = a
        BY <1>5, <1>11, <2>3, <3>1, <3>2
      <4>2. x[i].args[k] = Shifted(s[i].args[k], i, at, 2)
        BY <1>11a, <3>1
      <4> QED
        BY <1>9, <2>3, <4>1, <4>2
    <3>4. x[i].args[k] = a
      BY <3>3 DEF Shifted
    <3>5. a.kind = "Result" /\ a.at = at /\ a.of = p
      BY <3>2 DEF Result
    <3>6. ResultFits(x, T, S, i, a)
      BY <1>9, <1>10, <2>3, <3>5 DEF ResultFits, PointsIn, MeaningIn
    <3> QED
      BY <3>4, <3>5, <3>6 DEF ArgFits
  <2> QED
    BY <2>1, <2>2, <2>3
<1>15. Gives(c, S, S, 0, q)
  BY DEF Gives
<1>16. Rewritten(e, d, old, {p, q}, S, S, T, R, 0, q)
  BY <1>2, <1>4, <1>7, <1>12, <1>13, <1>14, <1>15 DEF Rewritten
<1>17. InsertedAt(e, d, at, p, q, old)
  <2>1. \A i \in 1 .. Len(x) : old[i] # 0 => old[i] \in 1 .. Len(c)
    BY SMTT(30), <1>7 DEF Carried
  <2> QED
    BY <1>6, <1>7, <1>8, <1>10, <1>11, <2>1 DEF InsertedAt
<1> QED
  BY <1>16, <1>17

(* What a plugin finds. *)
LEMMA PlugsParts ==
  ASSUME BuilderInv, Plugs, NEW p, NEW q, p = PluginName(1), q = PluginName(2)
  PROVE  /\ phase \in {"resolving", "resolved"} /\ BuilderTypes /\ NamesKnown
         /\ DataFits(data, Thunks, standsFor, refused, late) /\ standsFor \in [Replaced -> Name]
         /\ p \in Name /\ q \in Name /\ p # q /\ ~User(p) /\ ~User(q) /\ Last(p) # 0 /\ Last(q) # 0
         /\ p \notin Known /\ q \notin Known
         /\ {p, q} \cap (NamesIn(data.commands) \cup Thunks \cup DOMAIN standsFor \cup refused) = {}
<1>1. phase \in {"resolving", "resolved"} /\ BuilderTypes /\ NamesKnown /\ Special(1)
  BY DEF BuilderInv, Plugs
<1>2. DataFits(data, Thunks, standsFor, refused, late) /\ standsFor \in [Replaced -> Name]
  BY <1>1, SettledFits
<1>3. 1 \in {1, 2} /\ 2 \in {1, 2}
  OBVIOUS
<1>4. p \in Name /\ Last(p) = 1 /\ ~User(p) /\ p \notin Known
  BY <1>1, <1>3, PluginNames
<1>5. q \in Name /\ Last(q) = 2 /\ ~User(q) /\ q \notin Known
  BY <1>1, <1>3, PluginNames
<1> QED
  BY <1>1, <1>2, <1>4, <1>5 DEF Known, Mentioned, InData, Replaced

(* A plugin inserts a transaction. *)
LEMMA InsertKeeps ==
  ASSUME BuilderInv, NEW at \in 1 .. Size + 1, NEW object \in Objects, PluginInserts(at, object)
  PROVE  BuilderInv'
<1>1. PICK p, q : p = PluginName(1) /\ q = PluginName(2)
  OBVIOUS
<1>2. Plugs /\ data' = InsertTransaction(data, at, OtherOf(object, p, q)) /\ standsFor' = standsFor
  BY <1>1 DEF PluginInserts, Other, OtherOf
<1>3. /\ phase \in {"resolving", "resolved"} /\ BuilderTypes /\ NamesKnown
      /\ DataFits(data, Thunks, standsFor, refused, late) /\ standsFor \in [DOMAIN standsFor -> Name]
      /\ p \in Name /\ q \in Name /\ p # q /\ ~User(p) /\ ~User(q) /\ Last(p) # 0 /\ Last(q) # 0
      /\ p \notin Known /\ q \notin Known
      /\ {p, q} \cap (NamesIn(data.commands) \cup Thunks \cup DOMAIN standsFor \cup refused) = {}
  BY <1>1, <1>2, PlugsParts DEF Replaced
<1>4. PICK e : e = data'
  OBVIOUS
<1>5. PICK old : Rewritten(e, data, old, {p, q}, standsFor, standsFor, Thunks, refused, 0, q)
                 /\ InsertedAt(e, data, at, p, q, old)
  BY <1>2, <1>3, <1>4, InsertRewrites DEF Size
<1>6. DataFits(e, Thunks, standsFor, refused, late) /\ NamesIn(e.commands) \subseteq NamesIn(data.commands) \cup {p, q}
  BY <1>3, <1>5, RewrittenFits
<1>7. DataFits(data', Thunks, standsFor', refused, late) /\ InData' \subseteq InData \cup {p, q}
  BY <1>2, <1>4, <1>6 DEF InData
<1>8. Size <= Size'
  <2>1. Len(data'.commands) = Len(data.commands) + 2
    BY <1>4, <1>5 DEF InsertedAt
  <2>2. Size \in Nat
    BY <1>3, SettledFits
  <2> QED
    BY <2>1, <2>2 DEF Size
<1>9. Replaced' = Replaced /\ standsFor' \in [Replaced' -> Name]
  BY <1>2, <1>3 DEF Replaced
<1> QED
  BY <1>1, <1>2, <1>7, <1>8, <1>9, PluginRewrites

(* The intent at g, of which its author wants the result, gives way to the *)
(* result of the command at m.                                             *)
DroppedFrom(f, d, g, result) == f = [d EXCEPT !.commands = ReplaceCommand(d.commands, g, <<>>, result)]

(* The data are rewritten. *)
RewrittenSomehow(e, d, X, S, S2, T, R, g, q) == \E old : Rewritten(e, d, old, X, S, S2, T, R, g, q)

(* An intent at g whose replacement q was inserted before, at m. *)
Droppable(d, S, S2, T, R, L, g, m, q, result) ==
  /\ DataFits(d, T, S, R, L) /\ S \in [DOMAIN S -> Name]
  /\ g \in 1 .. Len(d.commands) /\ d.commands[g].kind \in Intents
  /\ m \in 1 .. Len(d.commands) /\ m < g /\ d.commands[m].id = q
  /\ Taken(S, S2, d.commands[g].id, q)
  /\ result \in ResultType /\ result.at = m

(* Removing it rewrites the data. *)
LEMMA DropRewrites ==
  ASSUME NEW d, NEW S, NEW S2, NEW T, NEW R, NEW L, NEW g, NEW m, NEW q, NEW result,
         Droppable(d, S, S2, T, R, L, g, m, q, result),
         NEW f, DroppedFrom(f, d, g, result)
  PROVE  /\ RewrittenSomehow(f, d, {}, S, S2, T, R, g, q)
         /\ Len(f.commands) = Len(d.commands) - 1
<1> DEFINE c == d.commands
<1>0. /\ DataFits(d, T, S, R, L) /\ S \in [DOMAIN S -> Name]
      /\ g \in 1 .. Len(d.commands) /\ d.commands[g].kind \in Intents
      /\ m \in 1 .. Len(d.commands) /\ m < g /\ d.commands[m].id = q
      /\ Taken(S, S2, d.commands[g].id, q)
      /\ result \in ResultType /\ result.at = m
  BY DEF Droppable
<1>1. /\ d \in DataType /\ c \in Seq(CommandType) /\ Len(c) \in Nat /\ ApartIn(d.inputs) /\ d.inputs \in Seq(InputType)
      /\ TwinsIn(c, L) /\ g \in Nat /\ g > 0
  BY <1>0, DataParts DEF DataFits
<1>2. PICK rep : rep = <<>>
  OBVIOUS
<1>3. rep \in Seq(CommandType) /\ Len(rep) = 0
  <2>1. <<>> \in Seq(CommandType)
    OBVIOUS
  <2> QED
    BY <1>2, <2>1
<1>4. PICK x : x = ReplaceCommand(c, g, rep, result)
  OBVIOUS
<1>5. x \in Seq(CommandType) /\ Replaced1(x, c, g, rep, result)
  <2>1. result = GivenResult(result, g)
    BY <1>0, GivenOther
  <2> QED
    BY <1>0, <1>1, <1>3, <1>4, <2>1, ReplacePlaces
<1>6. f \in DataType /\ f.commands = x /\ f.inputs = d.inputs
  BY <1>0, <1>1, <1>2, <1>4, <1>5 DEF DataType, DroppedFrom
<1>7. PICK s \in Seq(CommandType) :
         /\ Spliced(s, c, g, 1, 0, rep) /\ SameButArgs(x, s)
         /\ \A i \in 1 .. Len(s) : \A k \in 1 .. Len(s[i].args) :
              x[i].args[k] = Moved(s[i].args[k], i, g, 0, result)
  BY <1>3, <1>5 DEF Replaced1
<1>8. PICK old : old = OldPlaces(Len(x), g, 1, 0)
  OBVIOUS
<1>9. /\ Carried(x, c, old, g) /\ Len(x) = Len(c) - 1 /\ Len(s) = Len(x) /\ Len(x) \in Nat /\ Len(x) = Len(c) + 0 - 1
      /\ \A i \in 1 .. Len(x) : SameKind(x, c, old, i) <=> old[i] # 0
      /\ \A i \in 1 .. Len(x) : old[i] # 0 => s[i] = c[old[i]]
      /\ \A i \in 1 .. Len(x) : old[i] # 0
  <2>1. g \in 1 .. Len(c) + 1 /\ g + 1 <= Len(c) + 1 /\ 1 \in {0, 1} /\ 0 \in Nat
    BY <1>0, <1>1
  <2>2. PICK h : h = IF 1 = 1 THEN g ELSE 0
    OBVIOUS
  <2>3. h = g
    BY <2>2
  <2>4. SplicedInto(x, c, s, rep, g, 1, 0, old, h)
    BY <1>0, <1>1, <1>5, <1>7, <1>8, <2>1, <2>2, SplicedCarried
  <2>5. \A i \in 1 .. Len(x) : old[i] = 0 => i >= g /\ i < g + 0
    BY <2>4 DEF SplicedInto
  <2>6. \A i \in 1 .. Len(x) : old[i] # 0
    BY <1>0, <1>1, <2>5
  <2>7. Len(x) = Len(c) + 0 - 1
    BY <2>4 DEF SplicedInto
  <2>8. Len(x) = Len(c) - 1
    BY <1>0, <1>1, <2>7
  <2> QED
    BY <2>3, <2>4, <2>6, <2>7, <2>8 DEF SplicedInto
<1>10. m \in 1 .. Len(x) /\ x[m].id = q
  <2>1. m \in 1 .. Len(x)
    BY <1>0, <1>1, <1>9
  <2>2. old[m] = m /\ m # 0
    BY <1>0, <1>1, <1>8, <2>1 DEF OldPlaces, OldPlace
  <2> QED
    BY <1>0, <1>9, <2>1, <2>2 DEF Carried
<1>11. Created(x, c, old, {})
  BY <1>0, <1>9 DEF Created
<1>12. ASSUME NEW i \in 1 .. Len(x), NEW k \in 1 .. Len(x[i].args)
       PROVE  Follows(x[i].args[k], c[old[i]].args[k], i, x, c, old, g, q)
  <2>1. old[i] # 0 /\ old[i] \in 1 .. Len(c) /\ k \in 1 .. Len(c[old[i]].args) /\ s[i] = c[old[i]]
    BY <1>0, <1>9 DEF SameKind, Carried
  <2>2. PICK a : a = c[old[i]].args[k]
    OBVIOUS
  <2>3. a \in ArgType
    BY <1>0, <1>1, <2>1, <2>2, CommandParts
  <2>4. PICK b : b = x[i].args[k]
    OBVIOUS
  <2>5. b = Moved(a, i, g, 0, result)
    <3>1. k \in 1 .. Len(s[i].args) /\ s[i].args[k] = a /\ i \in 1 .. Len(s)
      BY <1>0, <1>9, <2>1, <2>2
    <3> QED
      BY <1>7, <2>4, <3>1
  <2>6. result.at \in 1 .. Len(x) /\ result.at < g + 0 /\ x[result.at].id = q /\ 0 \in Nat /\ g \in 1 .. Len(c)
    BY <1>0, <1>1, <1>10
  <2>7. Follows(b, a, i, x, c, old, g, q)
    BY <1>0, <1>1, <1>5, <1>8, <1>9, <2>1, <2>3, <2>5, <2>6, MovedFollows
  <2> QED
    BY <2>2, <2>4, <2>7
<1>13. Gives(c, S, S2, g, q)
  <2>1. \A o \in 1 .. Len(c) : c[o].id = c[g].id => o = g
    BY <1>0, <1>1 DEF TwinsIn, Intents
  <2> QED
    BY <1>0, <2>1 DEF Gives
<1>14. InputsGrow(f.inputs, d.inputs) /\ ApartIn(f.inputs)
  BY <1>0, <1>1, <1>6, InputsSame
<1>15. RewrittenSomehow(f, d, {}, S, S2, T, R, g, q)
  <2>1. Rewritten(f, d, old, {}, S, S2, T, R, g, q)
    BY <1>6, <1>9, <1>11, <1>12, <1>13, <1>14 DEF Rewritten
  <2> QED
    BY <2>1 DEF RewrittenSomehow
<1> QED
  BY <1>6, <1>9, <1>15

(* A plugin replaces an intent with a transaction. *)
LEMMA ReplacesIntentKeeps ==
  ASSUME BuilderInv, NEW index \in 1 .. Size, NEW object \in Objects, PluginReplacesIntent(index, object)
  PROVE  BuilderInv'
<1> DEFINE z == NameAt(index)
<1>1. PICK p, q : p = PluginName(1) /\ q = PluginName(2)
  OBVIOUS
<1>2. /\ Plugs /\ KindAt(index) \in Intents /\ TakesThePlaceOf(q, z)
      /\ data' = ReplaceCommandWithTransaction(data, index, OtherOf(object, p, q), 2)
  BY <1>1 DEF PluginReplacesIntent, Other, OtherOf, NameAt, KindAt
<1>3. /\ phase \in {"resolving", "resolved"} /\ BuilderTypes /\ NamesKnown
      /\ DataFits(data, Thunks, standsFor, refused, late) /\ standsFor \in [DOMAIN standsFor -> Name]
      /\ p \in Name /\ q \in Name /\ p # q /\ ~User(p) /\ ~User(q) /\ Last(p) # 0 /\ Last(q) # 0
      /\ p \notin Known /\ q \notin Known
      /\ {p, q} \cap (NamesIn(data.commands) \cup Thunks \cup DOMAIN standsFor \cup refused) = {}
  BY <1>1, <1>2, PlugsParts DEF Replaced
<1>4. Size \in Nat /\ index \in Nat /\ index > 0
  BY <1>3, SettledFits
<1>5. PICK e : e = InsertTransaction(data, index, OtherOf(object, p, q))
  OBVIOUS
<1>6. PICK old : Rewritten(e, data, old, {p, q}, standsFor, standsFor, Thunks, refused, 0, q)
                 /\ InsertedAt(e, data, index, p, q, old)
  <2>1. index \in 1 .. Len(data.commands) + 1
    BY <1>4 DEF Size
  <2> QED
    BY <1>3, <1>5, <2>1, InsertRewrites
<1>7. DataFits(e, Thunks, standsFor, refused, late) /\ NamesIn(e.commands) \subseteq NamesIn(data.commands) \cup {p, q}
  BY <1>3, <1>6, RewrittenFits
<1>8. PICK g, m : g = index + 2 /\ m = index + 1
  OBVIOUS
<1>9. /\ Len(e.commands) = Size + 2 /\ g \in 1 .. Len(e.commands) /\ m \in 1 .. Len(e.commands) /\ m < g
      /\ m \in Nat /\ e.commands[m].id = q /\ 2 + index - 1 = m
  <2>1. Len(e.commands) = Size + 2 /\ e.commands[m].id = q
    BY <1>6, <1>8 DEF InsertedAt, Size
  <2> QED
    BY <1>4, <1>8, <2>1
<1>10. e.commands[g].id = z /\ e.commands[g].kind \in Intents
  <2>1. old = OldPlaces(Len(e.commands), index, 0, 2)
    BY <1>6 DEF InsertedAt
  <2>2. ~(g < index) /\ ~(g < index + 2) /\ g - 2 + 0 = index /\ index # 0
    BY <1>4, <1>8
  <2>3. old[g] = index
    BY <1>9, <2>1, <2>2 DEF OldPlaces, OldPlace
  <2>4. SameKind(e.commands, data.commands, old, g)
    BY <1>4, <1>6, <1>9, <2>3 DEF InsertedAt
  <2>5. e.commands[g].id = data.commands[index].id
    <3>1. Carried(e.commands, data.commands, old, 0)
      BY <1>6 DEF Rewritten
    <3>2. \A i \in 1 .. Len(e.commands) : old[i] # 0 => e.commands[i].id = data.commands[old[i]].id
      BY <3>1 DEF Carried
    <3>3. old[g] # 0
      BY <1>4, <2>3
    <3>4. e.commands[g].id = data.commands[old[g]].id
      BY <1>9, <3>2, <3>3
    <3> QED
      BY <2>3, <3>4
  <2> QED
    BY <1>2, <2>3, <2>4, <2>5 DEF SameKind, NameAt, KindAt
<1>11. /\ Gives(data.commands, standsFor, standsFor', index, q)
       /\ standsFor' \in [Replaced' -> Name] /\ Replaced' = Replaced \cup {z}
       /\ (\A y \in Replaced' : standsFor'[y] = q \/ (y \in Replaced /\ standsFor'[y] = standsFor[y]))
       /\ z \notin Thunks
  BY <1>2, <1>3, TakenIsGiven DEF Intents
<1>12. Taken(standsFor, standsFor', z, q)
  BY <1>4, <1>11 DEF Gives, NameAt
<1>13. PICK of : of = <<>>
  OBVIOUS
<1>14. PICK result : result = NestedResult(m, of)
  OBVIOUS
<1>15. result \in ResultType /\ result.at = m
  <2>1. of \in Name
    BY <1>13 DEF Name
  <2> QED
    BY <1>9, <1>14, <2>1, Constructed
<1>16. PICK f : f = [e EXCEPT !.commands = ReplaceCommand(e.commands, g, <<>>, result)]
  OBVIOUS
<1>17. data' = f
  <2>1. Len(OtherOf(object, p, q).commands) = 2
    BY DEF OtherOf
  <2>2. ReplaceCommandWithTransaction(data, index, OtherOf(object, p, q), 2) =
          [e EXCEPT !.commands = ReplaceCommand(e.commands, index + 2, <<>>, NestedResult(2 + index - 1, <<>>))]
    BY <1>5, <2>1 DEF ReplaceCommandWithTransaction
  <2> QED
    BY <1>2, <1>8, <1>9, <1>13, <1>14, <1>16, <2>2
<1>18. /\ RewrittenSomehow(f, e, {}, standsFor, standsFor', Thunks, refused, g, q)
       /\ Len(f.commands) = Len(e.commands) - 1
  <2>1. PICK T, S, S2, R, L : T = Thunks /\ S = standsFor /\ S2 = standsFor' /\ R = refused /\ L = late
    OBVIOUS
  <2>2. DataFits(e, T, S, R, L) /\ S \in [DOMAIN S -> Name] /\ g \in 1 .. Len(e.commands)
        /\ e.commands[g].kind \in Intents /\ result \in ResultType /\ result.at = m
        /\ m < g /\ m \in 1 .. Len(e.commands)
    BY <1>3, <1>7, <1>9, <1>10, <1>15, <2>1
  <2>3. PICK y : y = z /\ Taken(S, S2, y, q) /\ e.commands[g].id = y
    BY <1>10, <1>12, <2>1
  <2>4. e.commands[m].id = q
    BY <1>9
  <2>5. RewrittenSomehow(f, e, {}, S, S2, T, R, g, q) /\ Len(f.commands) = Len(e.commands) - 1
    <3>1. DroppedFrom(f, e, g, result)
      BY <1>16 DEF DroppedFrom
    <3>2. result.at = m
      BY <1>15
    <3>3. Taken(S, S2, e.commands[g].id, q)
      BY <2>3
    <3>4. Droppable(e, S, S2, T, R, L, g, m, q, result)
      BY <2>2, <2>4, <3>2, <3>3 DEF Droppable
    <3> QED
      BY <3>1, <3>4, DropRewrites
  <2> QED
    BY <2>1, <2>5
<1>19. DataFits(f, Thunks, standsFor', refused, late) /\ NamesIn(f.commands) \subseteq NamesIn(e.commands) \cup {}
  BY <1>3, <1>7, <1>18, RewrittenFits DEF RewrittenSomehow
<1>20. DataFits(data', Thunks, standsFor', refused, late) /\ InData' \subseteq InData \cup {p, q} /\ Size <= Size'
  BY <1>4, <1>7, <1>9, <1>17, <1>18, <1>19 DEF InData, Size
<1>21. z \in InData /\ Last(z) # 0
  <2>1. z \in InData
    BY <1>3, NameAtParts
  <2>2. KindsNamed
    BY DEF BuilderInv
  <2> QED
    BY <1>2, <2>1, <2>2 DEF KindsNamed, KindsIn, NameAt, KindAt, Size, Intents
<1> QED
  BY <1>1, <1>2, <1>11, <1>20, <1>21, PluginRewrites

(***************************************************************************)
(* Coin intents                                                            *)
(***************************************************************************)

(* The first intent that is left, and what is put in its place.            *)
FirstIntent(c) == SelectInSeq(c, LAMBDA x : x.kind \in Intents)

(* It is one. *)
LEMMA FirstIntentIs ==
  ASSUME NEW c \in Seq(CommandType), NEW index, index = FirstIntent(c), index # 0
  PROVE  index \in 1 .. Len(c) /\ c[index].kind \in Intents
<1> DEFINE I == {j \in 1 .. Len(c) : c[j].kind \in Intents}
<1>1. I \subseteq Nat
  OBVIOUS
<1>2. index = IF I # {} THEN Min(I) ELSE 0
  BY DEF FirstIntent, SelectInSeq
<1> HIDE DEF I
<1>3. FirstOf(index, I)
  BY <1>1, <1>2, MinFirst
<1> QED
  BY <1>3 DEF I, FirstOf

(* The coins that were found become inputs.                                *)
Gathered(inputs, found) ==
  inputs \o [i \in DOMAIN found |-> [object |-> found[i], mutable |-> FALSE]]

(* Every coin is an input of its own. *)
GatheredInto(y, inputs, found) ==
  /\ y \in Seq(InputType) /\ ApartIn(y) /\ InputsGrow(y, inputs)
  /\ Len(y) = Len(inputs) + Len(found)
  /\ \A i \in 1 .. Len(found) : y[Len(inputs) + i].object = found[i]

(* They are inputs. *)
LEMMA GatheredFits ==
  ASSUME NEW inputs \in Seq(InputType), ApartIn(inputs), NEW found \in Seq(Object),
         \A i, j \in 1 .. Len(found) : i # j => found[i] # found[j],
         \A i \in 1 .. Len(found) : \A j \in 1 .. Len(inputs) : inputs[j].object # found[i],
         NEW y, y = Gathered(inputs, found)
  PROVE  GatheredInto(y, inputs, found)
<1>1. PICK N, n : N = Len(inputs) /\ n = Len(found)
  OBVIOUS
<1>2. N \in Nat /\ n \in Nat /\ DOMAIN found = 1 .. n
  BY <1>1
<1>3. PICK z : z = [i \in 1 .. n |-> [object |-> found[i], mutable |-> FALSE]]
  OBVIOUS
<1>4. z \in Seq(InputType) /\ Len(z) = n /\ \A i \in 1 .. n : z[i].object = found[i]
  <2>1. \A i \in 1 .. n : found[i] \in Object
    BY <1>1
  <2>2. \A i \in 1 .. n : [object |-> found[i], mutable |-> FALSE] \in InputType
    BY <2>1 DEF InputType
  <2>3. z \in Seq(InputType)
    BY <1>2, <1>3, <2>2, IsASeq
  <2> QED
    BY <1>2, <1>3, <2>3
<1>5. y = inputs \o z
  BY <1>2, <1>3 DEF Gathered
<1>6. y \in Seq(InputType) /\ Len(y) = N + n /\ \A i \in 1 .. N + n : y[i] = IF i <= N THEN inputs[i] ELSE z[i - N]
  <2>1. y \in Seq(InputType) /\ Len(y) = Len(inputs) + Len(z)
        /\ \A i \in 1 .. Len(inputs) + Len(z) : y[i] = IF i <= Len(inputs) THEN inputs[i] ELSE z[i - Len(inputs)]
    <3>1. PICK E : E = InputType
      OBVIOUS
    <3>2. inputs \in Seq(E) /\ z \in Seq(E)
      BY <1>4, <3>1
    <3>3. inputs \o z \in Seq(E) /\ Len(inputs \o z) = Len(inputs) + Len(z)
          /\ \A i \in 1 .. Len(inputs) + Len(z) : (inputs \o z)[i] = IF i <= Len(inputs) THEN inputs[i] ELSE z[i - Len(inputs)]
      BY <3>2, ConcatProperties
    <3> QED
      BY <1>5, <3>1, <3>3
  <2> QED
    BY <1>1, <1>4, <2>1
<1>7. \A i \in 1 .. N : y[i] = inputs[i] /\ i \in 1 .. N + n
  BY <1>2, <1>6
<1>8. \A i \in 1 .. n : y[N + i].object = found[i]
  <2> SUFFICES ASSUME NEW i \in 1 .. n  PROVE y[N + i].object = found[i]
    OBVIOUS
  <2>1. N + i \in 1 .. N + n /\ ~(N + i <= N) /\ (N + i) - N = i
    BY <1>2
  <2>2. y[N + i] = z[i]
    BY <1>6, <2>1
  <2> QED
    BY <1>4, <2>2
<1>9. InputsGrow(y, inputs)
  BY <1>1, <1>2, <1>6, <1>7 DEF InputsGrow
<1>10. ApartIn(y)
  <2>1. \A i, j \in 1 .. N : i # j => y[i].object # y[j].object
    BY <1>1, <1>7 DEF ApartIn
  <2>2. ASSUME NEW i \in 1 .. N + n, i > N  PROVE \E k \in 1 .. n : i = N + k /\ y[i].object = found[k]
    <3>1. i - N \in 1 .. n /\ i = N + (i - N)
      BY <1>2, <2>2
    <3> QED
      BY <1>8, <3>1
  <2> SUFFICES ASSUME NEW i \in 1 .. N + n, NEW j \in 1 .. N + n, i # j  PROVE y[i].object # y[j].object
    BY <1>6 DEF ApartIn
  <2>3. CASE i <= N /\ j <= N
    BY <1>2, <2>1, <2>3
  <2>4. CASE i > N /\ j <= N
    <3>1. j \in 1 .. N
      BY <1>2, <2>4
    <3> QED
      BY SMTT(30), <1>1, <1>7, <2>2, <2>4, <3>1
  <2>5. CASE i <= N /\ j > N
    <3>1. i \in 1 .. N
      BY <1>2, <2>5
    <3> QED
      BY SMTT(30), <1>1, <1>7, <2>2, <2>5, <3>1
  <2>6. CASE i > N /\ j > N
    <3>1. PICK k \in 1 .. n : i = N + k /\ y[i].object = found[k]
      BY <2>2, <2>6
    <3>2. PICK l \in 1 .. n : j = N + l /\ y[j].object = found[l]
      BY <2>2, <2>6
    <3> QED
      BY <1>1, <3>1, <3>2
  <2> QED
    BY <1>2, <2>3, <2>4, <2>5, <2>6
<1> QED
  BY <1>1, <1>6, <1>8, <1>9, <1>10 DEF GatheredInto

(* An argument, once n commands, of which the last is the split, have      *)
(* replaced the intent at index.                                           *)
NestedTo(arg, index, m) ==
  IF arg.kind = "Result" /\ arg.at = index THEN NestedResult(m, arg.of) ELSE arg

(* A reference to or behind a coin intent follows its command. *)
LEMMA SplitFollows ==
  ASSUME NEW c \in Seq(CommandType), NEW x \in Seq(CommandType), NEW n \in {1, 2},
         NEW index \in 1 .. Len(c), Len(x) = Len(c) + n - 1, c[index].kind # "merge",
         n = 2 => x[index].id = Append(c[index].id, 0),
         NEW old, old = OldPlaces(Len(x), index, 0, n - 1), NEW q,
         NEW i \in 1 .. Len(x), i < index \/ i >= index + n, NEW a \in ArgType,
         NEW b, b = Moved(a, i, index, n, Same), NEW new, new = NestedTo(b, index, index + n - 1)
  PROVE  Follows(new, a, i, x, c, old, 0, q) /\ new \in ArgType
<1>1. Len(c) \in Nat /\ Len(x) \in Nat /\ i \in Nat /\ index \in Nat /\ index > 0 /\ n \in Nat
  BY CommandParts
<1>2. PICK N, size, m, last : N = Len(c) /\ size = Len(x) /\ m = n - 1 /\ last = index + m
  OBVIOUS
<1>3. m \in Nat /\ last = index + n - 1 /\ last \in Nat /\ last >= index /\ (n = 1 => last = index)
      /\ m + 1 = n /\ last \in 1 .. size /\ size = N + m /\ N \in Nat /\ size \in Nat
  BY <1>1, <1>2
<1>4. /\ \A j \in 1 .. size : old[j] = OldPlace(j, index, 0, m)
      /\ \A j \in 1 .. size : old[j] = 0 <=> j >= index /\ j < index + m
  <2>1. index \in 1 .. N + 1 /\ index + 0 <= N + 1 /\ size = N + m - 0 /\ old = OldPlaces(size, index, 0, m) /\ 0 \in {0, 1}
    BY <1>1, <1>2, <1>3
  <2>2. OldFits(old, N, size, index, 0, m)
    BY <1>1, <1>3, <2>1, OldParts
  <2> QED
    BY <2>2 DEF OldFits
<1>5. MovedTo(a, i, index, n, Same, b)
  <2>1. PICK s : s = Same
    OBVIOUS
  <2>2. s \in {Same} \cup ResultType /\ b = Moved(a, i, index, n, s)
    BY <2>1
  <2>3. MovedTo(a, i, index, n, s, b)
    BY <1>1, <2>2, MovedIs
  <2> QED
    BY <2>1, <2>3
<1>6. b \in ArgType
  BY <1>5 DEF MovedTo
<1>7. (RefersToResult(a) <=> a.kind \in {"Result", "NestedResult"}) /\ a.at \in Nat
      /\ (RefersToResult(b) <=> b.kind \in {"Result", "NestedResult"}) /\ b.at \in Nat
      /\ (RefersToResult(b) => b.of \in Name)
  BY <1>6, ArgParts
<1>8. CASE ~RefersToResult(a)
  <2>1. b = a
    BY <1>5, <1>8 DEF MovedTo
  <2>2. new = a
    BY <1>7, <1>8, <2>1 DEF NestedTo
  <2> QED
    BY <1>8, <2>2 DEF Follows
<1>9. CASE RefersToResult(a)
  <2>1. RefersToResult(b) /\ b.of = a.of /\ b.of \in Name
    BY <1>5, <1>7, <1>9 DEF MovedTo
  <2>2. PICK y : y = b.of
    OBVIOUS
  <2>3. b.kind = "Result" /\ b.at = index =>
          new \in ArgType /\ new.kind = "NestedResult" /\ new.at = last /\ new.of = y
    <3> SUFFICES ASSUME b.kind = "Result", b.at = index
                 PROVE  new \in ArgType /\ new.kind = "NestedResult" /\ new.at = last /\ new.of = y
      OBVIOUS
    <3>1. new = NestedResult(last, y)
      BY <1>3, <2>2 DEF NestedTo
    <3>2. last \in Nat /\ y \in Name
      BY <1>3, <2>1, <2>2
    <3> QED
      BY <3>1, <3>2, Constructed DEF ArgType
  <2>4. ~(b.kind = "Result" /\ b.at = index) => new = b
    BY DEF NestedTo
  <2>5. /\ new \in ArgType /\ RefersToResult(new) /\ new.of = a.of /\ a.kind # "Input" /\ new.kind # "Input"
        /\ (b.kind = "NestedResult" => new.kind = "NestedResult")
    <3>1. new \in ArgType /\ new.of = a.of /\ new.kind \in {"Result", "NestedResult"}
          /\ (b.kind = "NestedResult" => new.kind = "NestedResult")
      BY <1>6, <1>7, <2>1, <2>2, <2>3, <2>4
    <3>2. RefersToResult(new)
      BY <3>1 DEF RefersToResult
    <3> QED
      BY <1>7, <1>9, <3>1, <3>2
  <2>6. ASSUME a.at \in 1 .. Len(c), a.at < old[i]
        PROVE  /\ new.at \in 1 .. Len(x)
               /\ \/ old[new.at] = a.at /\ (a.kind = "NestedResult" => new.kind = "NestedResult")
                  \/ /\ new.kind = "NestedResult" /\ new.at < i /\ x[new.at].id = Append(c[a.at].id, 0)
                     /\ c[a.at].kind # "merge"
    <3>1. PICK v : v = a.at
      OBVIOUS
    <3>2. v \in Nat /\ v <= N /\ v > 0 /\ v <= size /\ v \in 1 .. size
      BY <1>1, <1>2, <1>3, <2>6, <3>1
    <3>3. CASE i < index
      <4>1. b = a
        BY <1>1, <1>5, <3>3 DEF MovedTo
      <4>2. old[i] = i
        BY <1>2, <1>4, <3>3 DEF OldPlace
      <4>3. v < index
        BY <1>1, <2>6, <3>1, <3>2, <3>3, <4>2
      <4>4. new = b
        BY <2>4, <3>1, <4>1, <4>3
      <4>5. old[v] = v
        BY <1>4, <3>2, <4>3 DEF OldPlace
      <4> QED
        BY <1>2, <3>1, <3>2, <4>1, <4>4, <4>5
    <3>4. CASE i >= index + n /\ v < index
      <4>1. b = a
        BY <1>5, <1>9, <3>1, <3>4 DEF MovedTo
      <4>2. new = b
        BY <2>4, <3>1, <3>4, <4>1
      <4>3. old[v] = v
        BY <1>4, <3>2, <3>4 DEF OldPlace
      <4> QED
        BY <1>2, <3>1, <3>2, <4>1, <4>2, <4>3
    <3>5. CASE i >= index + n /\ v = index
      <4>1. b = a
        BY <1>5, <1>9, <3>1, <3>5 DEF MovedTo
      <4>2. CASE a.kind = "Result"
        <5>1. new.at = last /\ new.kind = "NestedResult"
          BY <2>3, <3>1, <3>5, <4>1, <4>2
        <5>2. ~(last < index) /\ ~(last < index + m) /\ last - m + 0 = index
          BY <1>2, <1>3
        <5>3. old[last] = index
          BY <1>3, <1>4, <5>2 DEF OldPlace
        <5> QED
          BY <1>2, <1>3, <3>1, <3>5, <5>1, <5>3
      <4>3. CASE a.kind = "NestedResult"
        <5>1. new = a /\ new.at = index /\ new.kind = "NestedResult"
          BY <2>4, <3>1, <3>5, <4>1, <4>3
        <5>2. CASE n = 1
          <6>1. ~(index < index) /\ ~(index < index + m) /\ index - m + 0 = index /\ index \in 1 .. size
            BY <1>2, <1>3, <5>2
          <6>2. old[index] = index
            BY <1>4, <6>1 DEF OldPlace
          <6> QED
            BY <1>2, <3>1, <3>5, <5>1, <6>1, <6>2
        <5>3. CASE n = 2
          <6>1. x[index].id = Append(c[index].id, 0) /\ index < i
            BY <1>1, <3>5, <5>3
          <6>2. index \in 1 .. Len(x)
            BY <1>2, <3>2, <3>5
          <6> QED
            BY <3>1, <3>5, <5>1, <6>1, <6>2
        <5> QED
          BY <5>2, <5>3
      <4> QED
        BY <1>7, <1>9, <4>2, <4>3
    <3>6. CASE i >= index + n /\ v > index
      <4>1. b.at = v + n - 1 /\ b.kind = a.kind
        BY <1>5, <1>9, <3>1, <3>6 DEF MovedTo
      <4>2. PICK w : w = v + m
        OBVIOUS
      <4>3. w \in 1 .. size /\ ~(w < index) /\ ~(w < index + m) /\ w - m + 0 = v /\ w # index /\ b.at = w
        BY <1>2, <1>3, <3>2, <3>6, <4>1, <4>2
      <4>4. new = b
        BY <2>4, <4>3
      <4>5. old[w] = v
        BY <1>4, <4>3 DEF OldPlace
      <4> QED
        BY <1>2, <3>1, <4>1, <4>3, <4>4, <4>5
    <3>7. \/ i < index
          \/ i >= index + n /\ v < index
          \/ i >= index + n /\ v = index
          \/ i >= index + n /\ v > index
      BY <1>1, <3>2
    <3> QED
      BY Zenon, <3>3, <3>4, <3>5, <3>6, <3>7
  <2> QED
    BY <1>9, <2>5, <2>6 DEF Follows
<1> QED
  BY <1>8, <1>9

(* The arguments stay arguments. *)
LEMMA NestedIs ==
  ASSUME NEW b \in ArgType, NEW index, NEW m \in Nat
  PROVE  /\ NestedTo(b, index, m) \in ArgType
         /\ ~RefersToResult(b) => NestedTo(b, index, m) = b
<1>1. CASE b.kind = "Result" /\ b.at = index
  <2>1. RefersToResult(b) /\ b.of \in Name
    BY <1>1, ArgParts
  <2>2. PICK y : y = b.of
    OBVIOUS
  <2>3. NestedResult(m, y) \in ArgType
    BY <2>1, <2>2, Constructed DEF ArgType
  <2> QED
    BY <1>1, <2>1, <2>2, <2>3 DEF NestedTo
<1>2. CASE ~(b.kind = "Result" /\ b.at = index)
  BY <1>2 DEF NestedTo
<1> QED
  BY <1>1, <1>2

(* An intent gives way to the commands rep, the last of which is the split *)
(* that keeps its name.                                                    *)
ResolvedSplit(c, index, rep) ==
  MapArguments(ReplaceCommand(c, index, rep, Number(index)),
               LAMBDA arg, i : NestedTo(arg, index, index + Len(rep) - 1))

(* What they are. *)
SplitTo(x, c, index, rep) ==
  \E s \in Seq(CommandType) :
    /\ Spliced(s, c, index, 1, Len(rep), rep) /\ SameButArgs(x, s)
    /\ \A i \in 1 .. Len(s) : \A k \in 1 .. Len(s[i].args) :
         x[i].args[k] = NestedTo(Moved(s[i].args[k], i, index, Len(rep), Same), index, index + Len(rep) - 1)

(* They are. *)
LEMMA SplitPlaces ==
  ASSUME NEW c \in Seq(CommandType), NEW index \in 1 .. Len(c), NEW rep \in Seq(CommandType), Len(rep) > 0,
         NEW x, x = ResolvedSplit(c, index, rep)
  PROVE  x \in Seq(CommandType) /\ SplitTo(x, c, index, rep)
<1>1. PICK m : m = index + Len(rep) - 1
  OBVIOUS
<1>2. m \in Nat
  <2>1. index \in Nat /\ Len(rep) \in Nat /\ index > 0
    BY CommandParts
  <2> QED
    BY <1>1, <2>1
<1>3. PICK y, same, given :
        y = ReplaceCommand(c, index, rep, given) /\ same = Same /\ given = Number(index)
  OBVIOUS
<1>4. y \in Seq(CommandType) /\ Replaced1(y, c, index, rep, same)
  <2>1. same \in {Same} \cup ResultType /\ given = GivenResult(same, index)
    BY <1>3 DEF GivenResult
  <2> QED
    BY <1>3, <2>1, ReplacePlaces
<1>5. PICK s \in Seq(CommandType) :
        /\ Spliced(s, c, index, 1, Len(rep), rep) /\ SameButArgs(y, s)
        /\ \A i \in 1 .. Len(s) : \A k \in 1 .. Len(s[i].args) :
             y[i].args[k] = Moved(s[i].args[k], i, index, Len(rep), same)
  BY <1>4 DEF Replaced1
<1>6. DOMAIN y = 1 .. Len(y) /\ \A i \in 1 .. Len(y) : DOMAIN y[i].args = 1 .. Len(y[i].args)
      /\ \A k \in 1 .. Len(y[i].args) : y[i].args[k] \in ArgType
  BY <1>4, CommandParts
<1>7. x = [i \in DOMAIN y |->
             [y[i] EXCEPT !.args = [k \in DOMAIN y[i].args |-> NestedTo(y[i].args[k], index, m)]]]
  BY <1>1, <1>3 DEF ResolvedSplit, MapArguments
<1> DEFINE E == [i \in 1 .. Len(y) |-> [k \in 1 .. Len(y[i].args) |-> NestedTo(y[i].args[k], index, m)]]
<1>8. x = WithArgs(y, E)
  BY <1>6, <1>7 DEF WithArgs
<1>9. ASSUME NEW i \in 1 .. Len(y)  PROVE E[i] \in [1 .. Len(y[i].args) -> ArgType]
  <2>1. ASSUME NEW k \in 1 .. Len(y[i].args)  PROVE NestedTo(y[i].args[k], index, m) \in ArgType
    BY <1>2, <1>6, NestedIs
  <2> QED
    BY <2>1
<1>10. /\ x \in Seq(CommandType) /\ SameButArgs(x, y)
       /\ \A i \in 1 .. Len(y) : \A k \in 1 .. Len(y[i].args) : x[i].args[k] = E[i][k]
  <2>1. PICK D : D = E
    OBVIOUS
  <2>2. x = WithArgs(y, D) /\ \A i \in 1 .. Len(y) : D[i] \in [1 .. Len(y[i].args) -> ArgType]
    BY <1>8, <1>9, <2>1
  <2> HIDE DEF E
  <2>3. /\ x \in Seq(CommandType) /\ SameButArgs(x, y)
        /\ \A i \in 1 .. Len(y) : \A k \in 1 .. Len(y[i].args) : x[i].args[k] = D[i][k]
    BY SMTT(30), <1>4, <2>2, MapAll
  <2> QED
    BY <2>1, <2>3
<1>11. \A i \in 1 .. Len(y) : \A k \in 1 .. Len(y[i].args) : x[i].args[k] = NestedTo(y[i].args[k], index, m)
  BY <1>10
<1> HIDE DEF E
<1>12. SameButArgs(x, s)
  BY <1>5, <1>10 DEF SameButArgs
<1>13. Len(y) = Len(s) /\ \A i \in 1 .. Len(s) : Len(y[i].args) = Len(s[i].args)
  BY <1>5 DEF SameButArgs
<1>14. \A i \in 1 .. Len(s) : \A k \in 1 .. Len(s[i].args) :
         x[i].args[k] = NestedTo(Moved(s[i].args[k], i, index, Len(rep), Same), index, index + Len(rep) - 1)
  <2> SUFFICES ASSUME NEW i \in 1 .. Len(s), NEW k \in 1 .. Len(s[i].args)
      PROVE x[i].args[k] = NestedTo(Moved(s[i].args[k], i, index, Len(rep), Same), index, index + Len(rep) - 1)
    OBVIOUS
  <2>1. y[i].args[k] = Moved(s[i].args[k], i, index, Len(rep), same)
    BY <1>5
  <2>2. i \in 1 .. Len(y) /\ k \in 1 .. Len(y[i].args)
    BY <1>13
  <2>3. x[i].args[k] = NestedTo(y[i].args[k], index, m)
    BY <1>11, <2>2
  <2> QED
    BY <1>1, <1>3, <2>1, <2>3
<1> QED
  BY <1>5, <1>10, <1>12, <1>14 DEF SplitTo

(* What the intent z of d, at index, can give way to.                      *)
Replacing(rep, inputs, z, n) ==
  /\ rep \in Seq(CommandType) /\ n \in {1, 2} /\ Len(rep) = n
  /\ rep[n].id = z /\ rep[n].kind = "split"
  /\ n = 2 => rep[1].id = Append(z, 0) /\ rep[1].kind = "merge"
  /\ \A r \in 1 .. n : \A k \in 1 .. Len(rep[r].args) :
       /\ rep[r].args[k].kind \in {"Input", "GasCoin"}
       /\ rep[r].args[k].kind = "Input" => ObjectFits(inputs, rep[r].args[k])

(* The data once the intent at index gave way to rep. *)
Splits(e, d, index, inputs, rep) ==
  e = [inputs |-> inputs, commands |-> ResolvedSplit(d.commands, index, rep)]

(* The names that something else than a command goes by are no merge's.    *)
NoMerges(T, S, R) == \A x \in T \cup DOMAIN S \cup R : Last(x) # 0

(* The name of the merge of an intent is new.                              *)
LEMMA MergeIsNew ==
  ASSUME NEW d, NEW T, NEW S, NEW R, NEW L, DataFits(d, T, S, R, L), NoMerges(T, S, R),
         NEW index \in 1 .. Len(d.commands), d.commands[index].kind \in Intents,
         NEW y, y = Append(d.commands[index].id, 0)
  PROVE  /\ y \in Name /\ y # <<>> /\ Last(y) = 0 /\ ~User(y) /\ Front(y) = d.commands[index].id
         /\ {y} \cap (NamesIn(d.commands) \cup T \cup DOMAIN S) = {} /\ y \notin R
<1>1. PICK z : z = d.commands[index].id
  OBVIOUS
<1>2. d.commands \in Seq(CommandType) /\ z \in Name /\ TwinsIn(d.commands, L) /\ KindsIn(d.commands, T)
  BY <1>1, DataParts, CommandParts DEF DataFits
<1>3. y \in Name /\ y # <<>> /\ Last(y) = 0 /\ Front(y) = z
  <2>1. 0 \in Nat
    OBVIOUS
  <2> QED
    BY <1>1, <1>2, <2>1, AppendedName
<1>4. y \notin NamesIn(d.commands)
  <2> SUFFICES ASSUME NEW j \in 1 .. Len(d.commands), d.commands[j].id = y  PROVE FALSE
    BY DEF NamesIn
  <2>1. d.commands[j].kind = "merge"
    BY <1>2, <1>3 DEF KindsIn
  <2>2. PICK l \in 1 .. Len(d.commands) : Front(d.commands[j].id) = d.commands[l].id /\ d.commands[l].kind = "split"
    BY <1>2, <2>1 DEF KindsIn
  <2>3. d.commands[l].id = d.commands[index].id
    BY <1>1, <1>3, <2>2
  <2>4. l # index /\ d.commands[l].kind # "call"
    BY <2>2 DEF Intents
  <2> QED
    BY <1>2, <2>3, <2>4 DEF TwinsIn
<1> QED
  BY <1>1, <1>3, <1>4 DEF User, NoMerges

(* If no command was added, all are the same. *)
KeepsNames(e, d) ==
  Len(e.commands) = Len(d.commands) => \A i \in 1 .. Len(d.commands) : e.commands[i].id = d.commands[i].id

(* The intent z gave way to n commands, y being the other one's name.      *)
GivesWay(e, d, y, z, S, T, R, n) ==
  /\ RewrittenSomehow(e, d, {y}, S, S, T, R, 0, z) /\ Len(e.commands) = Len(d.commands) + n - 1
  /\ KeepsNames(e, d)

(* Resolving a coin intent rewrites the data; *)
LEMMA SplitRewrites ==
  ASSUME NEW d, NEW T, NEW S, NEW R, NEW L, DataFits(d, T, S, R, L), NoMerges(T, S, R),
         NEW index \in 1 .. Len(d.commands), d.commands[index].kind \in Intents,
         NEW z, z = d.commands[index].id, NEW y, y = Append(z, 0),
         NEW inputs \in Seq(InputType), InputsGrow(inputs, d.inputs), ApartIn(inputs),
         NEW rep, NEW n, Replacing(rep, inputs, z, n), NEW e, Splits(e, d, index, inputs, rep)
  PROVE  GivesWay(e, d, y, z, S, T, R, n)
<1> DEFINE c == d.commands
<1>1. /\ c \in Seq(CommandType) /\ Len(c) \in Nat /\ index \in Nat /\ index > 0 /\ KindsIn(c, T)
  BY DataParts DEF DataFits
<1>2. /\ rep \in Seq(CommandType) /\ n \in {1, 2} /\ Len(rep) = n /\ n \in Nat
      /\ rep[n].id = z /\ rep[n].kind = "split"
      /\ n = 2 => rep[1].id = y /\ rep[1].kind = "merge"
  BY DEF Replacing
<1>3. /\ y \in Name /\ y # <<>> /\ Last(y) = 0 /\ ~User(y) /\ Front(y) = z
      /\ {y} \cap (NamesIn(d.commands) \cup T \cup DOMAIN S) = {}
  <2>1. y = Append(d.commands[index].id, 0)
    OBVIOUS
  <2> QED
    BY ZenonT(60), <2>1, MergeIsNew
<1>4. PICK x : x = ResolvedSplit(c, index, rep)
  OBVIOUS
<1>5. x \in Seq(CommandType) /\ SplitTo(x, c, index, rep)
  <2>1. Len(rep) > 0
    BY <1>2
  <2> QED
    BY <1>1, <1>2, <1>4, <2>1, SplitPlaces
<1>6. e \in DataType /\ e.commands = x /\ e.inputs = inputs
  BY <1>4, <1>5 DEF Splits, DataType
<1>7. PICK s \in Seq(CommandType) :
        /\ Spliced(s, c, index, 1, n, rep) /\ SameButArgs(x, s)
        /\ \A i \in 1 .. Len(s) : \A k \in 1 .. Len(s[i].args) :
             x[i].args[k] = NestedTo(Moved(s[i].args[k], i, index, n, Same), index, index + n - 1)
  BY <1>2, <1>5 DEF SplitTo
<1>8. PICK N, size, m, last : N = Len(c) /\ size = Len(x) /\ m = n - 1 /\ last = index + m
  OBVIOUS
<1>9. /\ m \in Nat /\ size = N + m /\ N \in Nat /\ size \in Nat /\ last = index + n - 1 /\ last \in 1 .. size
      /\ Len(s) = size /\ Len(x) = Len(c) + n - 1 /\ last \in Nat /\ index \in 1 .. size
  <2>1. Len(s) = Len(c) + n - 1 /\ Len(x) = Len(s)
    BY <1>7 DEF Spliced, SameButArgs
  <2>2. n - 1 \in Nat
    BY <1>2
  <2> QED
    BY <1>1, <1>2, <1>8, <2>1, <2>2
<1>10. PICK old : old = OldPlaces(size, index, 0, m)
  OBVIOUS
<1>11. OldFits(old, N, size, index, 0, m)
  <2>1. index \in 1 .. N + 1 /\ index + 0 <= N + 1 /\ size = N + m - 0 /\ 0 \in {0, 1}
    BY <1>1, <1>8, <1>9
  <2> QED
    BY <1>9, <1>10, <2>1, OldParts
<1>12. /\ old \in [1 .. size -> 0 .. N] /\ \A j \in 1 .. size : old[j] = OldPlace(j, index, 0, m)
       /\ \A i, j \in 1 .. size : i < j /\ old[i] # 0 /\ old[j] # 0 => old[i] < old[j]
       /\ \A o \in 1 .. N : \E i \in 1 .. size : old[i] = o
       /\ \A i \in 1 .. size : old[i] # 0 => old[i] \in 1 .. N
       /\ \A i \in 1 .. size : old[i] = 0 <=> i >= index /\ i < index + m
  <2>1. 0 # 1
    OBVIOUS
  <2> QED
    BY <1>11, <2>1 DEF OldFits
<1>13. old[last] = index
  <2>1. ~(last < index) /\ ~(last < index + m) /\ last - m + 0 = index
    BY <1>1, <1>8, <1>9
  <2> QED
    BY <1>9, <1>12, <2>1 DEF OldPlace
<1>14. ASSUME NEW i \in 1 .. size
       PROVE  i < index \/ (i = index /\ n = 2 /\ old[i] = 0) \/ i = last \/ i >= index + n
  <2>1. n = 1 \/ n = 2
    BY <1>2
  <2>2. CASE n = 1
    BY <1>1, <1>8, <2>2
  <2>3. CASE n = 2
    <3>1. m = 1 /\ last = index + 1
      BY <1>8, <2>3
    <3> QED
      BY <1>1, <1>12, <2>3, <3>1
  <2> QED
    BY <2>1, <2>2, <2>3
<1>15. ASSUME NEW i \in 1 .. size, i < index \/ i >= index + n  PROVE old[i] # 0 /\ old[i] \in 1 .. N /\ s[i] = c[old[i]]
  <2>1. CASE i < index
    <3>1. old[i] = i /\ i # 0
      BY <1>12, <2>1 DEF OldPlace
    <3>2. s[i] = c[i]
      BY <1>7, <1>9, <2>1 DEF Spliced
    <3> QED
      BY <1>12, <3>1, <3>2
  <2>2. CASE i >= index + n
    <3>1. s[i] = c[i - n + 1] /\ i - n + 1 \in 1 .. Len(c)
      BY <1>7, <1>9, <2>2 DEF Spliced
    <3>2. ~(i < index) /\ ~(i < index + m) /\ i - m + 0 = i - n + 1
      <4>1. m = n - 1 /\ n \in Nat /\ n > 0 /\ i \in Nat /\ index \in Nat
        BY <1>1, <1>2, <1>8, <1>9
      <4> QED
        BY <2>2, <4>1
    <3>3. old[i] = i - n + 1
      BY <1>12, <3>2 DEF OldPlace
    <3> QED
      BY <1>8, <3>1, <3>3
  <2> QED
    BY <1>15, <2>1, <2>2
<1>16. s[last] = rep[n] /\ (n = 2 => s[index] = rep[1])
  <2>1. last >= index /\ last < index + n /\ last - index + 1 = n
    BY <1>1, <1>2, <1>9
  <2>2. s[last] = rep[n]
    BY <1>7, <1>9, <2>1 DEF Spliced
  <2>3. n = 2 => s[index] = rep[1]
    <3>1. index >= index /\ index < index + n /\ index - index + 1 = 1
      <4>1. PICK v : v = index
        OBVIOUS
      <4>2. n \in Nat /\ n > 0 /\ v \in Nat
        BY <1>1, <1>2, <4>1
      <4>3. v >= v
        BY <4>2
      <4>4. v < v + n
        BY <4>2
      <4>5. v - v + 1 = 1
        BY <4>2
      <4> QED
        BY <4>1, <4>3, <4>4, <4>5
    <3> QED
      BY <1>7, <1>9, <3>1 DEF Spliced
  <2> QED
    BY <2>2, <2>3
<1>17. \A i \in 1 .. size : x[i].id = s[i].id /\ x[i].kind = s[i].kind /\ Len(x[i].args) = Len(s[i].args)
  BY <1>7, <1>9 DEF SameButArgs
<1>18. /\ x[last].id = z /\ x[last].kind = "split" /\ x[last].kind # c[index].kind
       /\ n = 2 => x[index].id = y /\ x[index].kind = "merge"
  BY <1>2, <1>9, <1>16, <1>17 DEF Intents
<1>19. Carried(x, c, old, 0)
  <2>1. ASSUME NEW i \in 1 .. size, old[i] # 0
        PROVE  /\ x[i].id = c[old[i]].id
               /\ \/ x[i].kind = c[old[i]].kind /\ Len(x[i].args) = Len(c[old[i]].args)
                  \/ c[old[i]].kind \in Intents /\ x[i].kind \in {"call", "split"}
    <3>1. CASE i = last
      BY <1>13, <1>18, <3>1
    <3>2. CASE i < index \/ i >= index + n
      BY <1>15, <1>17, <3>2
    <3> QED
      BY <1>14, <2>1, <3>1, <3>2
  <2> QED
    BY <1>8, <1>12, <2>1 DEF Carried
<1>20. Created(x, c, old, {y})
  <2> SUFFICES ASSUME NEW i \in 1 .. size, old[i] = 0
               PROVE  /\ x[i].id \in {y} /\ ~User(x[i].id)
                      /\ \A j \in 1 .. size : x[j].id = x[i].id => j = i
                      /\ x[i].kind = "merge" /\ Last(x[i].id) = 0
                      /\ \E j \in 1 .. size : x[j].kind = "split" /\ x[j].id = Front(x[i].id)
    BY <1>8 DEF Created
  <2>1. i = index /\ n = 2
    BY <1>1, <1>13, <1>14, <1>15
  <2>2. x[i].id = y /\ x[i].kind = "merge"
    BY <1>18, <2>1
  <2>3. ASSUME NEW j \in 1 .. size, x[j].id = y  PROVE j = i
    <3>1. old[j] # 0 => x[j].id \in NamesIn(c)
      <4>1. old[j] # 0 => old[j] \in 1 .. Len(c) /\ x[j].id = c[old[j]].id
        BY <1>8, <1>12, <1>19 DEF Carried
      <4> QED
        BY <4>1 DEF NamesIn
    <3>2. old[j] = 0
      BY <1>3, <2>3, <3>1
    <3>3. j = index
      BY <1>1, <1>13, <1>14, <1>15, <3>2
    <3> QED
      BY <2>1, <3>3
  <2>4. x[last].kind = "split" /\ x[last].id = Front(x[i].id)
    BY <1>3, <1>18, <2>2
  <2> QED
    BY <1>3, <1>9, <2>2, <2>3, <2>4
<1>21. ASSUME NEW i \in 1 .. Len(x), SameKind(x, c, old, i), NEW k \in 1 .. Len(x[i].args)
       PROVE  Follows(x[i].args[k], c[old[i]].args[k], i, x, c, old, 0, z)
  <2>1. i \in 1 .. size /\ i # last /\ old[i] # 0 /\ k \in 1 .. Len(c[old[i]].args)
    BY <1>8, <1>13, <1>18, <1>21 DEF SameKind
  <2>2. i < index \/ i >= index + n
    BY <1>14, <2>1
  <2>3. s[i] = c[old[i]] /\ old[i] \in 1 .. Len(c)
    BY <1>8, <1>15, <2>1, <2>2
  <2>4. PICK a : a = c[old[i]].args[k]
    OBVIOUS
  <2>5. a \in ArgType
    BY <1>1, <2>1, <2>3, <2>4, CommandParts
  <2>6. PICK b : b = Moved(a, i, index, n, Same)
    OBVIOUS
  <2>7. PICK new : new = x[i].args[k]
    OBVIOUS
  <2>8. new = NestedTo(b, index, index + n - 1)
    BY <1>7, <1>9, <2>1, <2>3, <2>4, <2>6, <2>7
  <2>9. n = 2 => x[index].id = Append(c[index].id, 0)
    BY <1>18
  <2>10. c[index].kind # "merge" /\ Len(x) = Len(c) + n - 1 /\ old = OldPlaces(Len(x), index, 0, n - 1)
    BY <1>8, <1>9, <1>10 DEF Intents
  <2>11. Follows(new, a, i, x, c, old, 0, z)
    BY <1>1, <1>2, <1>5, <2>2, <2>5, <2>6, <2>8, <2>9, <2>10, SplitFollows
  <2> QED
    BY <2>4, <2>7, <2>11
<1>22. ASSUME NEW i \in 1 .. Len(x), ~SameKind(x, c, old, i), NEW k \in 1 .. Len(x[i].args)
       PROVE  ArgFits(e, T, S, R, i, x[i].args[k])
  <2>1. ~(i < index \/ i >= index + n)
    BY <1>8, <1>15, <1>17, <1>22 DEF SameKind
  <2>2. i = last \/ (i = index /\ n = 2)
    BY <1>8, <1>14, <2>1
  <2>3. PICK r \in 1 .. n : s[i] = rep[r]
    <3>1. n \in 1 .. n /\ 1 \in 1 .. n
      BY <1>2
    <3> QED
      BY <1>16, <2>2, <3>1
  <2>4. k \in 1 .. Len(s[i].args)
    BY <1>8, <1>17
  <2>5. PICK a : a = s[i].args[k]
    OBVIOUS
  <2>6. a.kind \in {"Input", "GasCoin"} /\ (a.kind = "Input" => ObjectFits(inputs, a)) /\ a \in ArgType
    <3>1. k \in 1 .. Len(rep[r].args) /\ rep[r].args[k] = a
      BY <2>3, <2>4, <2>5
    <3>2. a \in ArgType
      BY <1>2, <2>3, <3>1, CommandParts
    <3> QED
      BY <2>3, <3>1, <3>2 DEF Replacing
  <2>7. ~RefersToResult(a)
    BY <2>6 DEF RefersToResult
  <2>8. PICK same, b : same = Same /\ b = Moved(a, i, index, n, same)
    OBVIOUS
  <2>9. b = a
    <3>1. same \in {Same} \cup ResultType /\ i \in Nat
      BY <2>8
    <3>2. MovedTo(a, i, index, n, same, b)
      BY <1>1, <1>2, <2>6, <2>8, <3>1, MovedIs
    <3> QED
      BY <2>7, <3>2 DEF MovedTo
  <2>10. x[i].args[k] = NestedTo(b, index, last)
    BY <1>7, <1>8, <1>9, <2>4, <2>5, <2>8
  <2>11. x[i].args[k] = a
    BY <1>9, <2>6, <2>7, <2>9, <2>10, NestedIs
  <2> QED
    BY <1>6, <2>6, <2>7, <2>11 DEF ArgFits
<1>23. Gives(c, S, S, 0, z)
  BY DEF Gives
<1>24. Rewritten(e, d, old, {y}, S, S, T, R, 0, z)
  BY <1>3, <1>6, <1>19, <1>20, <1>21, <1>22, <1>23 DEF Rewritten
<1>25. KeepsNames(e, d)
  <2> SUFFICES ASSUME Len(x) = Len(c), NEW i \in 1 .. Len(c)  PROVE x[i].id = c[i].id
    BY <1>6 DEF KeepsNames
  <2>1. m = 0 /\ i \in 1 .. size
    <3>1. size = N /\ N + m = N /\ m \in Nat /\ N \in Nat
      BY <1>8, <1>9
    <3>2. m = 0
      BY <3>1
    <3> QED
      BY <1>8, <3>1, <3>2
  <2>2. old[i] = i
    BY <1>1, <1>12, <2>1 DEF OldPlace
  <2>3. old[i] # 0
    BY <2>2
  <2> QED
    BY <1>8, <1>19, <2>1, <2>2, <2>3 DEF Carried
<1> QED
  BY <1>6, <1>9, <1>24, <1>25 DEF RewrittenSomehow, GivesWay

(* An intent without balance becomes a call.                               *)
LEMMA ZeroRewrites ==
  ASSUME NEW d, NEW T, NEW S, NEW R, NEW L, DataFits(d, T, S, R, L), NoMerges(T, S, R),
         NEW index \in 1 .. Len(d.commands), d.commands[index].kind \in Intents,
         NEW z, z = d.commands[index].id, NEW y, y = Append(z, 0), NEW e,
         e = [inputs |-> d.inputs, commands |-> [d.commands EXCEPT ![index] = Command(z, "call", <<>>)]]
  PROVE  GivesWay(e, d, y, z, S, T, R, 1)
<1> DEFINE c == d.commands
<1>1. /\ c \in Seq(CommandType) /\ Len(c) \in Nat /\ z \in Name /\ ApartIn(d.inputs) /\ d.inputs \in Seq(InputType)
  BY DataParts, CommandParts DEF DataFits
<1>2. PICK new, call, none : new = Command(z, call, none) /\ call = "call" /\ none = <<>>
  OBVIOUS
<1>3. new \in CommandType /\ new.id = z /\ new.kind = call /\ new.args = none
  <2>1. call \in Kinds
    BY <1>2 DEF Kinds
  <2>2. <<>> \in Seq(ArgType)
    OBVIOUS
  <2>3. none \in Seq(ArgType)
    BY <1>2, <2>2
  <2> QED
    <3>1. z \in Name /\ call \in Kinds /\ none \in Seq(ArgType) /\ new = Command(z, call, none)
      BY <1>1, <1>2, <2>1, <2>3
    <3> QED
      BY <3>1, CommandIs
<1>4. PICK x : x = [c EXCEPT ![index] = new]
  OBVIOUS
<1>5. /\ x \in Seq(CommandType) /\ Len(x) = Len(c) /\ x[index] = new
      /\ \A i \in 1 .. Len(c) : i # index => x[i] = c[i]
  BY <1>1, <1>3, <1>4
<1>6. e \in DataType /\ e.commands = x /\ e.inputs = d.inputs
  <2>1. e = [inputs |-> d.inputs, commands |-> x]
    BY <1>2, <1>4
  <2> QED
    BY <1>1, <1>5, <2>1 DEF DataType
<1>7. PICK old : old = [i \in 1 .. Len(x) |-> i]
  OBVIOUS
<1>8. old \in [1 .. Len(x) -> 0 .. Len(c)] /\ \A i \in 1 .. Len(x) : old[i] = i /\ old[i] # 0 /\ i \in 1 .. Len(c)
  BY <1>1, <1>5, <1>7
<1>9. ASSUME NEW i \in 1 .. Len(x)
      PROVE  /\ x[i].id = c[i].id
             /\ \/ i # index /\ x[i] = c[i]
                \/ i = index /\ x[i].kind = "call" /\ c[i].kind \in Intents /\ Len(x[i].args) = 0 /\ c[i].kind # "call"
  BY <1>2, <1>3, <1>5, <1>8 DEF Intents
<1>10. Carried(x, c, old, 0)
  <2>1. \A i, j \in 1 .. Len(x) : i < j => old[i] < old[j]
    BY <1>8
  <2>2. \A o \in 1 .. Len(c) : \E i \in 1 .. Len(x) : old[i] = o
    BY <1>5, <1>8
  <2> QED
    BY <1>8, <1>9, <2>1, <2>2 DEF Carried
<1>11. Created(x, c, old, {y})
  BY <1>8 DEF Created
<1>12. ASSUME NEW i \in 1 .. Len(x), SameKind(x, c, old, i), NEW k \in 1 .. Len(x[i].args)
       PROVE  Follows(x[i].args[k], c[old[i]].args[k], i, x, c, old, 0, z)
  <2>1. x[i] = c[i] /\ old[i] = i /\ i \in 1 .. Len(c) /\ k \in 1 .. Len(c[i].args)
    BY <1>8, <1>9, <1>12 DEF SameKind
  <2>2. PICK a : a = c[i].args[k]
    OBVIOUS
  <2>3. a \in ArgType /\ x[i].args[k] = a /\ c[old[i]].args[k] = a
    BY <1>1, <2>1, <2>2, CommandParts
  <2>4. a.at \in 1 .. Len(c) => a.at \in 1 .. Len(x) /\ old[a.at] = a.at
    BY <1>5, <1>8
  <2> QED
    BY <2>3, <2>4 DEF Follows
<1>13. ASSUME NEW i \in 1 .. Len(x), ~SameKind(x, c, old, i), NEW k \in 1 .. Len(x[i].args)
       PROVE  ArgFits(e, T, S, R, i, x[i].args[k])
  <2>1. Len(x[i].args) = 0
    BY <1>8, <1>9, <1>13 DEF SameKind
  <2> QED
    BY <2>1
<1>14. {y} \cap (NamesIn(c) \cup T \cup DOMAIN S) = {}
  <2>1. y = Append(d.commands[index].id, 0)
    OBVIOUS
  <2> QED
    BY <2>1, MergeIsNew
<1>15. InputsGrow(e.inputs, d.inputs) /\ ApartIn(e.inputs)
  BY <1>1, <1>6, InputsSame
<1>16. Gives(c, S, S, 0, z)
  BY DEF Gives
<1>17. Rewritten(e, d, old, {y}, S, S, T, R, 0, z)
  BY <1>6, <1>10, <1>11, <1>12, <1>13, <1>14, <1>15, <1>16 DEF Rewritten
<1>18. KeepsNames(e, d)
  BY <1>5, <1>6, <1>9 DEF KeepsNames
<1>19. Len(e.commands) = Len(d.commands) + 1 - 1
  BY <1>1, <1>5, <1>6
<1> QED
  BY <1>17, <1>18, <1>19 DEF RewrittenSomehow, GivesWay

(* What resolveCoinBalance makes of the first intent.                      *)
CoinArg(inputs, i) == InputArg(i, inputs[i].object, FALSE)

(* whether the coins are to be merged, *)
MergesNow(st, index) == st.data.commands[index].kind = "coin" /\ ~st.merged

(* the inputs, *)
InputsNow(st, found, index) ==
  IF MergesNow(st, index) THEN Gathered(st.data.inputs, found) ELSE st.data.inputs

(* the coin that is split, *)
SourceOf(inputs, kind, found) ==
  IF kind = "gas" THEN GasCoin ELSE CoinArg(inputs, InputIndex(inputs, found[1]))

(* the merge, *)
MergeFor(inputs, id, found, first) ==
  Command(Append(id, 0), "merge", [i \in DOMAIN found |-> CoinArg(inputs, first + i - 1)])

(* the split, *)
SplitFor(inputs, id, kind, found) == Command(id, "split", <<SourceOf(inputs, kind, found)>>)

(* and what the intent gives way to. *)
ReplacementFor(st, found, index) ==
  LET command == st.data.commands[index]
      inputs == InputsNow(st, found, index)
  IN Append(IF MergesNow(st, index) /\ Len(found) > 1
            THEN <<MergeFor(inputs, command.id, found, Len(st.data.inputs) + 1)>> ELSE <<>>,
            SplitFor(inputs, command.id, command.kind, found))

(* ResolveFirst in these words. *)
LEMMA ResolveFirstIs ==
  ASSUME NEW st, NEW found, FirstIntent(st.data.commands) # 0
  PROVE  LET index == FirstIntent(st.data.commands)
             new == ResolveFirst(st, found)
         IN /\ new.merged = (st.merged \/ MergesNow(st, index))
            /\ IF st.data.commands[index].kind = "zero"
               THEN new.data = [inputs |-> InputsNow(st, found, index),
                                commands |-> [st.data.commands EXCEPT
                                  ![index] = Command(st.data.commands[index].id, "call", <<>>)]]
               ELSE Splits(new.data, st.data, index, InputsNow(st, found, index), ReplacementFor(st, found, index))
BY DEF ResolveFirst, FirstIntent, MergesNow, InputsNow, ReplacementFor, SplitFor, MergeFor, SourceOf, CoinArg, Splits,
       ResolvedSplit, NestedTo, Gathered

(* The coins that resolveCoinBalance found, and whether they are inputs.   *)
FoundFits(found) ==
  /\ found \in Seq(Object) /\ Len(found) > 0
  /\ \A i, j \in 1 .. Len(found) : i # j => found[i] # found[j]

(* They are inputs once they are merged, and were not before. *)
CoinsFit(merged, inputs, found) ==
  IF merged THEN \E j \in 1 .. Len(inputs) : inputs[j].object = found[1]
  ELSE \A i \in 1 .. Len(found) : \A j \in 1 .. Len(inputs) : inputs[j].object # found[i]

(* The inputs stay inputs. *)
LEMMA InputsNowFit ==
  ASSUME NEW st, NEW found, FoundFits(found), st.data \in DataType, ApartIn(st.data.inputs), st.merged \in BOOLEAN,
         CoinsFit(st.merged, st.data.inputs, found), NEW index, NEW inputs, inputs = InputsNow(st, found, index)
  PROVE  /\ inputs \in Seq(InputType) /\ ApartIn(inputs) /\ InputsGrow(inputs, st.data.inputs)
         /\ CoinsFit(st.merged \/ MergesNow(st, index), inputs, found)
         /\ MergesNow(st, index) => GatheredInto(inputs, st.data.inputs, found)
<1>1. st.data.inputs \in Seq(InputType) /\ Len(st.data.inputs) \in Nat
  BY DataParts
<1>2. CASE MergesNow(st, index)
  <2>1. PICK x : x = st.data.inputs
    OBVIOUS
  <2>2. ~st.merged
    BY <1>2 DEF MergesNow
  <2>3. \A i \in 1 .. Len(found) : \A j \in 1 .. Len(x) : x[j].object # found[i]
    BY <2>1, <2>2 DEF CoinsFit
  <2>4. inputs = Gathered(x, found)
    BY <1>2, <2>1 DEF InputsNow
  <2>5. x \in Seq(InputType) /\ ApartIn(x) /\ found \in Seq(Object)
        /\ \A i, j \in 1 .. Len(found) : i # j => found[i] # found[j]
    BY <1>1, <2>1 DEF FoundFits
  <2>6. GatheredInto(inputs, x, found)
    BY <2>3, <2>4, <2>5, GatheredFits
  <2>7. inputs[Len(x) + 1].object = found[1] /\ Len(x) + 1 \in 1 .. Len(inputs)
    <3>1. 1 \in 1 .. Len(found) /\ Len(found) \in Nat /\ Len(x) \in Nat
      BY <1>1, <2>1, <2>5 DEF FoundFits
    <3>2. Len(inputs) = Len(x) + Len(found)
      BY <2>6 DEF GatheredInto
    <3> QED
      BY <2>6, <3>1, <3>2 DEF GatheredInto
  <2>8. CoinsFit(TRUE, inputs, found)
    BY <2>7 DEF CoinsFit
  <2>9. (st.merged \/ MergesNow(st, index)) <=> TRUE
    BY <1>2
  <2>10. CoinsFit(st.merged \/ MergesNow(st, index), inputs, found)
    BY <1>2, <2>8 DEF CoinsFit
  <2> QED
    BY <2>1, <2>6, <2>10 DEF GatheredInto
<1>3. CASE ~MergesNow(st, index)
  <2>1. inputs = st.data.inputs
    BY <1>3 DEF InputsNow
  <2>2. CoinsFit(st.merged \/ MergesNow(st, index), inputs, found)
    BY <1>3, <2>1 DEF CoinsFit
  <2> QED
    BY <1>1, <1>3, <2>1, <2>2, InputsSame
<1> QED
  BY <1>2, <1>3

(* A coin's argument fits. *)
LEMMA CoinArgFits ==
  ASSUME NEW inputs \in Seq(InputType), NEW i \in 1 .. Len(inputs), NEW a, a = CoinArg(inputs, i)
  PROVE  a \in ArgType /\ a.kind = "Input" /\ ObjectFits(inputs, a)
<1>1. PICK o, m : o = inputs[i].object /\ m = FALSE
  OBVIOUS
<1>2. o \in Object /\ m \in BOOLEAN /\ i \in Nat
  <2>1. inputs[i].object \in Object /\ Len(inputs) \in Nat
    BY InputParts
  <2>2. m \in BOOLEAN
    BY <1>1, Zenon
  <2>3. i \in Nat
    BY <2>1
  <2> QED
    BY <1>1, <2>1, <2>2, <2>3
<1>3. a = InputArg(i, o, m)
  BY <1>1 DEF CoinArg
<1>4. a \in ObjectType /\ a.kind = "Input" /\ a.at = i /\ a.of = o /\ a.mutable = m
  BY <1>2, <1>3, Constructed
<1> QED
  BY <1>1, <1>4 DEF ArgType, ObjectFits

(* The split is a command, *)
LEMMA SplitForIs ==
  ASSUME NEW inputs \in Seq(InputType), NEW id \in Name, NEW kind, NEW found,
         kind = "gas" \/ \E j \in 1 .. Len(inputs) : inputs[j].object = found[1],
         NEW c, c = SplitFor(inputs, id, kind, found)
  PROVE  /\ c \in CommandType /\ c.id = id /\ c.kind = "split" /\ Len(c.args) = 1
         /\ c.args[1].kind \in {"Input", "GasCoin"}
         /\ c.args[1].kind = "Input" => ObjectFits(inputs, c.args[1])
<1>1. PICK a : a = SourceOf(inputs, kind, found)
  OBVIOUS
<1>2. a \in ArgType /\ a.kind \in {"Input", "GasCoin"} /\ (a.kind = "Input" => ObjectFits(inputs, a))
  <2>1. CASE kind = "gas"
    <3>1. a = GasCoin
      BY <1>1, <2>1 DEF SourceOf
    <3> QED
      BY <3>1 DEF GasCoin, ArgType
  <2>2. CASE kind # "gas"
    <3>1. PICK o, i : o = found[1] /\ i = InputIndex(inputs, o)
      OBVIOUS
    <3>2. Len(inputs) \in Nat /\ \E j \in 1 .. Len(inputs) : inputs[j].object = o
      BY <2>2, <3>1, InputParts
    <3>3. i \in 1 .. Len(inputs)
      BY <3>1, <3>2, InputIndexed
    <3>4. a = CoinArg(inputs, i)
      BY <1>1, <2>2, <3>1 DEF SourceOf
    <3> QED
      BY <3>3, <3>4, CoinArgFits
  <2> QED
    BY <2>1, <2>2
<1>3. PICK split, args : split = "split" /\ args = <<a>>
  OBVIOUS
<1>4. split \in Kinds /\ args \in Seq(ArgType) /\ Len(args) = 1 /\ args[1] = a
  BY <1>2, <1>3 DEF Kinds
<1>5. c = Command(id, split, args)
  BY <1>1, <1>3 DEF SplitFor
<1>6. c \in CommandType /\ c.id = id /\ c.kind = split /\ c.args = args
  BY <1>4, <1>5, CommandIs
<1> QED
  BY <1>2, <1>3, <1>4, <1>6

(* and the merge, *)
LEMMA MergeForIs ==
  ASSUME NEW old \in Seq(InputType), NEW found, FoundFits(found), NEW inputs, GatheredInto(inputs, old, found),
         NEW id \in Name, NEW c, c = MergeFor(inputs, id, found, Len(old) + 1)
  PROVE  /\ c \in CommandType /\ c.id = Append(id, 0) /\ c.kind = "merge"
         /\ \A k \in 1 .. Len(c.args) : c.args[k].kind = "Input" /\ ObjectFits(inputs, c.args[k])
<1>1. PICK n, N, first : n = Len(found) /\ N = Len(old) /\ first = N + 1
  OBVIOUS
<1>2. n \in Nat /\ N \in Nat /\ DOMAIN found = 1 .. n /\ inputs \in Seq(InputType) /\ Len(inputs) = N + n
  BY <1>1 DEF FoundFits, GatheredInto
<1>3. PICK args : args = [i \in 1 .. n |-> CoinArg(inputs, first + i - 1)]
  OBVIOUS
<1>4. ASSUME NEW i \in 1 .. n  PROVE args[i] \in ArgType /\ args[i].kind = "Input" /\ ObjectFits(inputs, args[i])
  <2>1. PICK m : m = first + i - 1
    OBVIOUS
  <2>2. m \in 1 .. Len(inputs)
    BY <1>1, <1>2, <2>1
  <2>3. args[i] = CoinArg(inputs, m)
    BY <1>3, <2>1
  <2> QED
    BY <1>2, <2>2, <2>3, CoinArgFits
<1>5. args \in Seq(ArgType) /\ Len(args) = n
  <2>1. \A i \in 1 .. n : CoinArg(inputs, first + i - 1) \in ArgType
    BY <1>3, <1>4
  <2>2. args \in Seq(ArgType)
    BY <1>2, <1>3, <2>1, IsASeq
  <2> QED
    BY <1>2, <1>3, <2>2
<1>6. PICK merge, x : merge = "merge" /\ x = Append(id, 0)
  OBVIOUS
<1>7. merge \in Kinds /\ x \in Name
  <2>1. 0 \in Nat
    OBVIOUS
  <2> QED
    BY <1>6, <2>1, AppendedName DEF Kinds
<1>8. c = Command(x, merge, args)
  BY <1>1, <1>2, <1>3, <1>6 DEF MergeFor
<1>9. c \in CommandType /\ c.id = x /\ c.kind = merge /\ c.args = args
  BY <1>5, <1>7, <1>8, CommandIs
<1> QED
  BY <1>4, <1>5, <1>6, <1>9

(* so this is what an intent gives way to. *)
LEMMA ReplacementFits ==
  ASSUME NEW st, NEW found, FoundFits(found), st.data \in DataType, ApartIn(st.data.inputs), st.merged \in BOOLEAN,
         CoinsFit(st.merged, st.data.inputs, found), NEW index \in 1 .. Len(st.data.commands),
         st.data.commands[index].kind \in Intents \ {"zero"}, NEW z, z = st.data.commands[index].id,
         NEW inputs, inputs = InputsNow(st, found, index), NEW rep, rep = ReplacementFor(st, found, index)
  PROVE  \E n : Replacing(rep, inputs, z, n)
<1>1. /\ inputs \in Seq(InputType) /\ ApartIn(inputs) /\ InputsGrow(inputs, st.data.inputs)
      /\ CoinsFit(st.merged \/ MergesNow(st, index), inputs, found)
      /\ MergesNow(st, index) => GatheredInto(inputs, st.data.inputs, found)
  BY InputsNowFit
<1>2. z \in Name /\ st.data.inputs \in Seq(InputType)
  BY DataParts, CommandParts
<1>3. PICK kind, old : kind = st.data.commands[index].kind /\ old = st.data.inputs
  OBVIOUS
<1>4. PICK s : s = SplitFor(inputs, z, kind, found)
  OBVIOUS
<1>5. /\ s \in CommandType /\ s.id = z /\ s.kind = "split" /\ Len(s.args) = 1
      /\ s.args[1].kind \in {"Input", "GasCoin"}
      /\ s.args[1].kind = "Input" => ObjectFits(inputs, s.args[1])
  <2>1. kind = "gas" \/ kind = "coin"
    BY <1>3 DEF Intents
  <2>2. kind = "coin" => st.merged \/ MergesNow(st, index)
    BY <1>3 DEF MergesNow
  <2>3. kind = "gas" \/ \E j \in 1 .. Len(inputs) : inputs[j].object = found[1]
    BY <1>1, <2>1, <2>2 DEF CoinsFit
  <2> QED
    BY <1>1, <1>2, <1>4, <2>3, SplitForIs
<1>6. CASE MergesNow(st, index) /\ Len(found) > 1
  <2>1. PICK m : m = MergeFor(inputs, z, found, Len(old) + 1)
    OBVIOUS
  <2>2. /\ m \in CommandType /\ m.id = Append(z, 0) /\ m.kind = "merge"
        /\ \A k \in 1 .. Len(m.args) : m.args[k].kind = "Input" /\ ObjectFits(inputs, m.args[k])
    <3>1. old \in Seq(InputType) /\ GatheredInto(inputs, old, found)
      BY <1>1, <1>2, <1>3, <1>6
    <3> QED
      BY SMTT(30), <1>2, <2>1, <3>1, MergeForIs
  <2>3. PICK one : one = <<m>>
    OBVIOUS
  <2>4. rep \in Seq(CommandType) /\ Len(rep) = 2 /\ rep[1] = m /\ rep[2] = s
    <3>1. rep = Append(one, s)
      BY <1>3, <1>4, <1>6, <2>1, <2>3 DEF ReplacementFor
    <3>2. one \in Seq(CommandType) /\ Len(one) = 1 /\ one[1] = m
      BY <2>2, <2>3
    <3>3. PICK C : C = CommandType
      OBVIOUS
    <3>4. one \in Seq(C) /\ s \in C
      BY <1>5, <3>2, <3>3
    <3>5. /\ Append(one, s) \in Seq(C) /\ Len(Append(one, s)) = Len(one) + 1
          /\ Append(one, s)[Len(one) + 1] = s /\ \A i \in 1 .. Len(one) : Append(one, s)[i] = one[i]
      BY <3>4, AppendProperties
    <3>6. 1 \in 1 .. Len(one) /\ Len(one) + 1 = 2
      BY <3>2
    <3> QED
      BY <3>1, <3>2, <3>3, <3>5, <3>6
  <2>5. ASSUME NEW r \in 1 .. 2, NEW k \in 1 .. Len(rep[r].args)
        PROVE  /\ rep[r].args[k].kind \in {"Input", "GasCoin"}
               /\ rep[r].args[k].kind = "Input" => ObjectFits(inputs, rep[r].args[k])
    <3>1. CASE r = 1
      BY <2>2, <2>4, <2>5, <3>1
    <3>2. CASE r = 2
      <4>1. k = 1
        BY SMTT(30), <1>5, <2>4, <2>5, <3>2
      <4> QED
        BY <1>5, <2>4, <3>2, <4>1
    <3> QED
      BY <3>1, <3>2
  <2>6. Replacing(rep, inputs, z, 2)
    BY <1>5, <2>2, <2>4, <2>5 DEF Replacing
  <2> QED
    BY <2>6
<1>7. CASE ~(MergesNow(st, index) /\ Len(found) > 1)
  <2>1. rep = <<s>>
    <3>1. rep = Append(<<>>, s)
      BY <1>3, <1>4, <1>7 DEF ReplacementFor
    <3> QED
      BY <3>1
  <2>2. rep \in Seq(CommandType) /\ Len(rep) = 1 /\ rep[1] = s
    BY <1>5, <2>1
  <2>3. ASSUME NEW r \in 1 .. 1, NEW k \in 1 .. Len(rep[r].args)
        PROVE  /\ rep[r].args[k].kind \in {"Input", "GasCoin"}
               /\ rep[r].args[k].kind = "Input" => ObjectFits(inputs, rep[r].args[k])
    <3>0. r = 1
      OBVIOUS
    <3>1. r = 1 /\ k = 1
      <4>1. rep[r].args = s.args
        BY <2>2, <3>0
      <4>2. k \in 1 .. 1
        BY <1>5, <2>3, <4>1
      <4> QED
        BY <3>0, <4>2
    <3> QED
      BY <1>5, <2>2, <3>1
  <2>4. Replacing(rep, inputs, z, 1)
    BY <1>5, <2>2, <2>3 DEF Replacing
  <2> QED
    BY <2>4
<1> QED
  BY <1>6, <1>7

(* The names that the merges of the intents of c would have.               *)
MergesOf(c) == {x \in Name : x # <<>> /\ Last(x) = 0 /\ Front(x) \in NamesIn(c)}

(* After some intents of the commands c were resolved.                     *)
ResolvingFits(st, found, T, S, R, L, c) ==
  /\ st.merged \in BOOLEAN /\ DataFits(st.data, T, S, R, L) /\ CoinsFit(st.merged, st.data.inputs, found)
  /\ Len(c) <= Len(st.data.commands)
  /\ Len(st.data.commands) = Len(c) => \A i \in 1 .. Len(c) : st.data.commands[i].id = c[i].id
  /\ NamesIn(st.data.commands) \subseteq NamesIn(c) \cup MergesOf(c)

(* One intent gives way. *)
LEMMA ResolvedFits ==
  ASSUME NEW T, NEW S, NEW R, NEW L, NoMerges(T, S, R), S \in [DOMAIN S -> Name], NEW found, FoundFits(found),
         NEW c \in Seq(CommandType), NEW d, DataFits(d, T, S, R, L),
         Len(c) <= Len(d.commands), Len(d.commands) = Len(c) => \A i \in 1 .. Len(c) : d.commands[i].id = c[i].id,
         NamesIn(d.commands) \subseteq NamesIn(c) \cup MergesOf(c),
         NEW index \in 1 .. Len(d.commands), d.commands[index].kind \in Intents,
         NEW z, z = d.commands[index].id, NEW y, y = Append(z, 0), NEW e, RewrittenSomehow(e, d, {y}, S, S, T, R, 0, z),
         Len(d.commands) <= Len(e.commands), KeepsNames(e, d)
  PROVE  /\ DataFits(e, T, S, R, L) /\ Len(c) <= Len(e.commands)
         /\ (Len(e.commands) = Len(c) => \A i \in 1 .. Len(c) : e.commands[i].id = c[i].id)
         /\ NamesIn(e.commands) \subseteq NamesIn(c) \cup MergesOf(c)
<1>1. DataFits(e, T, S, R, L) /\ NamesIn(e.commands) \subseteq NamesIn(d.commands) \cup {y}
  <2>1. PICK old, X, g : Rewritten(e, d, old, X, S, S, T, R, g, z) /\ X = {y} /\ g = 0
    BY DEF RewrittenSomehow
  <2>2. DataFits(e, T, S, R, L) /\ NamesIn(e.commands) \subseteq NamesIn(d.commands) \cup X
    BY <2>1, RewrittenFits
  <2> QED
    BY <2>1, <2>2
<1>2. d.commands \in Seq(CommandType) /\ Len(d.commands) \in Nat /\ Len(e.commands) \in Nat /\ Len(c) \in Nat /\ KindsIn(d.commands, T)
  BY <1>1, DataParts, CommandParts DEF DataFits
<1>3. y \in MergesOf(c)
  <2>1. Last(z) # 0
    BY <1>2 DEF KindsIn, Intents
  <2>2. z \in NamesIn(d.commands)
    BY DEF NamesIn
  <2>3. z \in NamesIn(c) /\ z \in Name
    BY <1>2, <2>1, <2>2, CommandParts DEF MergesOf
  <2>4. 0 \in Nat
    OBVIOUS
  <2>5. y \in Name /\ y # <<>> /\ Last(y) = 0 /\ Front(y) = z
    BY <2>3, <2>4, AppendedName
  <2> QED
    BY <2>3, <2>5 DEF MergesOf
<1>4. Len(e.commands) = Len(c) => \A i \in 1 .. Len(c) : e.commands[i].id = c[i].id
  <2> SUFFICES ASSUME Len(e.commands) = Len(c)  PROVE \A i \in 1 .. Len(c) : e.commands[i].id = c[i].id
    OBVIOUS
  <2>1. Len(d.commands) = Len(c) /\ Len(e.commands) = Len(d.commands)
    BY <1>2
  <2> QED
    BY <2>1 DEF KeepsNames
<1>5. NamesIn(e.commands) \subseteq NamesIn(c) \cup MergesOf(c)
  BY <1>1, <1>3
<1>6. Len(c) <= Len(e.commands)
  BY <1>2
<1> QED
  BY <1>1, <1>4, <1>5, <1>6

(* So each turn of the loop keeps it. *)
LEMMA ResolveStep ==
  ASSUME NEW T, NEW S, NEW R, NEW L, NoMerges(T, S, R), S \in [DOMAIN S -> Name], NEW found, FoundFits(found),
         NEW c \in Seq(CommandType), NEW st, ResolvingFits(st, found, T, S, R, L, c),
         NEW new, new = ResolveFirst(st, found)
  PROVE  ResolvingFits(new, found, T, S, R, L, c)
<1>1. PICK index : index = FirstIntent(st.data.commands)
  OBVIOUS
<1>2. CASE index = 0
  <2>1. new = st
    BY <1>1, <1>2 DEF ResolveFirst, FirstIntent
  <2> QED
    BY <2>1
<1>3. CASE index # 0
  <2>1. PICK d : d = st.data
    OBVIOUS
  <2>2. /\ DataFits(d, T, S, R, L) /\ d \in DataType /\ d.commands \in Seq(CommandType) /\ ApartIn(d.inputs)
        /\ st.merged \in BOOLEAN /\ CoinsFit(st.merged, d.inputs, found)
        /\ Len(c) <= Len(d.commands) /\ (Len(d.commands) = Len(c) => \A i \in 1 .. Len(c) : d.commands[i].id = c[i].id)
        /\ NamesIn(d.commands) \subseteq NamesIn(c) \cup MergesOf(c) /\ Len(d.commands) \in Nat
    BY <2>1, DataParts DEF ResolvingFits, DataFits
  <2>3. index \in 1 .. Len(d.commands) /\ d.commands[index].kind \in Intents
    <3>1. index = FirstIntent(d.commands)
      BY <1>1, <2>1
    <3> QED
      BY <1>3, <2>2, <3>1, FirstIntentIs
  <2>4. PICK z, y, inputs, rep : /\ z = d.commands[index].id /\ y = Append(z, 0)
                                 /\ inputs = InputsNow(st, found, index) /\ rep = ReplacementFor(st, found, index)
    OBVIOUS
  <2>5. PICK e : e = new.data
    OBVIOUS
  <2>6. /\ new.merged = (st.merged \/ MergesNow(st, index))
        /\ IF d.commands[index].kind = "zero"
           THEN e = [inputs |-> inputs, commands |-> [d.commands EXCEPT ![index] = Command(z, "call", <<>>)]]
           ELSE Splits(e, d, index, inputs, rep)
    <3>1. FirstIntent(st.data.commands) # 0
      BY <1>1, <1>3
    <3> QED
      BY <1>1, <2>1, <2>4, <2>5, <3>1, ResolveFirstIs
  <2>7. /\ inputs \in Seq(InputType) /\ ApartIn(inputs) /\ InputsGrow(inputs, d.inputs)
        /\ CoinsFit(st.merged \/ MergesNow(st, index), inputs, found)
    BY <2>1, <2>2, <2>4, InputsNowFit
  <2>8. /\ RewrittenSomehow(e, d, {y}, S, S, T, R, 0, z) /\ Len(d.commands) <= Len(e.commands) /\ KeepsNames(e, d)
        /\ e.inputs = inputs
    <3>1. CASE d.commands[index].kind = "zero"
      <4>1. inputs = d.inputs
        BY <2>1, <2>4, <3>1 DEF InputsNow, MergesNow
      <4>2. e = [inputs |-> d.inputs, commands |-> [d.commands EXCEPT ![index] = Command(z, "call", <<>>)]]
        BY <2>6, <3>1, <4>1
      <4>3. GivesWay(e, d, y, z, S, T, R, 1)
        <5>1. DataFits(d, T, S, R, L) /\ z = d.commands[index].id /\ y = Append(z, 0) /\ NoMerges(T, S, R)
          BY <2>2, <2>4
        <5>2. index \in 1 .. Len(d.commands) /\ d.commands[index].kind \in Intents
          BY <2>3
        <5> HIDE DEF NoMerges
        <5> QED
          BY <4>2, <5>1, <5>2, ZeroRewrites
      <4>4. RewrittenSomehow(e, d, {y}, S, S, T, R, 0, z) /\ Len(e.commands) = Len(d.commands) + 1 - 1 /\ KeepsNames(e, d)
        BY <4>3 DEF GivesWay
      <4>5. e.inputs = inputs
        BY <4>1, <4>2
      <4> QED
        BY <2>2, <4>4, <4>5
    <3>2. CASE d.commands[index].kind # "zero"
      <4>1. Splits(e, d, index, inputs, rep)
        BY <2>6, <3>2
      <4>2. PICK n : Replacing(rep, inputs, z, n)
        <5>1. st.data.commands[index].kind \in Intents \ {"zero"} /\ index \in 1 .. Len(st.data.commands)
          BY <2>1, <2>3, <3>2
        <5>2. /\ st.data \in DataType /\ ApartIn(st.data.inputs) /\ CoinsFit(st.merged, st.data.inputs, found)
              /\ z = st.data.commands[index].id
          BY <2>1, <2>2, <2>4
        <5> QED
          BY <2>2, <2>4, <5>1, <5>2, ReplacementFits
      <4>3. GivesWay(e, d, y, z, S, T, R, n)
        <5>1. DataFits(d, T, S, R, L) /\ z = d.commands[index].id /\ y = Append(z, 0)
          BY <2>2, <2>4
        <5>2. inputs \in Seq(InputType) /\ InputsGrow(inputs, d.inputs) /\ ApartIn(inputs)
          BY <2>7
        <5> QED
          BY <2>3, <4>1, <4>2, <5>1, <5>2, SplitRewrites
      <4>4. n \in {1, 2}
        BY <4>2 DEF Replacing
      <4>5. RewrittenSomehow(e, d, {y}, S, S, T, R, 0, z) /\ Len(e.commands) = Len(d.commands) + n - 1 /\ KeepsNames(e, d)
        BY <4>3 DEF GivesWay
      <4>6. e.inputs = inputs
        BY <4>1 DEF Splits
      <4>7. Len(d.commands) <= Len(e.commands)
        BY <2>2, <4>4, <4>5
      <4> QED
        BY <4>5, <4>6, <4>7
    <3> QED
      BY <3>1, <3>2
  <2>9. /\ DataFits(e, T, S, R, L) /\ Len(c) <= Len(e.commands)
        /\ Len(e.commands) = Len(c) => \A i \in 1 .. Len(c) : e.commands[i].id = c[i].id
        /\ NamesIn(e.commands) \subseteq NamesIn(c) \cup MergesOf(c)
    BY <2>2, <2>3, <2>4, <2>8, ResolvedFits
  <2>10. new.merged \in BOOLEAN
    BY <2>6, Zenon
  <2>11. CoinsFit(new.merged, e.inputs, found)
    BY <2>6, <2>7, <2>8
  <2> QED
    BY <2>5, <2>9, <2>10, <2>11 DEF ResolvingFits
<1> QED
  BY <1>2, <1>3

(* The intents of d are resolved one after the other.                      *)
Resolved(d, found) ==
  LET resolve[n \in 0 .. Len(d.commands)] ==
        IF n = 0 THEN [merged |-> FALSE, data |-> d]
        ELSE LET before == resolve[n - 1] IN ResolveFirst(before, found)
  IN resolve[Len(d.commands)].data

(* turn by turn. *)
ResolvesInTurn(w, N, d, found) ==
  /\ w[0] = [merged |-> FALSE, data |-> d]
  /\ \A n \in 0 .. N : n # N => w[n + 1] = ResolveFirst(w[n], found)

(* The turns exist. *)
LEMMA ResolvedIs ==
  ASSUME NEW d, Len(d.commands) \in Nat, NEW found
  PROVE  \E w : ResolvesInTurn(w, Len(d.commands), d, found) /\ Resolved(d, found) = w[Len(d.commands)].data
<1> DEFINE st == [merged |-> FALSE, data |-> d]
           Good(n, g) == g = [k \in 0 .. n |-> IF k = 0 THEN st ELSE ResolveFirst(g[k - 1], found)]
           P == {n \in Nat : \E g : Good(n, g)}
<1>1. 0 \in P
  <2>1. Good(0, [k \in 0 .. 0 |-> st])
    OBVIOUS
  <2> QED
    BY <2>1
<1>2. ASSUME NEW n \in P \cap Nat  PROVE n + 1 \in P
  <2>1. PICK g : Good(n, g)
    OBVIOUS
  <2>2. PICK h : h = [k \in 0 .. n + 1 |-> IF k = n + 1 THEN ResolveFirst(g[n], found) ELSE g[k]]
    OBVIOUS
  <2>3. ASSUME NEW k \in 0 .. n + 1  PROVE h[k] = IF k = 0 THEN st ELSE ResolveFirst(h[k - 1], found)
    <3>1. CASE k = n + 1
      BY <2>2, <3>1
    <3>2. CASE k # n + 1
      <4>1. k \in 0 .. n /\ h[k] = g[k] /\ (k # 0 => k - 1 \in 0 .. n /\ k - 1 # n + 1 /\ h[k - 1] = g[k - 1])
        BY <2>2, <3>2
      <4> QED
        BY <2>1, <4>1
    <3> QED
      BY <3>1, <3>2
  <2>4. Good(n + 1, h)
    BY <2>2, <2>3
  <2>5. n + 1 \in Nat
    OBVIOUS
  <2> HIDE DEF Good
  <2> QED
    BY <2>4, <2>5
<1>3. Nat \subseteq P
  <2> HIDE DEF P
  <2> QED
    BY <1>1, <1>2, NatInduct
<1>4. PICK N : N = Len(d.commands)
  OBVIOUS
<1>5. \E g : Good(N, g)
  BY <1>3, <1>4
<1>6. PICK w : w = CHOOSE g : Good(N, g)
  OBVIOUS
<1>7. Good(N, w)
  <2> HIDE DEF Good
  <2> QED
    BY <1>5, <1>6
<1>8. Resolved(d, found) = w[N].data
  BY <1>4, <1>6 DEF Resolved
<1>9. ResolvesInTurn(w, N, d, found)
  <2>1. w[0] = st
    BY <1>4, <1>7
  <2>2. ASSUME NEW n \in 0 .. N, n # N  PROVE w[n + 1] = ResolveFirst(w[n], found)
    <3>1. n + 1 \in 0 .. N /\ n + 1 # 0 /\ (n + 1) - 1 = n
      BY <1>4, <2>2
    <3> QED
      BY <1>7, <3>1
  <2> QED
    BY <2>1, <2>2 DEF ResolvesInTurn
<1> QED
  BY <1>4, <1>8, <1>9

(* What is to hold before the loop, *)
Resolvable(d, found, T, S, R, L) ==
  /\ NoMerges(T, S, R) /\ S \in [DOMAIN S -> Name] /\ FoundFits(found)
  /\ DataFits(d, T, S, R, L) /\ CoinsFit(FALSE, d.inputs, found)

(* and what holds after it. *)
ResolvedInto(e, d, T, S, R, L) ==
  /\ DataFits(e, T, S, R, L) /\ Len(d.commands) <= Len(e.commands)
  /\ KeepsNames(e, d)
  /\ NamesIn(e.commands) \subseteq NamesIn(d.commands) \cup MergesOf(d.commands)

(* By induction on the turns. *)
LEMMA ResolvedDataFits ==
  ASSUME NEW T, NEW S, NEW R, NEW L, NEW found, NEW d, Resolvable(d, found, T, S, R, L),
         NEW e, e = Resolved(d, found)
  PROVE  ResolvedInto(e, d, T, S, R, L)
<1>0. /\ NoMerges(T, S, R) /\ S \in [DOMAIN S -> Name] /\ FoundFits(found)
      /\ DataFits(d, T, S, R, L) /\ CoinsFit(FALSE, d.inputs, found)
  BY DEF Resolvable
<1>1. PICK c, N : c = d.commands /\ N = Len(c)
  OBVIOUS
<1>2. c \in Seq(CommandType) /\ N \in Nat
  BY <1>0, <1>1, DataParts DEF DataFits
<1>3. PICK w : ResolvesInTurn(w, N, d, found) /\ e = w[N].data
  BY <1>1, <1>2, ResolvedIs
<1> DEFINE P == {n \in Nat : n <= N => ResolvingFits(w[n], found, T, S, R, L, c)}
<1>4. 0 \in P
  <2>1. w[0].merged = FALSE /\ w[0].data = d
    BY <1>3 DEF ResolvesInTurn
  <2>2. w[0].merged \in BOOLEAN
    BY <2>1, Zenon
  <2>3. CoinsFit(w[0].merged, d.inputs, found)
    BY <1>0, <2>1
  <2>4. ResolvingFits(w[0], found, T, S, R, L, c)
    BY <1>0, <1>1, <1>2, <2>1, <2>2, <2>3 DEF ResolvingFits
  <2> QED
    BY <2>4
<1>5. ASSUME NEW n \in P \cap Nat  PROVE n + 1 \in P
  <2>1. CASE n + 1 <= N
    <3>1. PICK st, new : st = w[n] /\ new = w[n + 1]
      OBVIOUS
    <3>2. ResolvingFits(st, found, T, S, R, L, c)
      BY <1>2, <2>1, <3>1
    <3>3. new = ResolveFirst(st, found)
      <4>1. n \in 0 .. N /\ n # N
        BY <1>2, <2>1
      <4> QED
        BY <1>3, <3>1, <4>1 DEF ResolvesInTurn
    <3>4. ResolvingFits(new, found, T, S, R, L, c)
      BY <1>0, <1>2, <3>2, <3>3, ResolveStep
    <3> QED
      BY <3>1, <3>4
  <2>2. CASE ~(n + 1 <= N)
    BY <2>2
  <2> QED
    BY <2>1, <2>2
<1>6. Nat \subseteq P
  <2> HIDE DEF P
  <2> QED
    BY <1>4, <1>5, NatInduct
<1>7. ResolvingFits(w[N], found, T, S, R, L, c)
  BY <1>2, <1>6
<1> QED
  BY <1>1, <1>3, <1>7 DEF ResolvingFits, ResolvedInto, KeepsNames

(* The sender's coins are different. *)
LEMMA FoundCoins ==
  ASSUME NEW found \in Found
  PROVE  FoundFits(found)
<1>1. PICK n \in 1 .. Len(Coins) : found = SubSeq(Coins, 1, n)
  BY DEF Found
<1>2. PICK C : C = {Coins[i] : i \in DOMAIN Coins}
  OBVIOUS
<1>3. Coins \in Seq(C) /\ Len(Coins) \in Nat /\ C \subseteq Object
  <2>1. Coins \in Seq(C)
    BY <1>2, BuilderAssumption
  <2>2. C \subseteq Object
    BY <1>2 DEF Object
  <2> QED
    BY <2>1, <2>2, LenProperties
<1>4. found \in Seq(C) /\ Len(found) = n /\ \A i \in 1 .. n : found[i] = Coins[i]
  BY <1>1, <1>3
<1>5. found \in Seq(Object)
  BY <1>3, <1>4, SeqRetype
<1>6. \A i, j \in 1 .. Len(found) : i # j => found[i] # found[j]
  <2>1. \A i \in 1 .. n : i \in DOMAIN Coins
    BY <1>3
  <2> QED
    BY <1>4, <2>1, BuilderAssumption
<1> QED
  BY <1>4, <1>5, <1>6 DEF FoundFits

(* A merge has a name that was given. *)
LEMMA MergesMade ==
  ASSUME BuilderInv, NEW x \in MergesOf(data.commands)
  PROVE  x \in Name /\ x # <<>> /\ Made(x) /\ (x[1] = 0 => Len(x) > 1 /\ x[2] <= special)
<1>1. BuilderTypes /\ NamesKnown
  BY DEF BuilderInv
<1>2. x \in Name /\ x # <<>> /\ Last(x) = 0 /\ Front(x) \in Known
  BY DEF MergesOf, Known, InData
<1>3. PICK y, n : y = Front(x) /\ n = Len(x)
  OBVIOUS
<1>4. y \in Name /\ y # <<>> /\ Made(y) /\ (y[1] = 0 => Len(y) > 1 /\ y[2] <= special)
  BY <1>1, <1>2, <1>3 DEF NamesKnown
<1>5. n \in Nat /\ n > 0 /\ x[n] = 0 /\ Len(y) = n - 1 /\ \A k \in 1 .. n - 1 : y[k] = x[k]
  BY <1>2, <1>3, FrontParts DEF Name
<1>6. Len(y) \in Nat /\ Len(y) > 0
  BY <1>4, FrontParts DEF Name
<1>7. x[1] = y[1] /\ (Len(y) > 1 => x[2] = y[2] /\ n > 1)
  BY <1>5, <1>6
<1>8. Made(x)
  <2> SUFFICES ASSUME NEW f \in DOMAIN count, Inside(x, f)  PROVE x[Len(f) + 1] <= count[f]
    BY DEF Made
  <2>1. f \in Name /\ Len(f) \in Nat /\ count[f] \in Nat
    BY <1>1, NameParts DEF BuilderTypes
  <2>2. PICK m : m = Len(f)
    OBVIOUS
  <2>3. m \in Nat /\ m < n /\ \A j \in 1 .. m : x[j] = f[j]
    BY <1>3, <2>1, <2>2 DEF Inside
  <2>4. CASE m = n - 1
    <3>1. m + 1 = n
      BY <1>5, <2>4
    <3> QED
      BY <1>5, <2>1, <2>2, <3>1
  <2>5. CASE m < n - 1
    <3>1. Inside(y, f)
      BY <1>5, <2>2, <2>3, <2>5 DEF Inside
    <3>2. y[m + 1] <= count[f]
      BY <1>4, <2>2, <3>1 DEF Made
    <3>3. m + 1 \in 1 .. n - 1
      BY <1>5, <2>3, <2>5
    <3> QED
      BY <1>5, <2>2, <3>2, <3>3
  <2> QED
    BY <1>5, <2>3, <2>4, <2>5
<1>9. x[1] = 0 => Len(x) > 1 /\ x[2] <= special
  BY <1>3, <1>4, <1>6, <1>7
<1> QED
  BY <1>2, <1>8, <1>9

(* resolveCoinBalance replaces the intents. *)
LEMMA ResolveIntentsKeeps ==
  ASSUME BuilderInv, NEW found \in Found, ResolveIntents(found)
  PROVE  BuilderInv'
<1>1. /\ phase \in {"resolving", "resolved"} /\ phase' = "resolved" /\ Unused(found)
      /\ data' = Resolved(data, found)
      /\ handles' = IF Len(data'.commands) = Len(data.commands) THEN handles ELSE [t \in {} |-> 0]
      /\ UNCHANGED <<section, available, running, thunks, count, refused, late>>
      /\ UNCHANGED <<standsFor, special>>
  BY DEF ResolveIntents, Resolved, bounds, HandlesLeftBehind
<1>2. /\ DataFits(data, Thunks, standsFor, refused, late) /\ standsFor \in [Replaced -> Name]
      /\ BuilderTypes /\ NamesKnown /\ special \in Nat /\ data \in DataType /\ Size \in Nat /\ HandlesPoint
  BY <1>1, SettledFits DEF BuilderInv
<1>3. FoundFits(found)
  BY FoundCoins
<1>4. NoMerges(Thunks, standsFor, refused)
  BY <1>2 DEF NoMerges, NamesKnown, Mentioned, Replaced
<1>5. CoinsFit(FALSE, data.inputs, found)
  <2> SUFFICES ASSUME NEW i \in 1 .. Len(found), NEW j \in 1 .. Len(data.inputs)
               PROVE  data.inputs[j].object # found[i]
    BY DEF CoinsFit
  <2>1. Len(data.inputs) \in Nat
    BY <1>2, DataParts
  <2>2. i \in DOMAIN found
    BY <1>3 DEF FoundFits
  <2>3. InputIndex(data.inputs, found[i]) = 0
    BY <1>1, <2>2 DEF Unused
  <2> QED
    BY <2>1, <2>3, InputIndexed
<1>6. PICK e : e = Resolved(data, found)
  OBVIOUS
<1>7. PICK S : S = standsFor
  OBVIOUS
<1>8. /\ DataFits(e, Thunks, S, refused, late) /\ Len(data.commands) <= Len(e.commands)
      /\ (Len(e.commands) = Len(data.commands) => \A i \in 1 .. Len(data.commands) : e.commands[i].id = data.commands[i].id)
      /\ NamesIn(e.commands) \subseteq NamesIn(data.commands) \cup MergesOf(data.commands)
  <2>1. PICK T, R, L, d : T = Thunks /\ R = refused /\ L = late /\ d = data
    OBVIOUS
  <2>2. Resolvable(d, found, T, S, R, L)
    BY <1>2, <1>3, <1>4, <1>5, <1>7, <2>1 DEF Replaced, Resolvable
  <2>3. ResolvedInto(e, d, T, S, R, L)
    BY <1>6, <2>1, <2>2, ResolvedDataFits
  <2> QED
    BY <2>1, <2>3 DEF ResolvedInto, KeepsNames
<1>9. PICK X : X = MergesOf(data.commands)
  OBVIOUS
<1>10. data' = e /\ standsFor' = S
  BY <1>1, <1>6, <1>7
<1>11. Rewrites(X, {})
  <2>1. /\ DataFits(data', Thunks, standsFor', refused, late) /\ InData' \subseteq InData \cup X
        /\ Size <= Size'
    BY <1>8, <1>9, <1>10 DEF InData, Size
  <2>2. \A x \in X : x \in Name /\ x # <<>> /\ Made(x) /\ (x[1] = 0 => Len(x) > 1 /\ x[2] <= special')
    BY <1>1, <1>9, MergesMade
  <2>3. Replaced' = Replaced /\ Thunks' = Thunks
    BY <1>1 DEF Replaced, Thunks
  <2>4. standsFor' \in [Replaced' -> Name] /\ Replaced' \cap Thunks \subseteq Replaced
    BY <1>1, <1>2, <2>3
  <2>5. handles' \in [DOMAIN handles' -> Nat] /\ DOMAIN handles' \subseteq DOMAIN handles
    <3>1. handles \in [DOMAIN handles -> Nat]
      BY <1>2 DEF BuilderTypes
    <3>2. CASE Len(data'.commands) = Len(data.commands)
      BY <1>1, <3>1, <3>2
    <3>3. CASE Len(data'.commands) # Len(data.commands)
      <4>1. handles' = [t \in {} |-> 0]
        BY <1>1, <3>3
      <4> QED
        BY <4>1
    <3> QED
      BY <3>2, <3>3
  <2>6. Mentioned' \subseteq Mentioned \cup {}
    BY <1>1, <2>3, <2>5 DEF Mentioned
  <2>7. ASSUME NEW id \in DOMAIN handles'
        PROVE  /\ handles' = handles /\ Len(data'.commands) = Len(data.commands) /\ id \in DOMAIN handles
               /\ \A i \in 1 .. Size : data'.commands[i].id = NameAt(i)
    <3>1. Len(data'.commands) = Len(data.commands)
      <4>1. SUFFICES ASSUME Len(data'.commands) # Len(data.commands)  PROVE FALSE
        OBVIOUS
      <4>2. handles' = [t \in {} |-> 0]
        BY <1>1, <4>1
      <4> QED
        BY <2>7, <4>2
    <3>2. handles' = handles
      BY <1>1, <3>1
    <3> QED
      BY <1>8, <1>10, <2>7, <3>1, <3>2 DEF Size, NameAt
  <2>8. ASSUME NEW id \in DOMAIN handles'
        PROVE  handles' = handles /\ (id \in Thunks \/
                 (id \notin Replaced' /\ handles[id] \in 1 .. Size' /\ data'.commands[handles[id]].id = id))
    <3>1. /\ handles' = handles /\ Len(data'.commands) = Len(data.commands) /\ id \in DOMAIN handles
          /\ \A i \in 1 .. Size : data'.commands[i].id = NameAt(i)
      BY <2>7, <2>8
    <3>2. Size' = Size
      BY <3>1 DEF Size
    <3>3. id \notin Thunks => id \notin Replaced /\ handles[id] \in 1 .. Size /\ NameAt(handles[id]) = id
      BY <1>2, <3>1 DEF HandlesPoint
    <3> QED
      BY <2>3, <3>1, <3>2, <3>3
  <2>9. ASSUME NEW t \in DOMAIN handles', t \in Thunks, Points(thunks[t].resultIndex, t)
        PROVE  PointsIn(data'.commands, Thunks, standsFor', thunks[t].resultIndex, t)
    <3>1. Len(data'.commands) = Len(data.commands) /\ \A i \in 1 .. Size : data'.commands[i].id = NameAt(i)
      BY <2>7, <2>9
    <3>2. PICK i : i = thunks[t].resultIndex
      OBVIOUS
    <3>3. PointsIn(data.commands, Thunks, standsFor, i, t)
      BY <2>9, <3>2 DEF Points
    <3>4. data'.commands[i].id = data.commands[i].id
      BY <3>1, <3>3 DEF PointsIn, Size, NameAt
    <3>5. standsFor' = standsFor
      BY <1>1
    <3>6. PointsIn(data'.commands, Thunks, standsFor, i, t)
      BY <3>1, <3>3, <3>4 DEF PointsIn
    <3> QED
      BY <3>2, <3>5, <3>6
  <2>10. \A id \in DOMAIN handles' : handles' = handles /\ (id \in Thunks \/
           (id \notin Replaced' /\ handles[id] \in 1 .. Size' /\ data'.commands[handles[id]].id = id))
    BY <2>8
  <2>11. \A t \in DOMAIN handles' : t \in Thunks /\ Points(thunks[t].resultIndex, t) =>
           PointsIn(data'.commands, Thunks, standsFor', thunks[t].resultIndex, t)
    BY <2>9
  <2>12. phase' \in {"resolving", "resolved"} /\ special' \in Nat /\ special <= special'
    BY <1>1, <1>2
  <2> QED
    BY <1>1, <2>1, <2>2, <2>4, <2>5, <2>6, <2>10, <2>11, <2>12 DEF Rewrites
<1> QED
  BY <1>1, <1>11, RewriteKeeps

(***************************************************************************)
(* Sorting: the names in their order                                       *)
(***************************************************************************)

(* The names o of the sorted commands, the first b where they were.        *)
SortedFits(o, b) ==
  /\ o \in Seq(Name) /\ Len(o) \in Nat /\ b <= Len(o)
  /\ \A k \in 1 .. b : o[k] = NameAt(k)
  /\ \A i \in 1 .. Len(o) : o[i] \notin Thunks
  /\ \A i \in b + 1 .. Len(o) : \E j \in b + 1 .. Size : o[i] = NameAt(j)
  /\ \A j \in b + 1 .. Size : NameAt(j) \notin Thunks => \E i \in b + 1 .. Len(o) : o[i] = NameAt(j)
  /\ \A i, j \in b + 1 .. Len(o) : i < j => Less(o[i], o[j])

(* Only the names of functions are continued by other names. *)
LEMMA AddedNotInside ==
  ASSUME BuilderTypes, NamesKnown, NEW b \in 0 .. Size, Base(b), Placed(b),
         NEW j \in b + 1 .. Size, NEW q \in InData, Inside(NameAt(j), q)
  PROVE  q \in Thunks
<1>1. PICK p, f : p = NameAt(j) /\ f = Front(p)
  OBVIOUS
<1>2. Size \in Nat /\ j \in 1 .. Size /\ q \in Known
  <2>1. Size \in Nat
    BY DataParts DEF BuilderTypes, Size
  <2> QED
    BY <2>1 DEF Known
<1>3. p \in Name /\ p # <<>> /\ f \in Forks
  BY <1>1, <1>2, NameAtParts DEF Placed
<1>4. f \in Name /\ Len(p) = Len(f) + 1 /\ \A k \in 1 .. Len(f) : f[k] = p[k]
  BY <1>1, <1>3, FrontName
<1>5. q \in Name /\ q # <<>> /\ Len(q) \in Nat /\ Len(f) \in Nat /\ Len(p) \in Nat
  BY <1>2, <1>3, <1>4, NameParts DEF NamesKnown
<1>6. Len(q) < Len(p) /\ \A k \in 1 .. Len(q) : p[k] = q[k]
  BY <1>1 DEF Inside
<1>7. q \in Forks
  <2>1. CASE Len(q) = Len(f)
    <3>1. \A k \in 1 .. Len(q) : q[k] = f[k]
      BY <1>4, <1>6, <2>1
    <3>2. q = f
      BY <1>4, <1>5, <2>1, <3>1, SameName
    <3> QED
      BY <1>3, <3>2
  <2>2. CASE Len(q) # Len(f)
    <3>1. Len(q) < Len(f)
      BY <1>4, <1>5, <1>6, <2>2
    <3>2. Inside(f, q)
      BY <1>4, <1>5, <1>6, <3>1 DEF Inside
    <3>3. Tree(Forks, EntriesOf(Forks, Name), PartOf("commands"))
      BY CommandTree
    <3> QED
      BY <1>3, <1>5, <3>2, <3>3, PrefixInTree
  <2> QED
    BY <2>1, <2>2
<1>8. InData \cap (Forks \ {Root}) \subseteq Thunks
  BY DEF Placed
<1> QED
  BY <1>5, <1>7, <1>8 DEF Root

(* NoPlaceholders leaves these. *)
LEMMA SortedNames ==
  ASSUME BuilderTypes, NamesKnown, NEW b \in 0 .. Size, Base(b), Placed(b),
         NEW o, o = NoPlaceholders(Flatten("commands"))
  PROVE  SortedFits(o, b)
<1>1. PICK flat : flat = Flatten("commands")
  OBVIOUS
<1>2. FlatFits(flat, b)
  BY <1>1, FlatCommands
<1>2a. \A m \in b + 1 .. Size : \E j \in b + 1 .. Size : flat[m] = NameAt(j)
  BY <1>2 DEF FlatFits
<1>3. Size \in Nat
  BY DataParts DEF BuilderTypes, Size
<1>4. flat \in Seq(Name) /\ Len(flat) = Size /\ \A k \in 1 .. b : flat[k] = NameAt(k)
  BY <1>2 DEF FlatFits
<1>5. PICK T : T = Thunks
  OBVIOUS
<1>6. o = Without(flat, T)
  BY <1>1, <1>5 DEF NoPlaceholders, Without, IsPlaceholder, Thunks
<1>7. o \in Seq(Name) /\ \E pos : Filtered(pos, o, flat, T)
  BY <1>4, <1>6, FilterPlaces
<1>8. PICK pos : Filtered(pos, o, flat, T)
  BY <1>7
<1>9. PICK n : n = Len(o)
  OBVIOUS
<1>10. n \in Nat
  BY <1>7, <1>9, LenProperties
<1>11. /\ \A m \in 1 .. n : pos[m] \in 1 .. Size /\ o[m] = flat[pos[m]] /\ o[m] \notin T
       /\ \A l, m \in 1 .. n : l < m => pos[l] < pos[m]
       /\ \A i \in 1 .. Size : flat[i] \notin T => \E m \in 1 .. n : pos[m] = i
  BY <1>4, <1>8, <1>9 DEF Filtered
<1>12. b <= n /\ \A m \in 1 .. b : pos[m] = m
  <2>1. b \in 0 .. Len(flat)
    BY <1>4
  <2>2. \A i \in 1 .. b : flat[i] \notin T
    BY <1>4, <1>5 DEF Base
  <2> QED
    BY <1>8, <1>9, <2>1, <2>2 DEF Filtered
<1>13. \A m \in b + 1 .. n : pos[m] \in b + 1 .. Size
  <2> SUFFICES ASSUME NEW m \in b + 1 .. n  PROVE pos[m] \in b + 1 .. Size
    OBVIOUS
  <2>1. m \in 1 .. n /\ pos[m] \in 1 .. Size
    BY <1>10, <1>11
  <2>2. CASE b = 0
    BY <1>3, <2>1, <2>2
  <2>3. CASE b # 0
    <3>1. b \in 1 .. n /\ b < m
      BY <1>3, <1>10, <1>12, <2>3
    <3>2. pos[b] = b /\ pos[b] < pos[m]
      BY <1>3, <1>11, <1>12, <2>1, <2>3, <3>1
    <3> QED
      BY <1>3, <2>1, <3>2
  <2> QED
    BY <2>2, <2>3
<1>14. \A k \in 1 .. b : o[k] = NameAt(k)
  BY <1>3, <1>4, <1>10, <1>11, <1>12
<1>15. \A i \in b + 1 .. n : \E j \in b + 1 .. Size : o[i] = NameAt(j)
  <2> SUFFICES ASSUME NEW i \in b + 1 .. n  PROVE \E j \in b + 1 .. Size : o[i] = NameAt(j)
    OBVIOUS
  <2>1. pos[i] \in b + 1 .. Size /\ o[i] = flat[pos[i]]
    BY <1>3, <1>10, <1>11, <1>13
  <2> QED
    BY <1>2a, <2>1
<1>16. \A j \in b + 1 .. Size : NameAt(j) \notin Thunks => \E i \in b + 1 .. n : o[i] = NameAt(j)
  <2> SUFFICES ASSUME NEW j \in b + 1 .. Size, NameAt(j) \notin Thunks  PROVE \E i \in b + 1 .. n : o[i] = NameAt(j)
    OBVIOUS
  <2>1. PICK k \in b + 1 .. Size : flat[k] = NameAt(j)
    BY <1>2 DEF FlatFits
  <2>2. PICK m \in 1 .. n : pos[m] = k
    BY <1>3, <1>5, <1>11, <2>1
  <2>3. m \in b + 1 .. n
    BY <1>3, <1>10, <1>12, <2>2
  <2> QED
    BY <1>11, <2>1, <2>2, <2>3
<1>17. \A i, j \in b + 1 .. n : i < j => Less(o[i], o[j])
  <2> SUFFICES ASSUME NEW i \in b + 1 .. n, NEW j \in b + 1 .. n, i < j  PROVE Less(o[i], o[j])
    OBVIOUS
  <2>1. /\ i \in 1 .. n /\ j \in 1 .. n /\ pos[i] < pos[j] /\ pos[i] \in b + 1 .. Size /\ pos[j] \in b + 1 .. Size
        /\ o[i] = flat[pos[i]] /\ o[j] = flat[pos[j]] /\ o[j] \notin Thunks
    BY <1>3, <1>5, <1>10, <1>11, <1>13
  <2>2. Post(o[i], o[j])
    BY <1>2, <2>1 DEF FlatFits
  <2>3. PICK k \in b + 1 .. Size : o[i] = NameAt(k)
    BY <1>15
  <2>4. PICK l \in b + 1 .. Size : o[j] = NameAt(l)
    BY <1>15
  <2>5. o[j] \in InData
    <3>1. l \in 1 .. Size
      BY <1>3
    <3> QED
      BY <2>4, <3>1, NameAtParts
  <2>6. ~Inside(o[i], o[j])
    BY <2>1, <2>3, <2>5, AddedNotInside
  <2> QED
    BY <2>2, <2>6 DEF Post
<1> QED
  BY <1>5, <1>7, <1>9, <1>10, <1>11, <1>12, <1>14, <1>15, <1>16, <1>17 DEF SortedFits

(* Where a command is after the sort. *)
LEMMA SortedIndex ==
  ASSUME BuilderTypes, NamesKnown, NEW b \in 0 .. Size, Base(b), NEW o, SortedFits(o, b),
         NEW j \in 1 .. Size, NEW m, m = NameAt(j), m \notin Thunks, NEW x, x = IndexOf(o, m)
  PROVE  x \in 1 .. Len(o) /\ o[x] = m /\ (j <= b => x <= j) /\ (j > b => x > b)
<1>1. Size \in Nat
  BY DataParts DEF BuilderTypes, Size
<1>2. Len(o) \in Nat /\ b <= Len(o) /\ \A k \in 1 .. b : o[k] = NameAt(k)
  BY DEF SortedFits
<1>3. x \in 0 .. Len(o) /\ (x # 0 => o[x] = m) /\ \A k \in 1 .. Len(o) : o[k] = m => x # 0 /\ x <= k
  BY <1>2, Indexed
<1>4. CASE j <= b
  <2>1. j \in 1 .. b /\ j \in 1 .. Len(o)
    BY <1>1, <1>2, <1>4
  <2>2. o[j] = m
    BY <1>2, <2>1
  <2> QED
    BY <1>2, <1>3, <1>4, <2>1, <2>2
<1>5. CASE j > b
  <2>1. j \in b + 1 .. Size
    BY <1>1, <1>5
  <2>2. PICK k \in b + 1 .. Len(o) : o[k] = m
    BY <2>1 DEF SortedFits
  <2>3. k \in 1 .. Len(o)
    BY <1>1, <1>2
  <2>4. x \in 1 .. Len(o) /\ o[x] = m
    BY <1>2, <1>3, <2>2, <2>3
  <2>5. x > b
    <3>1. SUFFICES ASSUME x \in 1 .. b  PROVE FALSE
      BY <1>1, <1>2, <2>4
    <3>2. NameAt(x) = NameAt(j)
      BY <1>2, <2>4, <3>1
    <3> QED
      BY <2>1, <3>1, <3>2, NewNotOld
  <2> QED
    BY <1>1, <1>5, <2>4, <2>5
<1> QED
  BY <1>1, <1>4, <1>5

(***************************************************************************)
(* Sorting: what OriginalIndex and UpdatedPlaceholders return              *)
(***************************************************************************)

(* A step of OriginalIndex, and its steps from i.                          *)
Walked(p, at) ==
  IF at \notin DOMAIN data.commands THEN 0
  ELSE IF ~IsPlaceholder(data.commands[at].id) THEN at
  ELSE IF thunks[data.commands[at].id].void THEN 0
  ELSE HandleIn(p, thunks[data.commands[at].id].result)

(* Its steps, *)
Walks(w, p, i) == w[0] = i /\ \A n \in Nat : w[n + 1] = Walked(p, w[n])

(* its result, *)
Ends(names, last) == IF last = 0 THEN 0 ELSE IndexOf(names, data.commands[last].id)

(* and both. *)
WalkedFrom(w, p, names, i) ==
  Walks(w, p, i) /\ OriginalIndex(p, names, i) = Ends(names, w[Cardinality(Thunks) + 1])

(* OriginalIndex in these words. *)
LEMMA WalkIs ==
  ASSUME IsFiniteSet(Thunks), NEW p, NEW names, NEW i \in Nat
  PROVE  \E w : WalkedFrom(w, p, names, i)
<1> DEFINE S == Nat \cup {HandleIn(p, thunks[t].result) : t \in Thunks}
           G == [n \in Nat |-> [x \in S |-> Walked(p, x)]]
<1>1. G \in [Nat -> [S -> S]]
  <2>1. \A x \in S : Walked(p, x) \in S
    <3> SUFFICES ASSUME NEW x \in S  PROVE Walked(p, x) \in S
      OBVIOUS
    <3>1. CASE x \notin DOMAIN data.commands
      BY <3>1 DEF Walked
    <3>2. CASE x \in DOMAIN data.commands
      BY <3>2 DEF Walked, IsPlaceholder, Thunks
    <3> QED
      BY <3>1, <3>2
  <2> HIDE DEF S
  <2> QED
    BY <2>1
<1>2. i \in S
  OBVIOUS
<1>3. PICK w : Iteration(w, S, G, i)
  <2> HIDE DEF S, G
  <2> QED
    BY <1>1, <1>2, IterateExists
<1>4. w \in [Nat -> S] /\ w[0] = i /\ \A n \in Nat : w[n + 1] = Walked(p, w[n])
  BY <1>3 DEF Iteration
<1> HIDE DEF S, G
<1> DEFINE Body(g) == [n \in Nat |-> IF n = 0 THEN i ELSE Walked(p, g[n - 1])]
           walk == CHOOSE g : g = Body(g)
<1>5. w = Body(w)
  <2>1. ASSUME NEW n \in Nat  PROVE w[n] = IF n = 0 THEN i ELSE Walked(p, w[n - 1])
    <3>1. CASE n = 0
      BY <1>4, <3>1
    <3>2. CASE n # 0
      <4>1. PICK m : m = n - 1
        OBVIOUS
      <4>2. m \in Nat /\ m + 1 = n
        BY <3>2, <4>1
      <4>3. w[m + 1] = Walked(p, w[m])
        BY <1>4, <4>2
      <4> QED
        BY <3>2, <4>1, <4>2, <4>3
    <3> QED
      BY <3>1, <3>2
  <2>2. w = [n \in Nat |-> w[n]]
    BY <1>4
  <2> QED
    BY <2>1, <2>2
<1>6. walk = Body(walk)
  <2> HIDE DEF Body
  <2> QED
    BY <1>5
<1> HIDE DEF walk
<1> DEFINE P == {n \in Nat : walk[n] = w[n]}
<1>7. 0 \in P
  BY <1>4, <1>6
<1>8. ASSUME NEW n \in P \cap Nat  PROVE n + 1 \in P
  <2>1. n + 1 \in Nat /\ n + 1 # 0 /\ (n + 1) - 1 = n
    OBVIOUS
  <2>2. walk[n + 1] = Walked(p, walk[n])
    BY <1>6, <2>1
  <2>3. w[n + 1] = Walked(p, w[n])
    BY <1>4
  <2> QED
    BY <2>1, <2>2, <2>3
<1>9. Nat \subseteq P
  <2> HIDE DEF P
  <2> QED
    BY <1>7, <1>8, NatInduct
<1>10. \A n \in Nat : walk[n] = w[n]
  BY <1>9
<1> DEFINE N == Cardinality(Thunks) + 1
<1>11. OriginalIndex(p, names, i) = IF walk[N] = 0 THEN 0 ELSE IndexOf(names, data.commands[walk[N]].id)
  BY DEF OriginalIndex, walk, Body, Walked, Thunks
<1>12. N \in Nat
  BY FS_CardinalityType
<1> HIDE DEF N
<1>13. OriginalIndex(p, names, i) = Ends(names, w[N])
  BY <1>10, <1>11, <1>12 DEF Ends
<1> QED
  BY <1>4, <1>13 DEF Walks, WalkedFrom, N

(* What the command at i means: a function's placeholder, its result.      *)
Wanted(i) == IF NameAt(i) \in Thunks THEN Meaning(NameAt(i)) ELSE NameAt(i)

(* OriginalIndex can have come from i to at: to what i means, or to the    *)
(* placeholder of a function that means the same.                          *)
Reaches(i, at) ==
  /\ at \in 1 .. Size /\ Wanted(at) = Wanted(i)
  /\ NameAt(at) = NameAt(i) \/ Post(NameAt(at), NameAt(i))

(* A step of the walk goes to one that was there before. *)
LEMMA WalkStep ==
  ASSUME BuilderTypes, NamesKnown, HandlesPoint, ThunksStand, Unresolved = {}, ~Rejected,
         NEW i \in 1 .. Size, NEW at, Reaches(i, at), NEW to, to = Walked(thunks, at)
  PROVE  to = 0 \/ Reaches(i, to)
<1>1. data.commands \in Seq(CommandType) /\ DOMAIN data.commands = 1 .. Size /\ thunks \in [Thunks -> ThunkType]
  BY DataParts, CommandParts DEF BuilderTypes, Size
<1>2. /\ at \in 1 .. Size /\ at \in DOMAIN data.commands /\ Wanted(at) = Wanted(i)
      /\ NameAt(at) = NameAt(i) \/ Post(NameAt(at), NameAt(i))
  BY <1>1 DEF Reaches
<1>3. CASE NameAt(at) \notin Thunks
  <2>1. to = at
    BY <1>2, <1>3 DEF Walked, IsPlaceholder, NameAt, Thunks
  <2> QED
    BY <2>1
<1>4. CASE NameAt(at) \in Thunks
  <2>1. PICK t, r : t = NameAt(at) /\ r = thunks[t].result
    OBVIOUS
  <2>2. t \in Thunks /\ t \in InData /\ thunks[t] \in ThunkType
    BY <1>1, <1>2, <1>4, <2>1, NameAtParts
  <2>3. thunks[t].state = "resolved"
    <3>1. thunks[t].state \in {"running", "resolved", "rejected"}
      BY <2>2 DEF ThunkType
    <3>2. thunks[t].state # "running"
      BY <2>2 DEF Unresolved, Thunks
    <3>3. thunks[t].state # "rejected"
      BY <2>2 DEF Rejected, Thunks
    <3> QED
      BY <3>1, <3>2, <3>3
  <2>4. CASE thunks[t].void
    <3>1. to = 0
      BY <1>2, <1>4, <2>1, <2>4 DEF Walked, IsPlaceholder, NameAt, Thunks
    <3> QED
      BY <3>1
  <2>5. CASE ~thunks[t].void
    <3>1. to = Handle(r)
      BY <1>2, <1>4, <2>1, <2>5 DEF Walked, IsPlaceholder, NameAt, Thunks, Handle
    <3>2. ReturnFits(t)
      BY <2>2, <2>3, <2>5 DEF ThunksStand
    <3>3. /\ r \in Referable /\ r # t /\ Post(NameAt(to), t) /\ t \in Replaced /\ Meaning(t) = Meaning(r)
      BY <2>1, <3>1, <3>2 DEF ReturnFits
    <3>4. Points(to, r) /\ to \in 1 .. Size
      BY <3>1, <3>3, HandleFits
    <3>5. NameAt(to) = IF NameAt(to) \in Thunks THEN r ELSE Meaning(r)
      BY <3>4 DEF Points, PointsIn, NameAt, Meaning, MeaningIn
    <3>6. Wanted(to) = Meaning(r) /\ Wanted(at) = Meaning(t)
      BY <1>4, <2>1, <3>5 DEF Wanted
    <3>7. Post(NameAt(to), NameAt(i))
      <4>1. NameAt(to) \in Name /\ NameAt(at) \in Name /\ NameAt(i) \in Name
        BY <1>2, <3>4, NameAtParts
      <4> QED
        BY <1>2, <2>1, <3>3, <4>1, PostOrder
    <3> QED
      BY <1>2, <3>3, <3>4, <3>6, <3>7 DEF Reaches
  <2> QED
    BY <2>4, <2>5
<1> QED
  BY <1>3, <1>4

(* Where a reference leads when commands are sorted: to what it wants.     *)
LEMMA OriginalIs ==
  ASSUME BuilderTypes, NamesKnown, HandlesPoint, ThunksStand, Unresolved = {}, ~Rejected,
         NEW b \in 0 .. Size, NEW o, SortedFits(o, b),
         NEW i \in 1 .. Size, NEW x, x = OriginalIndex(thunks, o, i), x # 0
  PROVE  \E j \in 1 .. Size : /\ NameAt(j) = Wanted(i) /\ NameAt(j) \notin Thunks /\ x = IndexOf(o, Wanted(i))
                              /\ NameAt(j) = NameAt(i) \/ Post(NameAt(j), NameAt(i))
<1>1. IsFiniteSet(Thunks) /\ Size \in Nat /\ i \in Nat
  BY DataParts DEF BuilderTypes, Size
<1>2. PICK w : WalkedFrom(w, thunks, o, i)
  BY <1>1, WalkIs
<1>3. w[0] = i /\ \A n \in Nat : w[n + 1] = Walked(thunks, w[n])
  BY <1>2 DEF WalkedFrom, Walks
<1> DEFINE P == {n \in Nat : w[n] = 0 \/ Reaches(i, w[n])}
<1>4. 0 \in P
  BY <1>3 DEF Reaches
<1>5. ASSUME NEW n \in P \cap Nat  PROVE n + 1 \in P
  <2>1. PICK at, to : at = w[n] /\ to = w[n + 1]
    OBVIOUS
  <2>2. to = Walked(thunks, at) /\ n + 1 \in Nat
    BY <1>3, <2>1
  <2>3. CASE at = 0
    <3>1. 0 \notin DOMAIN data.commands
      BY LenProperties, CommandParts, DataParts DEF BuilderTypes
    <3>2. to = 0
      BY <2>2, <2>3, <3>1 DEF Walked
    <3> QED
      BY <2>1, <2>2, <3>2
  <2>4. CASE Reaches(i, at)
    <3>1. to = 0 \/ Reaches(i, to)
      BY <2>2, <2>4, WalkStep
    <3> QED
      BY <2>1, <2>2, <3>1
  <2> QED
    BY <2>1, <2>3, <2>4
<1>6. Nat \subseteq P
  <2> HIDE DEF P
  <2> QED
    BY <1>4, <1>5, NatInduct
<1>7. PICK last : last = w[Cardinality(Thunks) + 1]
  OBVIOUS
<1>8. last = 0 \/ Reaches(i, last)
  <2>1. Cardinality(Thunks) + 1 \in Nat
    BY <1>1, FS_CardinalityType
  <2> QED
    BY <1>6, <1>7, <2>1
<1>9. x = Ends(o, last)
  BY <1>2, <1>7 DEF WalkedFrom
<1>10. last # 0 /\ x = IndexOf(o, NameAt(last))
  BY <1>9 DEF Ends, NameAt
<1>11. Reaches(i, last)
  BY <1>8, <1>10
<1>12. NameAt(last) \notin Thunks
  <2>1. Len(o) \in Nat /\ \A k \in 1 .. Len(o) : o[k] \notin Thunks
    BY DEF SortedFits
  <2>2. x \in 0 .. Len(o) /\ (x # 0 => o[x] = NameAt(last))
    BY <1>10, <2>1, Indexed
  <2>3. x \in 1 .. Len(o)
    BY <2>1, <2>2
  <2> QED
    BY <2>1, <2>2, <2>3
<1>13. NameAt(last) = Wanted(i)
  BY <1>11, <1>12 DEF Reaches, Wanted
<1> QED
  BY <1>10, <1>11, <1>12, <1>13 DEF Reaches

(* Where the result of a function that returned a command's result is.     *)
LEMMA OriginalOfReturned ==
  ASSUME BuilderTypes, HandlesPoint, ThunksStand, NEW p, DOMAIN p = Thunks, NEW o, NEW i \in 1 .. Size,
         NEW t, t = NameAt(i), t \in Thunks, thunks[t].state = "resolved", ~thunks[t].void,
         NEW r, r = thunks[t].result, r \notin Thunks
  PROVE  OriginalIndex(p, o, i) = IndexOf(o, r) /\ Meaning(t) = r /\ \E j \in 1 .. Size : NameAt(j) = r
<1>1. IsFiniteSet(Thunks) /\ Size \in Nat /\ i \in Nat /\ DOMAIN data.commands = 1 .. Size
  BY DataParts, CommandParts DEF BuilderTypes, Size
<1>2. t \in InData
  BY DEF InData, NamesIn, NameAt, Size
<1>3. r \in Referable /\ Meaning(t) = Meaning(r)
  BY <1>2 DEF ThunksStand, ReturnFits
<1>4. r \in DOMAIN handles \ Thunks
  BY <1>3 DEF Referable, Usable
<1>5. PICK h : h = handles[r]
  OBVIOUS
<1>6. h \in 1 .. Size /\ NameAt(h) = r /\ r \notin Replaced /\ h # 0
  BY <1>4, <1>5 DEF HandlesPoint
<1>7. Meaning(r) = r
  BY <1>6 DEF Meaning, Replaced
<1>8. PICK w : WalkedFrom(w, p, o, i)
  BY <1>1, WalkIs
<1>9. w[0] = i /\ \A n \in Nat : w[n + 1] = Walked(p, w[n])
  BY <1>8 DEF WalkedFrom, Walks
<1>10. Walked(p, i) = h
  BY <1>1, <1>5 DEF Walked, IsPlaceholder, HandleIn, NameAt, Thunks
<1>11. Walked(p, h) = h
  BY <1>1, <1>6 DEF Walked, IsPlaceholder, NameAt, Thunks
<1> DEFINE P == {n \in Nat : w[n + 1] = h}
<1>12. 0 \in P
  <2>1. w[0 + 1] = Walked(p, w[0])
    BY <1>9
  <2> QED
    BY <1>9, <1>10, <2>1
<1>13. ASSUME NEW n \in P \cap Nat  PROVE n + 1 \in P
  <2>1. n + 1 \in Nat
    OBVIOUS
  <2>2. w[(n + 1) + 1] = Walked(p, w[n + 1])
    BY <1>9, <2>1
  <2> QED
    BY <1>11, <2>1, <2>2
<1>14. Nat \subseteq P
  <2> HIDE DEF P
  <2> QED
    BY <1>12, <1>13, NatInduct
<1>15. PICK n : n = Cardinality(Thunks)
  OBVIOUS
<1>16. w[n + 1] = h
  <2>1. n \in Nat
    BY <1>1, <1>15, FS_CardinalityType
  <2> QED
    BY <1>14, <2>1
<1>17. OriginalIndex(p, o, i) = Ends(o, h)
  BY <1>8, <1>15, <1>16 DEF WalkedFrom
<1> QED
  BY <1>3, <1>6, <1>7, <1>17 DEF Ends, NameAt

(* The placeholder at i is told.                                           *)
Updated(before, names, i) ==
  IF IsPlaceholder(data.commands[i].id) /\ OriginalIndex(before, names, i) # 0
  THEN [before EXCEPT ![data.commands[i].id].resultIndex = OriginalIndex(before, names, i)]
  ELSE before

(* Its steps. *)
UpdatesInTurn(w, N, names) ==
  w[0] = thunks /\ \A n \in 0 .. N : n # N => w[n + 1] = Updated(w[n], names, n + 1)

(* UpdatedPlaceholders in these words. *)
LEMMA UpdatedIs ==
  ASSUME Size \in Nat, NEW names
  PROVE  \E w : UpdatesInTurn(w, Size, names) /\ UpdatedPlaceholders(names) = w[Size]
<1> DEFINE Good(n, g) == g = [k \in 0 .. n |-> IF k = 0 THEN thunks ELSE Updated(g[k - 1], names, k)]
           P == {n \in Nat : \E g : Good(n, g)}
<1>1. 0 \in P
  <2>1. Good(0, [k \in 0 .. 0 |-> thunks])
    OBVIOUS
  <2> QED
    BY <2>1
<1>2. ASSUME NEW n \in P \cap Nat  PROVE n + 1 \in P
  <2>1. PICK g : Good(n, g)
    OBVIOUS
  <2>2. PICK h : h = [k \in 0 .. n + 1 |-> IF k = n + 1 THEN Updated(g[n], names, n + 1) ELSE g[k]]
    OBVIOUS
  <2>3. ASSUME NEW k \in 0 .. n + 1  PROVE h[k] = IF k = 0 THEN thunks ELSE Updated(h[k - 1], names, k)
    <3>1. CASE k = n + 1
      <4>1. k - 1 = n /\ k # 0 /\ n \in 0 .. n + 1 /\ n # n + 1 /\ n \in 0 .. n
        BY <3>1
      <4>2. h[n] = g[n]
        BY <2>2, <4>1
      <4> QED
        BY <2>2, <3>1, <4>1, <4>2
    <3>2. CASE k # n + 1
      <4>1. k \in 0 .. n /\ h[k] = g[k] /\ (k # 0 => k - 1 \in 0 .. n /\ k - 1 # n + 1 /\ h[k - 1] = g[k - 1])
        BY <2>2, <3>2
      <4> QED
        BY <2>1, <4>1
    <3> QED
      BY <3>1, <3>2
  <2>4. Good(n + 1, h)
    BY <2>2, <2>3
  <2>5. n + 1 \in Nat
    OBVIOUS
  <2> HIDE DEF Good
  <2> QED
    BY <2>4, <2>5
<1>3. Nat \subseteq P
  <2> HIDE DEF P
  <2> QED
    BY <1>1, <1>2, NatInduct
<1>4. PICK N : N = Len(data.commands)
  OBVIOUS
<1>5. \E g : Good(N, g)
  BY <1>3, <1>4 DEF Size
<1>6. PICK w : w = CHOOSE g : Good(N, g)
  OBVIOUS
<1>7. Good(N, w)
  <2> HIDE DEF Good
  <2> QED
    BY <1>5, <1>6
<1>8. UpdatedPlaceholders(names) = w[N]
  BY <1>4, <1>6 DEF UpdatedPlaceholders, Updated
<1>9. UpdatesInTurn(w, N, names)
  <2>0. N \in Nat
    BY <1>4 DEF Size
  <2>1. w[0] = thunks
    BY <1>7, <2>0
  <2>2. ASSUME NEW n \in 0 .. N, n # N  PROVE w[n + 1] = Updated(w[n], names, n + 1)
    <3>1. n + 1 \in 0 .. N /\ n + 1 # 0 /\ (n + 1) - 1 = n
      BY <2>0, <2>2
    <3> QED
      BY <1>7, <3>1
  <2> QED
    BY <2>1, <2>2 DEF UpdatesInTurn
<1> QED
  BY <1>4, <1>8, <1>9 DEF Size

(* OriginalIndex returns an index. *)
LEMMA OriginalType ==
  ASSUME IsFiniteSet(Thunks), NEW p, NEW o, Len(o) \in Nat, NEW i \in Nat
  PROVE  OriginalIndex(p, o, i) \in 0 .. Len(o)
<1>1. PICK w : WalkedFrom(w, p, o, i)
  BY WalkIs
<1>2. PICK last : last = w[Cardinality(Thunks) + 1]
  OBVIOUS
<1>3. OriginalIndex(p, o, i) = Ends(o, last)
  BY <1>1, <1>2 DEF WalkedFrom
<1>4. IndexOf(o, data.commands[last].id) \in 0 .. Len(o)
  BY Indexed
<1> QED
  BY <1>3, <1>4 DEF Ends

(* The placeholders u once n commands were gone through.                   *)
UpdatedFits(u, o, n) ==
  /\ u \in [Thunks -> ThunkType]
  /\ \A t \in Thunks : u[t].state = thunks[t].state /\ u[t].result = thunks[t].result /\ u[t].void = thunks[t].void
  /\ \A t \in Thunks : (\A i \in 1 .. n : NameAt(i) # t) => u[t] = thunks[t]
  /\ \A i \in 1 .. n : \A t \in Thunks :
       NameAt(i) = t /\ ~thunks[t].void /\ thunks[t].result \notin Thunks =>
         u[t].resultIndex = IndexOf(o, thunks[t].result)

(* One command more. *)
LEMMA UpdateStep ==
  ASSUME BuilderTypes, NamesKnown, HandlesPoint, ThunksStand, Unresolved = {}, ~Rejected,
         NEW b \in 0 .. Size, Base(b), NEW o, SortedFits(o, b), NEW n \in Nat, NEW m, m = n + 1, m <= Size,
         NEW u, UpdatedFits(u, o, n), NEW v, v = Updated(u, o, m)
  PROVE  UpdatedFits(v, o, m)
<1>1. /\ IsFiniteSet(Thunks) /\ Size \in Nat /\ m \in 1 .. Size /\ m \in Nat /\ Len(o) \in Nat /\ u \in [Thunks -> ThunkType]
      /\ DOMAIN u = Thunks /\ thunks \in [Thunks -> ThunkType]
  BY DataParts DEF BuilderTypes, Size, SortedFits, UpdatedFits
<1>2. PICK id, x : id = NameAt(m) /\ x = OriginalIndex(u, o, m)
  OBVIOUS
<1>3. x \in Nat
  <2>1. x \in 0 .. Len(o)
    BY <1>1, <1>2, OriginalType
  <2> QED
    BY <1>1, <2>1
<1>4. v = IF id \in Thunks /\ x # 0 THEN [u EXCEPT ![id].resultIndex = x] ELSE u
  BY <1>2 DEF Updated, IsPlaceholder, NameAt, Thunks
<1>5. CASE id \notin Thunks
  <2>1. v = u
    BY <1>4, <1>5
  <2>2. \A t \in Thunks : (\A i \in 1 .. m : NameAt(i) # t) => v[t] = thunks[t]
    <3>1. 1 .. n \subseteq 1 .. m
      BY <1>1
    <3> QED
      BY <2>1, <3>1 DEF UpdatedFits
  <2>3. \A i \in 1 .. m : \A t \in Thunks :
          NameAt(i) = t /\ ~thunks[t].void /\ thunks[t].result \notin Thunks =>
            v[t].resultIndex = IndexOf(o, thunks[t].result)
    <3> SUFFICES ASSUME NEW i \in 1 .. m, NEW t \in Thunks, NameAt(i) = t, ~thunks[t].void, thunks[t].result \notin Thunks
                 PROVE  v[t].resultIndex = IndexOf(o, thunks[t].result)
      OBVIOUS
    <3>1. i # m
      BY <1>2, <1>5
    <3>2. i \in 1 .. n
      BY <1>1, <3>1
    <3> QED
      BY <2>1, <3>2 DEF UpdatedFits
  <2> QED
    BY <2>1, <2>2, <2>3 DEF UpdatedFits
<1>6. CASE id \in Thunks
  <2>1. u[id] \in ThunkType
    BY <1>1, <1>6
  <2>2. /\ v \in [Thunks -> ThunkType]
        /\ v[id].state = u[id].state /\ v[id].result = u[id].result /\ v[id].void = u[id].void
        /\ (x # 0 => v[id].resultIndex = x)
        /\ \A t \in Thunks : t # id => v[t] = u[t]
    <3>1. CASE x = 0
      BY <1>1, <1>4, <3>1
    <3>2. CASE x # 0
      <4>1. v = [u EXCEPT ![id] = [u[id] EXCEPT !.resultIndex = x]]
        BY <1>1, <1>4, <1>6, <3>2
      <4>2. PICK e : e = [u[id] EXCEPT !.resultIndex = x]
        OBVIOUS
      <4>3. e \in ThunkType /\ e.state = u[id].state /\ e.result = u[id].result /\ e.void = u[id].void /\ e.resultIndex = x
        BY <1>3, <2>1, <4>2 DEF ThunkType
      <4> QED
        BY <1>1, <1>6, <4>1, <4>2, <4>3
    <3> QED
      BY <3>1, <3>2
  <2>3. \A t \in Thunks : v[t].state = thunks[t].state /\ v[t].result = thunks[t].result /\ v[t].void = thunks[t].void
    <3> SUFFICES ASSUME NEW t \in Thunks
                 PROVE  v[t].state = thunks[t].state /\ v[t].result = thunks[t].result /\ v[t].void = thunks[t].void
      OBVIOUS
    <3>1. u[t].state = thunks[t].state /\ u[t].result = thunks[t].result /\ u[t].void = thunks[t].void
      BY DEF UpdatedFits
    <3>2. CASE t = id
      BY <2>2, <3>1, <3>2
    <3>3. CASE t # id
      BY <2>2, <3>1, <3>3
    <3> QED
      BY <3>2, <3>3
  <2>4. \A t \in Thunks : (\A i \in 1 .. m : NameAt(i) # t) => v[t] = thunks[t]
    <3> SUFFICES ASSUME NEW t \in Thunks, \A i \in 1 .. m : NameAt(i) # t  PROVE v[t] = thunks[t]
      OBVIOUS
    <3>1. m \in 1 .. m /\ 1 .. n \subseteq 1 .. m
      BY <1>1
    <3>2. t # id
      BY <1>2, <3>1
    <3>3. u[t] = thunks[t]
      BY <3>1 DEF UpdatedFits
    <3> QED
      BY <2>2, <3>2, <3>3
  <2>5. \A i \in 1 .. m : \A t \in Thunks :
          NameAt(i) = t /\ ~thunks[t].void /\ thunks[t].result \notin Thunks =>
            v[t].resultIndex = IndexOf(o, thunks[t].result)
    <3> SUFFICES ASSUME NEW i \in 1 .. m, NEW t \in Thunks, NameAt(i) = t, ~thunks[t].void, thunks[t].result \notin Thunks
                 PROVE  v[t].resultIndex = IndexOf(o, thunks[t].result)
      OBVIOUS
    <3>1. CASE t # id
      <4>1. i \in 1 .. n
        <5>1. i # m
          BY <1>2, <3>1
        <5> QED
          BY <1>1, <5>1
      <4>2. u[t].resultIndex = IndexOf(o, thunks[t].result)
        BY <4>1 DEF UpdatedFits
      <4> QED
        BY <2>2, <3>1, <4>2
    <3>2. CASE t = id
      <4>1. PICK r : r = thunks[t].result
        OBVIOUS
      <4>2. thunks[t].state = "resolved"
        <5>1. thunks[t] \in ThunkType
          BY <1>1
        <5>2. thunks[t].state \in {"running", "resolved", "rejected"}
          BY <5>1 DEF ThunkType
        <5>3. thunks[t].state # "running"
          BY DEF Unresolved, Thunks
        <5>4. thunks[t].state # "rejected"
          BY DEF Rejected, Thunks
        <5> QED
          BY <5>2, <5>3, <5>4
      <4>3. x = IndexOf(o, r) /\ \E j \in 1 .. Size : NameAt(j) = r
        BY <1>1, <1>2, <1>6, <3>2, <4>1, <4>2, OriginalOfReturned
      <4>4. PICK j \in 1 .. Size : NameAt(j) = r
        BY <4>3
      <4>5. x \in 1 .. Len(o)
        BY <4>1, <4>3, <4>4, SortedIndex
      <4> QED
        BY <1>1, <2>2, <3>2, <4>1, <4>3, <4>5
    <3> QED
      BY <3>1, <3>2
  <2> QED
    BY <2>2, <2>3, <2>4, <2>5 DEF UpdatedFits
<1> QED
  BY <1>5, <1>6

(* All commands. *)
LEMMA PlaceholdersUpdated ==
  ASSUME BuilderTypes, NamesKnown, HandlesPoint, ThunksStand, Unresolved = {}, ~Rejected,
         NEW b \in 0 .. Size, Base(b), NEW o, SortedFits(o, b), NEW u, u = UpdatedPlaceholders(o)
  PROVE  UpdatedFits(u, o, Size)
<1>1. Size \in Nat
  BY DataParts DEF BuilderTypes, Size
<1>2. PICK w : UpdatesInTurn(w, Size, o) /\ u = w[Size]
  BY <1>1, UpdatedIs
<1> DEFINE P == {n \in Nat : n <= Size => UpdatedFits(w[n], o, n)}
<1>3. 0 \in P
  <2>1. w[0] = thunks
    BY <1>2 DEF UpdatesInTurn
  <2>2. UpdatedFits(thunks, o, 0)
    <3>1. 1 .. 0 = {}
      OBVIOUS
    <3> QED
      BY <3>1 DEF UpdatedFits, BuilderTypes
  <2> QED
    BY <2>1, <2>2
<1>4. ASSUME NEW n \in P \cap Nat  PROVE n + 1 \in P
  <2>1. CASE n + 1 <= Size
    <3>1. PICK m, before, after : m = n + 1 /\ before = w[n] /\ after = w[n + 1]
      OBVIOUS
    <3>2. UpdatedFits(before, o, n) /\ m <= Size /\ m \in Nat /\ n \in Nat
      BY <1>1, <2>1, <3>1
    <3>3. after = Updated(before, o, m)
      <4>1. n \in 0 .. Size /\ n # Size
        BY <1>1, <2>1
      <4> QED
        BY <1>2, <3>1, <4>1 DEF UpdatesInTurn
    <3>4. UpdatedFits(after, o, m)
      BY <3>1, <3>2, <3>3, UpdateStep
    <3> QED
      BY <3>1, <3>2, <3>4
  <2>2. CASE ~(n + 1 <= Size)
    BY <2>2
  <2> QED
    BY <2>1, <2>2
<1>5. Nat \subseteq P
  <2> HIDE DEF P
  <2> QED
    BY <1>3, <1>4, NatInduct
<1> QED
  BY <1>1, <1>2, <1>5

(***************************************************************************)
(* Sorting: the data                                                       *)
(***************************************************************************)

(* An argument after sorting, when the commands are o and the inputs are   *)
(* those of the objects.                                                   *)
SortedArg(o, objects, arg) ==
  CASE arg.kind = "Input" -> [arg EXCEPT !.at = IndexOf(objects, data.inputs[@].object)]
    [] RefersToResult(arg) -> [arg EXCEPT !.at = OriginalIndex(thunks, o, @)]
    [] OTHER -> arg

(* What it is. *)
LEMMA SortedArgParts ==
  ASSUME IsFiniteSet(Thunks), NEW o, Len(o) \in Nat, NEW objects, Len(objects) \in Nat, NEW arg \in ArgType,
         NEW new, new = SortedArg(o, objects, arg)
  PROVE  /\ new \in ArgType /\ new.kind = arg.kind
         /\ arg.kind = "Input" => /\ new.of = arg.of /\ new.mutable = arg.mutable
                                  /\ new.at = IndexOf(objects, data.inputs[arg.at].object)
         /\ RefersToResult(arg) => RefersToResult(new) /\ new.of = arg.of /\ new.at = OriginalIndex(thunks, o, arg.at)
         /\ RefersToResult(new) => RefersToResult(arg)
<1>1. /\ RefersToResult(arg) <=> arg \in ResultType
      /\ arg.kind = "Input" <=> arg \in ObjectType
      /\ RefersToResult(arg) <=> arg.kind \in {"Result", "NestedResult"}
      /\ arg.kind \in {"Result", "NestedResult", "Input", "GasCoin"} /\ arg.at \in Nat
  BY ArgParts
<1>2. CASE arg.kind = "Input"
  <2>1. PICK v : v = IndexOf(objects, data.inputs[arg.at].object)
    OBVIOUS
  <2>2. v \in Nat
    <3>1. v \in 0 .. Len(objects)
      BY <2>1, Indexed
    <3> QED
      BY <3>1
  <2>3. new = [arg EXCEPT !.at = v]
    <3>1. ~RefersToResult(arg)
      BY <1>2 DEF RefersToResult
    <3> QED
      BY <1>2, <2>1, <3>1 DEF SortedArg
  <2>4. new \in ObjectType /\ new.kind = arg.kind /\ new.of = arg.of /\ new.at = v /\ new.mutable = arg.mutable
    BY <1>1, <1>2, <2>2, <2>3, ArgUpdates
  <2> QED
    BY <1>1, <1>2, <2>1, <2>4 DEF ArgType, RefersToResult
<1>3. CASE RefersToResult(arg)
  <2>1. PICK v : v = OriginalIndex(thunks, o, arg.at)
    OBVIOUS
  <2>2. v \in Nat
    <3>1. v \in 0 .. Len(o)
      BY <1>1, <2>1, OriginalType
    <3> QED
      BY <3>1
  <2>3. new = [arg EXCEPT !.at = v]
    <3>1. arg.kind # "Input"
      BY <1>1, <1>3
    <3> QED
      BY <1>3, <2>1, <3>1 DEF SortedArg
  <2>4. new \in ResultType /\ new.kind = arg.kind /\ new.of = arg.of /\ new.at = v
    BY <1>1, <1>3, <2>2, <2>3, ArgUpdates
  <2> QED
    BY <1>1, <1>3, <2>1, <2>4 DEF ArgType, RefersToResult
<1>4. CASE arg.kind # "Input" /\ ~RefersToResult(arg)
  <2>1. new = arg
    BY <1>4 DEF SortedArg
  <2> QED
    BY <1>4, <2>1
<1> QED
  BY <1>2, <1>3, <1>4

(* The commands in their new order, before their arguments are changed.    *)
Reordered(o) == [i \in DOMAIN o |-> data.commands[IndexOf(Names(data.commands), o[i])]]

(* with their arguments sorted. *)
SortedCommands(o, objects) == MapArguments(Reordered(o), LAMBDA arg, i : SortedArg(o, objects, arg))

(* Where the command at i was. *)
Source(o, i) == IndexOf(Names(data.commands), o[i])

(* The data after sorting.                                                 *)
SortedData(e, o, objects) ==
  /\ e \in DataType /\ Len(e.commands) = Len(o) /\ Len(e.inputs) = Len(objects)
  /\ \A i \in 1 .. Len(o) :
       /\ Source(o, i) \in 1 .. Size /\ NameAt(Source(o, i)) = o[i]
       /\ e.commands[i].id = o[i] /\ e.commands[i].kind = KindAt(Source(o, i))
       /\ Len(e.commands[i].args) = Len(ArgsAt(Source(o, i)))
       /\ \A k \in 1 .. Len(e.commands[i].args) :
            e.commands[i].args[k] = SortedArg(o, objects, ArgsAt(Source(o, i))[k])
  /\ \A i \in 1 .. Len(objects) : e.inputs[i] = data.inputs[InputIndex(data.inputs, objects[i])]

(* They are. *)
LEMMA SortedDataIs ==
  ASSUME BuilderTypes, NEW o \in Seq(Name), \A i \in 1 .. Len(o) : o[i] \in InData,
         NEW objects, ObjectsFit(objects), NEW e,
         e = [inputs |-> [i \in DOMAIN objects |-> data.inputs[InputIndex(data.inputs, objects[i])]],
              commands |-> SortedCommands(o, objects)]
  PROVE  SortedData(e, o, objects)
<1>1. /\ data.commands \in Seq(CommandType) /\ data.inputs \in Seq(InputType) /\ IsFiniteSet(Thunks)
      /\ Len(o) \in Nat /\ DOMAIN o = 1 .. Len(o) /\ Len(data.commands) = Size /\ Size \in Nat /\ Len(data.inputs) \in Nat
  BY DataParts, LenProperties DEF BuilderTypes, Size
<1>2. objects \in Seq(Object) /\ Len(objects) \in Nat /\ DOMAIN objects = 1 .. Len(objects)
  BY LenProperties DEF ObjectsFit
<1>3. ASSUME NEW i \in 1 .. Len(o)
      PROVE  Source(o, i) \in 1 .. Size /\ NameAt(Source(o, i)) = o[i]
  <2>1. o[i] \in NamesIn(data.commands)
    BY DEF InData
  <2>2. PICK s : s = Source(o, i)
    OBVIOUS
  <2>3. s \in 0 .. Size /\ s # 0 /\ data.commands[s].id = o[i]
    BY <1>1, <2>1, <2>2, IndexOfNames DEF Source
  <2>4. s \in 1 .. Size
    BY <1>1, <2>3
  <2> QED
    BY <2>2, <2>3, <2>4 DEF NameAt
<1>4. PICK c : c = Reordered(o)
  OBVIOUS
<1>5. /\ c \in Seq(CommandType) /\ Len(c) = Len(o)
      /\ \A i \in 1 .. Len(o) : c[i] = data.commands[Source(o, i)] /\ c[i].id = o[i] /\ c[i].kind = KindAt(Source(o, i))
                                /\ c[i].args = ArgsAt(Source(o, i))
  <2>1. c = [i \in 1 .. Len(o) |-> data.commands[Source(o, i)]]
    BY <1>1, <1>4 DEF Reordered, Source
  <2>2. \A i \in 1 .. Len(o) : data.commands[Source(o, i)] \in CommandType
    BY <1>1, <1>3, CommandParts
  <2>3. c \in [1 .. Len(o) -> CommandType]
    BY <2>1, <2>2
  <2>4. c \in Seq(CommandType) /\ Len(c) = Len(o)
    <3>1. PICK n : n = Len(o)
      OBVIOUS
    <3>2. n \in Nat /\ c \in [1 .. n -> CommandType]
      BY <1>1, <2>3, <3>1
    <3>3. c \in Seq(CommandType) /\ Len(c) = n
      BY <3>2
    <3> QED
      BY <3>1, <3>3
  <2> QED
    BY <1>3, <2>1, <2>4 DEF NameAt, KindAt, ArgsAt
<1>6. /\ DOMAIN c = 1 .. Len(c)
      /\ \A i \in 1 .. Len(c) : /\ DOMAIN c[i].args = 1 .. Len(c[i].args)
                                /\ \A k \in 1 .. Len(c[i].args) : c[i].args[k] \in ArgType
  BY <1>5, CommandParts
<1>7. PICK x : x = SortedCommands(o, objects)
  OBVIOUS
<1>8. x = [i \in DOMAIN c |-> [c[i] EXCEPT !.args = [k \in DOMAIN c[i].args |-> SortedArg(o, objects, c[i].args[k])]]]
  BY <1>4, <1>7 DEF SortedCommands, MapArguments
<1> DEFINE E == [i \in 1 .. Len(c) |-> [k \in 1 .. Len(c[i].args) |-> SortedArg(o, objects, c[i].args[k])]]
<1>9. x = WithArgs(c, E)
  BY <1>6, <1>8 DEF WithArgs
<1>10. ASSUME NEW i \in 1 .. Len(c)  PROVE E[i] \in [1 .. Len(c[i].args) -> ArgType]
  <2>1. ASSUME NEW k \in 1 .. Len(c[i].args)  PROVE SortedArg(o, objects, c[i].args[k]) \in ArgType
    <3>1. PICK arg, new : arg = c[i].args[k] /\ new = SortedArg(o, objects, arg)
      OBVIOUS
    <3>2. arg \in ArgType
      BY <1>6, <3>1
    <3>3. new \in ArgType
      BY <1>1, <1>2, <3>1, <3>2, SortedArgParts
    <3> QED
      BY <3>1, <3>3
  <2> QED
    BY <2>1
<1>11. /\ x \in Seq(CommandType) /\ SameButArgs(x, c)
       /\ \A i \in 1 .. Len(c) : \A k \in 1 .. Len(c[i].args) : x[i].args[k] = E[i][k]
  <2>1. c \in Seq(CommandType)
    BY <1>5
  <2> HIDE DEF E
  <2> QED
    BY <1>9, <1>10, <2>1, MapAll
<1>12. \A i \in 1 .. Len(c) : \A k \in 1 .. Len(c[i].args) : x[i].args[k] = SortedArg(o, objects, c[i].args[k])
  BY <1>11
<1>13. PICK inputs : inputs = [i \in 1 .. Len(objects) |-> data.inputs[InputIndex(data.inputs, objects[i])]]
  OBVIOUS
<1>14. inputs \in Seq(InputType) /\ Len(inputs) = Len(objects)
       /\ \A i \in 1 .. Len(objects) : inputs[i] = data.inputs[InputIndex(data.inputs, objects[i])]
  <2>1. ASSUME NEW i \in 1 .. Len(objects)  PROVE data.inputs[InputIndex(data.inputs, objects[i])] \in InputType
    <3>1. PICK j \in 1 .. Len(data.inputs) : objects[i] = data.inputs[j].object
      BY DEF ObjectsFit
    <3>2. InputIndex(data.inputs, objects[i]) \in 1 .. Len(data.inputs)
      <4>1. /\ InputIndex(data.inputs, objects[i]) \in 0 .. Len(data.inputs)
            /\ \A l \in 1 .. Len(data.inputs) : data.inputs[l].object = objects[i] => InputIndex(data.inputs, objects[i]) # 0
        BY <1>1, InputIndexed
      <4>2. PICK l : l = InputIndex(data.inputs, objects[i])
        OBVIOUS
      <4>3. l \in 0 .. Len(data.inputs) /\ l # 0
        BY <3>1, <4>1, <4>2
      <4>4. l \in 1 .. Len(data.inputs)
        BY <1>1, <4>3
      <4> QED
        BY <4>2, <4>4
    <3> QED
      BY <1>1, <3>2, InputParts
  <2>2. inputs \in [1 .. Len(objects) -> InputType]
    BY <1>13, <2>1
  <2>3. PICK n : n = Len(objects)
    OBVIOUS
  <2>4. n \in Nat /\ inputs \in [1 .. n -> InputType]
    BY <1>2, <2>2, <2>3
  <2>5. inputs \in Seq(InputType) /\ Len(inputs) = n
    BY <2>4
  <2> QED
    BY <1>13, <2>3, <2>5
<1>15. e.commands = x /\ e.inputs = inputs /\ e = [inputs |-> inputs, commands |-> x]
  BY <1>2, <1>7, <1>13
<1>16. e \in DataType
  BY <1>11, <1>14, <1>15 DEF DataType
<1>17. ASSUME NEW i \in 1 .. Len(o)
       PROVE  /\ x[i].id = o[i] /\ x[i].kind = KindAt(Source(o, i)) /\ Len(x[i].args) = Len(ArgsAt(Source(o, i)))
              /\ \A k \in 1 .. Len(x[i].args) : x[i].args[k] = SortedArg(o, objects, ArgsAt(Source(o, i))[k])
  <2>1. x[i].id = c[i].id /\ x[i].kind = c[i].kind /\ Len(x[i].args) = Len(c[i].args)
    BY <1>5, <1>11 DEF SameButArgs
  <2>2. /\ c[i].id = o[i] /\ c[i].kind = KindAt(Source(o, i)) /\ c[i].args = ArgsAt(Source(o, i)) /\ i \in 1 .. Len(c)
    BY <1>5
  <2>3. PICK args : args = ArgsAt(Source(o, i))
    OBVIOUS
  <2>4. c[i].args = args
    BY <2>2, <2>3
  <2>5. \A k \in 1 .. Len(x[i].args) : x[i].args[k] = SortedArg(o, objects, args[k])
    BY <1>12, <2>1, <2>2, <2>4
  <2>6. x[i].id = o[i] /\ x[i].kind = KindAt(Source(o, i)) /\ Len(x[i].args) = Len(args)
    BY <2>1, <2>2, <2>4
  <2> QED
    BY <2>3, <2>5, <2>6
<1>18. Len(x) = Len(o)
  BY <1>5, <1>11 DEF SameButArgs
<1> QED
  BY <1>3, <1>14, <1>15, <1>16, <1>17, <1>18 DEF SortedData

(* Before and after sorting.                                               *)
Sortable(b) ==
  /\ BuilderTypes /\ NamesKnown /\ Twins /\ KindsNamed /\ ReplacedGone /\ InputsApart /\ ArgsFit /\ HandlesPoint
  /\ ThunksStand /\ Unresolved = {} /\ ~Rejected
  /\ b \in 0 .. Size /\ Base(b) /\ LessArgs(b)

(* The sort makes e of the data. *)
SortsInto(e, o, objects, b) ==
  /\ Sortable(b) /\ SortedFits(o, b) /\ ObjectsFit(objects) /\ SortedData(e, o, objects)
  /\ \A i \in 1 .. Len(e.commands) : \A k \in 1 .. Len(e.commands[i].args) :
       RefersToResult(e.commands[i].args[k]) => e.commands[i].args[k].at # 0

(* The command at i came from the place s.                                 *)
CameFrom(x, o, i, s, b) ==
  /\ s \in 1 .. Size /\ NameAt(s) = o[i] /\ x[i].id = o[i] /\ x[i].kind = KindAt(s) /\ Len(x[i].args) = Len(ArgsAt(s))
  /\ o[i] \in Name /\ o[i] \notin Thunks
  /\ i <= b => s <= i /\ o[i] = NameAt(i)
  /\ i > b => s > b

(* Every command was at its source. *)
LEMMA SortedFrom ==
  ASSUME NEW e, NEW o, NEW objects, NEW b, SortsInto(e, o, objects, b), NEW i \in 1 .. Len(o)
  PROVE  CameFrom(e.commands, o, i, Source(o, i), b)
<1>1. /\ BuilderTypes /\ NamesKnown /\ b \in 0 .. Size /\ Base(b) /\ SortedFits(o, b) /\ SortedData(e, o, objects)
      /\ Size \in Nat /\ data.commands \in Seq(CommandType) /\ Len(data.commands) = Size
  BY DataParts DEF SortsInto, Sortable, BuilderTypes, Size
<1>2. PICK s : s = Source(o, i)
  OBVIOUS
<1>3. /\ s \in 1 .. Size /\ NameAt(s) = o[i] /\ e.commands[i].id = o[i] /\ e.commands[i].kind = KindAt(s)
      /\ Len(e.commands[i].args) = Len(ArgsAt(s))
  BY <1>1, <1>2 DEF SortedData
<1>4. o[i] \in Name /\ o[i] \notin Thunks
  BY <1>1, <1>3, NameAtParts DEF SortedFits
<1>5. Len(o) \in Nat /\ b \in Nat
  BY <1>1 DEF SortedFits
<1>6. ASSUME i <= b  PROVE s <= i /\ o[i] = NameAt(i)
  <2>1. i \in 1 .. b /\ i \in 1 .. Size
    BY <1>1, <1>5, <1>6
  <2>2. o[i] = NameAt(i)
    BY <1>1, <2>1 DEF SortedFits
  <2>3. s <= i
    BY <1>1, <1>2, <2>1, <2>2, IndexOfNames DEF Source, NameAt
  <2> QED
    BY <2>2, <2>3
<1>7. ASSUME i > b  PROVE s > b
  <2>1. i \in b + 1 .. Len(o)
    BY <1>5, <1>7
  <2>2. PICK j \in b + 1 .. Size : o[i] = NameAt(j)
    BY <1>1, <2>1 DEF SortedFits
  <2>3. ASSUME s \in 1 .. b  PROVE FALSE
    BY <1>1, <1>3, <2>2, <2>3, NewNotOld
  <2> QED
    BY <1>1, <1>3, <1>5, <2>3
<1> QED
  BY <1>2, <1>3, <1>4, <1>6, <1>7 DEF CameFrom

(* Only late commands of an earlier preparation are there twice. *)
LEMMA SortedSame ==
  ASSUME NEW e, NEW o, NEW objects, NEW b, SortsInto(e, o, objects, b),
         NEW i \in 1 .. Len(o), NEW j \in 1 .. Len(o), i # j, o[i] = o[j]
  PROVE  /\ i <= b /\ j <= b /\ NameAt(i) = NameAt(j) /\ i \in 1 .. Size /\ j \in 1 .. Size
<1>1. /\ BuilderTypes /\ NamesKnown /\ b \in 0 .. Size /\ Base(b) /\ SortedFits(o, b) /\ Size \in Nat /\ Len(o) \in Nat /\ b \in Nat
  BY DataParts DEF SortsInto, Sortable, BuilderTypes, Size, SortedFits
<1>2. ASSUME NEW m \in 1 .. Len(o), NEW n \in 1 .. Len(o), o[m] = o[n], m < n  PROVE n <= b
  <2>1. PICK s, r : s = Source(o, m) /\ r = Source(o, n)
    OBVIOUS
  <2>2. CameFrom(e.commands, o, m, s, b) /\ CameFrom(e.commands, o, n, r, b)
    BY <2>1, SortedFrom
  <2>3. s = r
    BY <1>2, <2>1 DEF Source
  <2>4. SUFFICES ASSUME n > b  PROVE FALSE
    BY <1>1
  <2>5. s > b
    BY <2>2, <2>3, <2>4 DEF CameFrom
  <2>6. CASE m > b
    <3>1. m \in b + 1 .. Len(o) /\ n \in b + 1 .. Len(o)
      BY <1>1, <2>4, <2>6
    <3>2. Less(o[m], o[n])
      BY <1>1, <1>2, <3>1 DEF SortedFits
    <3>3. o[m] \in Name
      BY <2>2 DEF CameFrom
    <3> QED
      BY <1>2, <3>2, <3>3, LessOnce
  <2>7. CASE m <= b
    <3>1. s <= m /\ s \in 1 .. Size
      BY <2>2, <2>7 DEF CameFrom
    <3> QED
      BY <1>1, <2>5, <2>7, <3>1
  <2> QED
    BY <1>1, <2>6, <2>7
<1>3. i <= b /\ j <= b
  <2>1. CASE i < j
    <3>1. j <= b
      BY <1>2, <2>1
    <3> QED
      BY <1>1, <2>1, <3>1
  <2>2. CASE j < i
    <3>1. i <= b
      BY <1>2, <2>2
    <3> QED
      BY <1>1, <2>2, <3>1
  <2> QED
    BY <1>1, <2>1, <2>2
<1>4. i \in 1 .. b /\ j \in 1 .. b /\ i \in 1 .. Size /\ j \in 1 .. Size
  BY <1>1, <1>3
<1>5. o[i] = NameAt(i) /\ o[j] = NameAt(j)
  BY <1>1, <1>4 DEF SortedFits
<1> QED
  BY <1>3, <1>4, <1>5

(* The parts of DataFits after the sort. No name is there more often than  *)
(* before.                                                                 *)
LEMMA SortedTwins ==
  ASSUME NEW e, NEW o, NEW objects, NEW b, SortsInto(e, o, objects, b)
  PROVE  TwinsIn(e.commands, late)
<1>1. PICK x : x = e.commands
  OBVIOUS
<1>2. Len(x) = Len(o) /\ x \in Seq(CommandType) /\ Twins /\ Size \in Nat
  BY <1>1, DataParts DEF SortsInto, Sortable, SortedData, BuilderTypes, Size
<1>3. ASSUME NEW i \in 1 .. Len(x), NEW j \in 1 .. Len(x), i # j, x[i].id = x[j].id
      PROVE  /\ x[i].kind = "call" /\ x[i].args = <<>> /\ x[i].id \in late
             /\ \A k \in 1 .. Len(x) : x[k].id = x[i].id => k \in {i, j}
  <2>1. i \in 1 .. Len(o) /\ j \in 1 .. Len(o)
    BY <1>2
  <2>2. PICK s, r : s = Source(o, i) /\ r = Source(o, j)
    OBVIOUS
  <2>3. CameFrom(x, o, i, s, b) /\ CameFrom(x, o, j, r, b)
    BY <1>1, <2>1, <2>2, SortedFrom
  <2>4. x[i].id = o[i] /\ x[j].id = o[j] /\ o[i] = o[j] /\ s \in 1 .. Size /\ NameAt(s) = o[i]
        /\ x[i].kind = KindAt(s) /\ Len(x[i].args) = Len(ArgsAt(s))
    BY <1>3, <2>3 DEF CameFrom
  <2>5. /\ i <= b /\ j <= b /\ NameAt(i) = NameAt(j) /\ i \in 1 .. Size /\ j \in 1 .. Size
    BY <1>3, <2>1, <2>4, SortedSame
  <2>6. NameAt(i) = o[i]
    BY <2>3, <2>5 DEF CameFrom
  <2>7. \A k \in 1 .. Size : NameAt(k) = NameAt(i) => k \in {i, j}
    BY <1>2, <1>3, <2>5 DEF Twins, TwinsIn, NameAt, Size
  <2>8. KindAt(s) = "call" /\ ArgsAt(s) = <<>> /\ NameAt(s) \in late
    <3>1. PICK l \in {i, j} : l # s
      BY <1>3
    <3>2. l \in 1 .. Size /\ NameAt(l) = NameAt(s)
      BY <2>4, <2>5, <2>6, <3>1
    <3> QED
      BY <1>2, <2>4, <3>1, <3>2 DEF Twins, TwinsIn, NameAt, KindAt, ArgsAt, Size
  <2>9. x[i].args = <<>>
    <3>1. x[i].args \in Seq(ArgType) /\ Len(x[i].args) = 0
      <4>1. Len(<<>>) = 0
        OBVIOUS
      <4>2. x[i].args \in Seq(ArgType)
        BY <1>2, CommandParts
      <4> QED
        BY <2>4, <2>8, <4>1, <4>2
    <3> QED
      BY <3>1, EmptySeq
  <2>10. ASSUME NEW k \in 1 .. Len(x), x[k].id = x[i].id  PROVE k \in {i, j}
    <3>1. k \in 1 .. Len(o) /\ CameFrom(x, o, k, Source(o, k), b)
      BY <1>1, <1>2, SortedFrom
    <3>2. o[k] = o[i]
      BY <2>4, <2>10, <3>1 DEF CameFrom
    <3>3. CASE k = i
      BY <3>3
    <3>4. CASE k # i
      <4>1. NameAt(k) = NameAt(i) /\ k \in 1 .. Size
        BY <2>1, <3>1, <3>2, <3>4, SortedSame
      <4> QED
        BY <2>7, <4>1
    <3> QED
      BY <3>3, <3>4
  <2> QED
    BY <2>4, <2>8, <2>9, <2>10
<1> QED
  BY <1>1, <1>3 DEF TwinsIn

(* No command is lost. *)
LEMMA SortedHas ==
  ASSUME NEW e, NEW o, NEW objects, NEW b, SortsInto(e, o, objects, b),
         NEW j \in 1 .. Size, NameAt(j) \notin Thunks
  PROVE  \E i \in 1 .. Len(o) : o[i] = NameAt(j)
<1>1. PICK m, x : m = NameAt(j) /\ x = IndexOf(o, m)
  OBVIOUS
<1>2. x \in 1 .. Len(o) /\ o[x] = m
  BY <1>1, SortedIndex DEF SortsInto, Sortable
<1> QED
  BY <1>1, <1>2

(* Kinds still agree with names. *)
LEMMA SortedKinds ==
  ASSUME NEW e, NEW o, NEW objects, NEW b, SortsInto(e, o, objects, b)
  PROVE  KindsIn(e.commands, Thunks)
<1>1. PICK x : x = e.commands
  OBVIOUS
<1>2. Len(x) = Len(o) /\ x \in Seq(CommandType) /\ Twins /\ KindsNamed /\ Size \in Nat
  BY <1>1, DataParts DEF SortsInto, Sortable, SortedData, BuilderTypes, Size
<1>3. ASSUME NEW i \in 1 .. Len(x)
      PROVE  /\ x[i].kind \in Intents => x[i].id[1] # 0
             /\ Last(x[i].id) = 0 <=> x[i].kind = "merge"
             /\ x[i].kind = "merge" => \E j \in 1 .. Len(x) : Front(x[i].id) = x[j].id /\ x[j].kind = "split"
             /\ x[i].kind = "thunk" <=> x[i].id \in Thunks
  <2>1. PICK s : s = Source(o, i)
    OBVIOUS
  <2>2. i \in 1 .. Len(o) /\ CameFrom(x, o, i, s, b)
    BY <1>1, <1>2, <2>1, SortedFrom
  <2>3. s \in 1 .. Size /\ x[i].id = NameAt(s) /\ x[i].kind = KindAt(s)
    BY <2>2 DEF CameFrom
  <2>4. /\ KindAt(s) \in Intents => NameAt(s)[1] # 0
        /\ Last(NameAt(s)) = 0 <=> KindAt(s) = "merge"
        /\ KindAt(s) = "merge" => \E j \in 1 .. Size : Front(NameAt(s)) = NameAt(j) /\ KindAt(j) = "split"
        /\ KindAt(s) = "thunk" <=> NameAt(s) \in Thunks
    BY <1>2, <2>3 DEF KindsNamed, KindsIn, NameAt, KindAt, Size
  <2>5. ASSUME x[i].kind = "merge"
        PROVE  \E j \in 1 .. Len(x) : Front(x[i].id) = x[j].id /\ x[j].kind = "split"
    <3>1. PICK j \in 1 .. Size : Front(NameAt(s)) = NameAt(j) /\ KindAt(j) = "split"
      BY <2>3, <2>4, <2>5
    <3>2. NameAt(j) \notin Thunks
      BY <1>2, <3>1 DEF KindsNamed, KindsIn, NameAt, KindAt, Size
    <3>3. PICK k \in 1 .. Len(o) : o[k] = NameAt(j)
      BY <3>2, SortedHas
    <3>4. PICK r : r = Source(o, k)
      OBVIOUS
    <3>5. CameFrom(x, o, k, r, b)
      BY <1>1, <3>4, SortedFrom
    <3>6. r \in 1 .. Size /\ x[k].id = NameAt(j) /\ NameAt(r) = NameAt(j) /\ x[k].kind = KindAt(r)
      BY <3>3, <3>5 DEF CameFrom
    <3>7. r = j
      <4>1. SUFFICES ASSUME r # j  PROVE FALSE
        OBVIOUS
      <4>2. KindAt(j) = "call"
        BY <1>2, <3>6, <4>1 DEF Twins, TwinsIn, NameAt, KindAt, Size
      <4> QED
        BY <3>1, <4>2
    <3> QED
      BY <1>2, <2>3, <3>1, <3>6, <3>7
  <2> QED
    BY <2>3, <2>4, <2>5
<1> QED
  BY <1>1, <1>3 DEF KindsIn

(* The user's commands are in order. *)
LEMMA SortedOrder ==
  ASSUME NEW e, NEW o, NEW objects, NEW b, SortsInto(e, o, objects, b)
  PROVE  /\ OrderIn(e.commands, Len(e.commands)) /\ NamesIn(e.commands) \subseteq InData
         /\ NamesIn(e.commands) \cap Thunks = {} /\ GoneIn(e.commands, Thunks, standsFor)
<1>1. PICK x : x = e.commands
  OBVIOUS
<1>2. /\ Len(x) = Len(o) /\ Size \in Nat /\ Len(o) \in Nat /\ b \in 0 .. Size /\ Base(b) /\ SortedFits(o, b) /\ ReplacedGone
      /\ BuilderTypes /\ NamesKnown
  BY <1>1, DataParts DEF SortsInto, Sortable, SortedData, BuilderTypes, Size, SortedFits
<1>3. \A i \in 1 .. Len(o) : x[i].id = o[i] /\ o[i] \in Name /\ o[i] \notin Thunks /\ o[i] \in InData
  <2> SUFFICES ASSUME NEW i \in 1 .. Len(o)  PROVE x[i].id = o[i] /\ o[i] \in Name /\ o[i] \notin Thunks /\ o[i] \in InData
    OBVIOUS
  <2>1. PICK s : s = Source(o, i)
    OBVIOUS
  <2>2. CameFrom(x, o, i, s, b)
    BY <1>1, <2>1, SortedFrom
  <2>3. s \in 1 .. Size /\ NameAt(s) = o[i] /\ x[i].id = o[i] /\ o[i] \in Name /\ o[i] \notin Thunks
    BY <2>2 DEF CameFrom
  <2> QED
    BY <1>2, <2>3, NameAtParts
<1>4. NamesIn(x) \subseteq InData /\ NamesIn(x) \cap Thunks = {}
  BY <1>2, <1>3 DEF NamesIn
<1>5. GoneIn(x, Thunks, standsFor)
  BY <1>2, <1>4 DEF ReplacedGone, GoneIn, InData
<1>6. OrderIn(x, Len(x))
  <2> SUFFICES ASSUME NEW i \in 1 .. Len(o), NEW j \in 1 .. Len(o), i < j, User(o[i]), User(o[j])
               PROVE  Less(o[i], o[j]) \/ o[i] = o[j]
    BY <1>2, <1>3 DEF OrderIn
  <2>1. CASE j <= b
    <3>1. i \in 1 .. b /\ j \in 1 .. b
      BY <1>2, <2>1
    <3>2. o[i] = NameAt(i) /\ o[j] = NameAt(j)
      BY <1>2, <3>1 DEF SortedFits
    <3>3. InOrder(b)
      BY <1>2 DEF Base
    <3> QED
      BY <3>1, <3>2, <3>3 DEF InOrder, OrderIn, NameAt
  <2>2. CASE i <= b /\ j > b
    <3>1. i \in 1 .. b /\ j \in b + 1 .. Len(o)
      BY <1>2, <2>2
    <3>2. o[i] = NameAt(i)
      BY <1>2, <3>1 DEF SortedFits
    <3>3. PICK k \in b + 1 .. Size : o[j] = NameAt(k)
      BY <1>2, <3>1 DEF SortedFits
    <3>4. NameAt(i)[1] < NameAt(k)[1]
      BY <1>2, <3>1 DEF Base, New
    <3>5. NameAt(i) # <<>> /\ NameAt(k) # <<>>
      <4>1. i \in 1 .. Size /\ k \in 1 .. Size
        BY <1>2, <3>1
      <4> QED
        BY <1>2, <4>1, NameAtParts
    <3> QED
      BY <1>3, <3>2, <3>3, <3>4, <3>5, FirstLess
  <2>3. CASE i > b
    <3>1. i \in b + 1 .. Len(o) /\ j \in b + 1 .. Len(o)
      BY <1>2, <2>3
    <3> QED
      BY <1>2, <3>1 DEF SortedFits
  <2> QED
    BY <1>2, <2>1, <2>2, <2>3
<1> QED
  BY <1>1, <1>4, <1>5, <1>6

(* The inputs are still apart, and all there. *)
LEMMA SortedInputs ==
  ASSUME NEW e, NEW o, NEW objects, NEW b, SortsInto(e, o, objects, b)
  PROVE  /\ ApartIn(e.inputs)
         /\ \A j \in 1 .. Len(data.inputs) :
              LET x == IndexOf(objects, data.inputs[j].object)
              IN x \in 1 .. Len(e.inputs) /\ e.inputs[x] = data.inputs[j]
<1>1. /\ ObjectsFit(objects) /\ SortedData(e, o, objects) /\ ApartIn(data.inputs) /\ data.inputs \in Seq(InputType)
      /\ Len(data.inputs) \in Nat
  BY DataParts DEF SortsInto, Sortable, BuilderTypes, InputsApart
<1>2. /\ Len(objects) \in Nat /\ Len(e.inputs) = Len(objects)
      /\ \A i, j \in 1 .. Len(objects) : i # j => objects[i] # objects[j]
  BY <1>1, LenProperties DEF ObjectsFit, SortedData
<1>3. ASSUME NEW i \in 1 .. Len(objects), NEW j \in 1 .. Len(data.inputs), objects[i] = data.inputs[j].object
      PROVE  e.inputs[i] = data.inputs[j]
  <2>1. PICK l : l = InputIndex(data.inputs, objects[i])
    OBVIOUS
  <2>2. l \in 0 .. Len(data.inputs) /\ (l # 0 => data.inputs[l].object = objects[i]) /\ l # 0
    BY <1>1, <1>3, <2>1, InputIndexed
  <2>3. l \in 1 .. Len(data.inputs)
    BY <1>1, <2>2
  <2>4. l = j
    BY <1>1, <1>3, <2>2, <2>3 DEF ApartIn
  <2> QED
    BY <1>1, <2>1, <2>4 DEF SortedData
<1>4. ApartIn(e.inputs)
  <2> SUFFICES ASSUME NEW i \in 1 .. Len(objects), NEW j \in 1 .. Len(objects), i # j
               PROVE  e.inputs[i].object # e.inputs[j].object
    BY <1>2 DEF ApartIn
  <2>1. PICK k \in 1 .. Len(data.inputs) : objects[i] = data.inputs[k].object
    BY <1>1 DEF ObjectsFit
  <2>2. PICK l \in 1 .. Len(data.inputs) : objects[j] = data.inputs[l].object
    BY <1>1 DEF ObjectsFit
  <2>3. e.inputs[i] = data.inputs[k] /\ e.inputs[j] = data.inputs[l]
    BY <1>3, <2>1, <2>2
  <2> QED
    BY <1>2, <2>1, <2>2, <2>3
<1>5. ASSUME NEW j \in 1 .. Len(data.inputs)
      PROVE  LET x == IndexOf(objects, data.inputs[j].object)
             IN x \in 1 .. Len(e.inputs) /\ e.inputs[x] = data.inputs[j]
  <2>1. PICK x : x = IndexOf(objects, data.inputs[j].object)
    OBVIOUS
  <2>2. PICK i \in 1 .. Len(objects) : objects[i] = data.inputs[j].object
    BY <1>1 DEF ObjectsFit
  <2>3. x \in 0 .. Len(objects) /\ x # 0 /\ objects[x] = data.inputs[j].object
    BY <1>2, <2>1, <2>2, Indexed
  <2>4. x \in 1 .. Len(objects)
    BY <1>2, <2>3
  <2>5. e.inputs[x] = data.inputs[j]
    BY <1>3, <2>3, <2>4
  <2> QED
    BY <1>2, <2>1, <2>4, <2>5
<1> QED
  BY <1>4, <1>5

(* What a reference leads to, from the command that came from s, when what *)
(* it wants is m, which o has at y.                                        *)
LEMMA SortedBefore ==
  ASSUME NEW e, NEW o, NEW objects, NEW b, SortsInto(e, o, objects, b), NEW i \in 1 .. Len(o),
         NEW s, CameFrom(e.commands, o, i, s, b), NEW at \in 1 .. Size, at < s, NameAt(s) \notin refused,
         NEW k \in 1 .. Len(ArgsAt(s)), RefersToResult(ArgsAt(s)[k]), ArgsAt(s)[k].at = at,
         NEW j \in 1 .. Size, NameAt(j) \notin Thunks, NameAt(j) = NameAt(at) \/ Post(NameAt(j), NameAt(at)),
         NameAt(at) \notin Thunks => NameAt(j) = NameAt(at),
         NEW y, y = IndexOf(o, NameAt(j))
  PROVE  y \in 1 .. Len(o) /\ o[y] = NameAt(j) /\ y < i
<1>1. /\ BuilderTypes /\ NamesKnown /\ b \in 0 .. Size /\ Base(b) /\ LessArgs(b) /\ SortedFits(o, b) /\ Size \in Nat
      /\ Len(o) \in Nat /\ b \in Nat
  BY SMTT(30), DataParts DEF SortsInto, Sortable, BuilderTypes, Size, SortedFits
<1>2. s \in 1 .. Size /\ NameAt(s) = o[i] /\ (i <= b => s <= i) /\ (i > b => s > b) /\ o[i] \in Name
  BY DEF CameFrom
<1>3. PICK m : m = NameAt(j)
  OBVIOUS
<1>4. y \in 1 .. Len(o) /\ o[y] = m
  BY <1>1, <1>3, SortedIndex
<1>5. CASE i <= b
  <2>1. at < i /\ at <= b /\ at \in 1 .. b
    BY <1>1, <1>2, <1>5
  <2>2. NameAt(at) \notin Thunks
    BY <1>1, <2>1 DEF Base
  <2>3. y <= at
    BY <1>1, <2>1, <2>2, SortedIndex
  <2> QED
    BY <1>1, <1>3, <1>4, <2>1, <2>3
<1>6. CASE i > b
  <2>1. s \in b + 1 .. Size
    BY <1>1, <1>2, <1>6
  <2>2. Less(NameAt(at), NameAt(s))
    BY <1>1, <2>1 DEF LessArgs
  <2>3. m \in Name /\ NameAt(at) \in Name /\ NameAt(s) \in Name
    BY <1>1, <1>2, <1>3, NameAtParts
  <2>4. Less(m, o[i])
    <3>1. CASE m = NameAt(at)
      BY <1>2, <2>2, <3>1
    <3>2. CASE Post(m, NameAt(at))
      BY <1>2, <2>2, <2>3, <3>2, PostOrder
    <3> QED
      BY <1>3, <3>1, <3>2
  <2>5. y # i /\ ~Less(o[i], m)
    BY <1>2, <1>4, <2>3, <2>4, LessOnce
  <2>6. SUFFICES ASSUME y > i  PROVE FALSE
    BY <1>1, <1>3, <1>4, <2>5
  <2>7. i \in b + 1 .. Len(o) /\ y \in b + 1 .. Len(o)
    BY <1>1, <1>4, <1>6, <2>6
  <2>8. Less(o[i], o[y])
    BY <1>1, <2>6, <2>7 DEF SortedFits
  <2> QED
    BY <1>4, <2>5, <2>8
<1> QED
  BY <1>1, <1>5, <1>6

(* So every argument fits. *)
LEMMA SortedArgFits ==
  ASSUME NEW e, NEW o, NEW objects, NEW b, SortsInto(e, o, objects, b), NEW i \in 1 .. Len(o),
         NEW k \in 1 .. Len(e.commands[i].args)
  PROVE  ArgFits(e, Thunks, standsFor, refused, i, e.commands[i].args[k])
<1>1. PICK x, s : x = e.commands /\ s = Source(o, i)
  OBVIOUS
<1>2. CameFrom(x, o, i, s, b)
  BY <1>1, SortedFrom
<1>3. /\ s \in 1 .. Size /\ NameAt(s) = o[i] /\ x[i].id = o[i] /\ Len(x[i].args) = Len(ArgsAt(s))
  BY <1>2 DEF CameFrom
<1>4. /\ BuilderTypes /\ NamesKnown /\ b \in 0 .. Size /\ SortedFits(o, b) /\ Size \in Nat /\ data \in DataType
      /\ Len(o) \in Nat /\ ArgsFit /\ KindsNamed /\ HandlesPoint /\ ThunksStand /\ Unresolved = {} /\ ~Rejected
      /\ IsFiniteSet(Thunks) /\ SortedData(e, o, objects) /\ Len(objects) \in Nat /\ Len(x) = Len(o)
  BY <1>1, DataParts, LenProperties DEF SortsInto, Sortable, BuilderTypes, Size, SortedFits, ObjectsFit, SortedData
<1>5. PICK arg, new : arg = ArgsAt(s)[k] /\ new = x[i].args[k]
  OBVIOUS
<1>6. new = SortedArg(o, objects, arg) /\ k \in 1 .. Len(ArgsAt(s)) /\ k \in 1 .. Len(x[i].args)
  BY <1>1, <1>3, <1>4, <1>5 DEF SortedData
<1>7. arg \in ArgType
  <2>1. ArgsAt(s) \in Seq(ArgType)
    BY <1>3, <1>4, NameAtParts
  <2> QED
    BY <1>5, <1>6, <2>1
<1>8. /\ arg.kind = "Input" => ObjectFits(data.inputs, arg)
      /\ RefersToResult(arg) => o[i] \in refused \/ ResultFits(data.commands, Thunks, standsFor, s, arg)
  BY <1>3, <1>4, <1>5, <1>6 DEF ArgsFit, ArgsFitIn, NameAt, ArgsAt, Size
<1>9. /\ new \in ArgType /\ new.kind = arg.kind
      /\ arg.kind = "Input" => /\ new.of = arg.of /\ new.mutable = arg.mutable
                               /\ new.at = IndexOf(objects, data.inputs[arg.at].object)
      /\ RefersToResult(arg) => RefersToResult(new) /\ new.of = arg.of /\ new.at = OriginalIndex(thunks, o, arg.at)
      /\ RefersToResult(new) => RefersToResult(arg)
  BY <1>4, <1>6, <1>7, SortedArgParts
<1>10. ASSUME new.kind = "Input"  PROVE ObjectFits(e.inputs, new)
  <2>1. arg.at \in 1 .. Len(data.inputs) /\ data.inputs[arg.at].object = arg.of /\ (arg.mutable => data.inputs[arg.at].mutable)
    BY <1>8, <1>9, <1>10 DEF ObjectFits
  <2>2. PICK j, y : j = arg.at /\ y = IndexOf(objects, data.inputs[j].object)
    OBVIOUS
  <2>3. y \in 1 .. Len(e.inputs) /\ e.inputs[y] = data.inputs[j]
    BY <2>1, <2>2, SortedInputs
  <2> QED
    BY <1>9, <1>10, <2>1, <2>2, <2>3 DEF ObjectFits
<1>11. ASSUME RefersToResult(new), x[i].id \notin refused  PROVE ResultFits(x, Thunks, standsFor, i, new)
  <2>1. RefersToResult(arg) /\ ResultFits(data.commands, Thunks, standsFor, s, arg)
    BY <1>3, <1>8, <1>9, <1>11
  <2>2. PICK at : at = arg.at
    OBVIOUS
  <2>3. at \in 1 .. Size /\ at < s
    BY <2>1, <2>2 DEF ResultFits, PointsIn, Size
  <2>4. PICK y : y = OriginalIndex(thunks, o, at)
    OBVIOUS
  <2>5. new.at = y /\ y # 0
    <3>1. new.at = y
      BY <1>9, <2>1, <2>2, <2>4
    <3>2. \A l \in 1 .. Len(x) : \A m \in 1 .. Len(x[l].args) : RefersToResult(x[l].args[m]) => x[l].args[m].at # 0
      BY <1>1 DEF SortsInto
    <3> QED
      BY <1>4, <1>5, <1>6, <1>11, <3>1, <3>2
  <2>6. PICK j \in 1 .. Size : /\ NameAt(j) = Wanted(at) /\ NameAt(j) \notin Thunks /\ y = IndexOf(o, Wanted(at))
                               /\ NameAt(j) = NameAt(at) \/ Post(NameAt(j), NameAt(at))
    BY <1>4, <2>3, <2>4, <2>5, OriginalIs
  <2>7. y \in 1 .. Len(o) /\ o[y] = NameAt(j) /\ y < i
    <3>1. NameAt(at) \notin Thunks => NameAt(j) = NameAt(at)
      BY <2>6 DEF Wanted
    <3>2. NameAt(s) \notin refused /\ RefersToResult(ArgsAt(s)[k]) /\ ArgsAt(s)[k].at = at /\ k \in 1 .. Len(ArgsAt(s))
      BY <1>3, <1>5, <1>6, <1>11, <2>1, <2>2
    <3>3. y = IndexOf(o, NameAt(j)) /\ CameFrom(e.commands, o, i, s, b)
      BY <1>1, <1>2, <2>6
    <3> QED
      BY <2>3, <2>6, <3>1, <3>2, <3>3, SortedBefore
  <2>8. x[y].id = Wanted(at) /\ x[y].id \notin Thunks /\ y \in 1 .. Len(x)
    <3>1. CameFrom(x, o, y, Source(o, y), b)
      BY <1>1, <2>7, SortedFrom
    <3> QED
      BY <1>4, <2>6, <2>7, <3>1 DEF CameFrom
  <2>9. PICK of : of = arg.of
    OBVIOUS
  <2>10. CASE PointsIn(data.commands, Thunks, standsFor, at, of)
    <3>1. NameAt(at) = IF NameAt(at) \in Thunks THEN of ELSE MeaningIn(standsFor, of)
      BY <2>10 DEF PointsIn, NameAt
    <3>2. Wanted(at) = MeaningIn(standsFor, of)
      BY <3>1 DEF Wanted, Meaning, MeaningIn
    <3> QED
      BY <1>9, <2>1, <2>5, <2>7, <2>8, <2>9, <3>2 DEF ResultFits, PointsIn
  <2>11. CASE arg.kind = "NestedResult" /\ NameAt(at) = Append(MeaningIn(standsFor, of), 0)
    <3>1. of \in Name
      BY <1>7, <2>1, <2>9, ArgParts
    <3>2. MeaningIn(standsFor, of) \in Name
      BY <1>4, <3>1 DEF MeaningIn, BuilderTypes, Replaced
    <3>3. Last(NameAt(at)) = 0
      <4>1. 0 \in Nat
        OBVIOUS
      <4> QED
        BY <2>11, <3>2, <4>1, AppendedName
    <3>4. KindAt(at) = "merge"
      BY <1>4, <2>3, <3>3 DEF KindsNamed, KindsIn, NameAt, KindAt, Size
    <3>5. NameAt(at) \notin Thunks
      BY <1>4, <2>3, <3>4 DEF KindsNamed, KindsIn, NameAt, KindAt, Size
    <3>6. x[y].id = Append(MeaningIn(standsFor, of), 0)
      BY <2>8, <2>11, <3>5 DEF Wanted
    <3> QED
      BY <1>9, <2>1, <2>5, <2>7, <2>8, <2>9, <2>11, <3>6 DEF ResultFits
  <2> QED
    BY <2>1, <2>2, <2>9, <2>10, <2>11 DEF ResultFits, NameAt
<1> QED
  BY <1>1, <1>5, <1>10, <1>11 DEF ArgFits

(***************************************************************************)
(* Sorting: the step                                                       *)
(***************************************************************************)

(* The parts of Sort, as operators of the sorted names and objects.        *)
SortedInto(o, objects) ==
  [inputs |-> [i \in DOMAIN objects |-> data.inputs[InputIndex(data.inputs, objects[i])]],
   commands |-> SortedCommands(o, objects)]

(* that every result is found, *)
FindsAll(commands) ==
  \A i \in DOMAIN commands : \A k \in DOMAIN commands[i].args :
    RefersToResult(commands[i].args[k]) => commands[i].args[k].at # 0

(* and the sections, as Sort writes them. *)
SortedSection(o, objects) ==
  [f \in {Root} |-> [commands |-> [i \in DOMAIN o |-> Entry(o[i])],
                     inputs |-> [i \in DOMAIN objects |-> Entry(objects[i])]]]

(* What Sort does. *)
SortGives(o, objects) ==
  /\ phase = "waiting" /\ running = <<>> /\ Unresolved = {} /\ ~Rejected
  /\ data' = SortedInto(o, objects)
  /\ FindsAll(SortedCommands(o, objects))
  /\ section' = SortedSection(o, objects)
  /\ available' = [f \in {Root} |-> DOMAIN SortedCommands(o, objects)]
  /\ thunks' = UpdatedPlaceholders(o)
  /\ handles' = IF o = Names(data.commands) THEN handles
                ELSE [t \in DOMAIN handles \cap DOMAIN thunks |-> handles[t]]
  /\ phase' \in {"resolving", "resolved"}
  /\ UNCHANGED <<running, count, special, standsFor, refused, late>>

(* It does. *)
LEMMA SortIs ==
  ASSUME NEW supported, Sort(supported),
         NEW o, o = NoPlaceholders(Flatten("commands")), NEW objects, objects = Flatten("inputs")
  PROVE  SortGives(o, objects)
<1>1. data' = SortedInto(NoPlaceholders(Flatten("commands")), Flatten("inputs"))
  BY DEF Sort, SortedInto, SortedCommands, MapArguments, Reordered, SortedArg
<1>2. FindsAll(SortedCommands(NoPlaceholders(Flatten("commands")), Flatten("inputs")))
  BY DEF Sort, FindsAll, SortedCommands, MapArguments, Reordered, SortedArg
<1>3. section' = SortedSection(NoPlaceholders(Flatten("commands")), Flatten("inputs"))
  BY DEF Sort, SortedSection
<1>4. available' = [f \in {Root} |-> DOMAIN SortedCommands(NoPlaceholders(Flatten("commands")), Flatten("inputs"))]
  BY DEF Sort, SortedCommands, MapArguments, Reordered, SortedArg
<1>5. phase' \in {"resolving", "resolved"}
  BY DEF Sort
<1>6. /\ phase = "waiting" /\ running = <<>> /\ Unresolved = {} /\ ~Rejected
      /\ thunks' = UpdatedPlaceholders(o)
      /\ UNCHANGED <<running, count, special, standsFor, refused, late>>
  BY DEF Sort, bounds, history
<1>7. handles' = IF o = Names(data.commands) THEN handles ELSE [t \in DOMAIN handles \cap DOMAIN thunks |-> handles[t]]
  BY DEF Sort
<1> QED
  BY <1>1, <1>2, <1>3, <1>4, <1>5, <1>6, <1>7 DEF SortGives

(* What Sort makes, when the first b of the root are where they were.      *)
Sorted(o, objects, b) ==
  /\ SortsInto(data', o, objects, b) /\ UpdatedFits(thunks', o, Size)
  /\ section' = SortedSection(o, objects) /\ available' = [f \in {Root} |-> 1 .. Size']
  /\ handles' = IF o = Names(data.commands) THEN handles
                ELSE [t \in DOMAIN handles \cap DOMAIN thunks |-> handles[t]]
  /\ phase' \in {"resolving", "resolved"} /\ running = <<>>
  /\ UNCHANGED <<running, count, special, standsFor, refused, late>>

(* Sort leads to it. *)
LEMMA SortSorts ==
  ASSUME BuilderInv, NEW supported, Sort(supported)
  PROVE  \E o, objects, b : Sorted(o, objects, b)
<1>1. PICK o, objects : o = NoPlaceholders(Flatten("commands")) /\ objects = Flatten("inputs")
  OBVIOUS
<1>2. /\ phase = "waiting" /\ running = <<>> /\ Unresolved = {} /\ ~Rejected
      /\ data' = SortedInto(o, objects)
      /\ FindsAll(SortedCommands(o, objects))
      /\ section' = SortedSection(o, objects)
      /\ available' = [f \in {Root} |-> DOMAIN SortedCommands(o, objects)]
      /\ thunks' = UpdatedPlaceholders(o)
      /\ handles' = IF o = Names(data.commands) THEN handles
                    ELSE [t \in DOMAIN handles \cap DOMAIN thunks |-> handles[t]]
      /\ phase' \in {"resolving", "resolved"}
      /\ UNCHANGED <<running, count, special, standsFor, refused, late>>
  <2>1. SortGives(o, objects)
    BY <1>1, SortIs
  <2> QED
    BY <2>1 DEF SortGives
<1>3. /\ BuilderTypes /\ NamesKnown /\ Twins /\ KindsNamed /\ ReplacedGone /\ InputsApart /\ ArgsFit /\ HandlesPoint
      /\ ThunksStand /\ Adds /\ InputsPlaced /\ Size \in Nat
  BY <1>2, DataParts DEF BuilderInv, Gathering, BuilderTypes, Size
<1>4. PICK b \in 0 .. Size : Base(b) /\ Placed(b) /\ LessArgs(b)
  BY <1>3 DEF Adds
<1>5. SortedFits(o, b)
  BY <1>1, <1>3, <1>4, SortedNames
<1>6. ObjectsFit(objects)
  BY <1>1, <1>3, <1>4, FlatInputs
<1>7. o \in Seq(Name) /\ Len(o) \in Nat /\ \A i \in 1 .. Len(o) : o[i] \in InData
  <2>1. o \in Seq(Name) /\ Len(o) \in Nat
    BY <1>5 DEF SortedFits
  <2>2. ASSUME NEW i \in 1 .. Len(o)  PROVE \E j \in 1 .. Size : o[i] = NameAt(j)
    <3>1. CASE i <= b
      <4>1. i \in 1 .. b /\ i \in 1 .. Size
        BY <1>3, <2>1, <3>1
      <4> QED
        BY <1>5, <4>1 DEF SortedFits
    <3>2. CASE i > b
      <4>1. i \in b + 1 .. Len(o)
        BY <1>3, <2>1, <3>2
      <4>2. PICK j \in b + 1 .. Size : o[i] = NameAt(j)
        BY <1>5, <4>1 DEF SortedFits
      <4>3. j \in 1 .. Size
        BY <1>3
      <4> QED
        BY <4>2, <4>3
    <3> QED
      BY <1>3, <2>1, <3>1, <3>2
  <2> QED
    BY <1>3, <2>1, <2>2, NameAtParts
<1>8. PICK e : e = SortedInto(o, objects)
  OBVIOUS
<1>9. e = [inputs |-> [i \in DOMAIN objects |-> data.inputs[InputIndex(data.inputs, objects[i])]],
           commands |-> SortedCommands(o, objects)]
  BY <1>8 DEF SortedInto
<1>10. SortedData(e, o, objects) /\ e.commands = SortedCommands(o, objects)
  BY <1>3, <1>6, <1>7, <1>9, SortedDataIs
<1>11. e \in DataType
  BY <1>10 DEF SortedData
<1>12. /\ e.commands \in Seq(CommandType) /\ DOMAIN e.commands = 1 .. Len(e.commands)
       /\ \A i \in 1 .. Len(e.commands) : DOMAIN e.commands[i].args = 1 .. Len(e.commands[i].args)
  BY <1>11, DataParts, CommandParts
<1>13. \A i \in 1 .. Len(e.commands) : \A k \in 1 .. Len(e.commands[i].args) :
         RefersToResult(e.commands[i].args[k]) => e.commands[i].args[k].at # 0
  <2>1. PICK x : x = e.commands
    OBVIOUS
  <2>2. FindsAll(x)
    BY <1>2, <1>10, <2>1
  <2> QED
    BY <1>12, <2>1, <2>2 DEF FindsAll
<1>14. SortsInto(e, o, objects, b)
  BY <1>2, <1>3, <1>4, <1>5, <1>6, <1>10, <1>13 DEF SortsInto, Sortable
<1>15. data' = e
  BY <1>2, <1>8
<1>16. PICK u : u = UpdatedPlaceholders(o)
  OBVIOUS
<1>17. UpdatedFits(u, o, Size)
  BY <1>2, <1>3, <1>4, <1>5, <1>16, PlaceholdersUpdated
<1>18. available' = [f \in {Root} |-> 1 .. Size']
  <2>1. DOMAIN SortedCommands(o, objects) = 1 .. Size'
    BY <1>10, <1>12, <1>15 DEF Size
  <2> QED
    BY <1>2, <2>1
<1>19. SortsInto(data', o, objects, b)
  BY <1>14, <1>15
<1>20. UpdatedFits(thunks', o, Size)
  BY <1>2, <1>16, <1>17
<1>21. Sorted(o, objects, b)
  BY <1>2, <1>18, <1>19, <1>20 DEF Sorted
<1> QED
  BY <1>21

(* Types, *)
LEMMA SortedTypes ==
  ASSUME NEW o, NEW objects, NEW b, Sorted(o, objects, b)
  PROVE  BuilderTypes' /\ Thunks' = Thunks /\ DOMAIN handles' \subseteq DOMAIN handles /\ Forks' = {Root}
         /\ Size' = Len(o) /\ Size' \in Nat
<1>1. /\ BuilderTypes /\ SortsInto(data', o, objects, b) /\ SortedData(data', o, objects) /\ ObjectsFit(objects)
      /\ o \in Seq(Name) /\ UpdatedFits(thunks', o, Size)
  BY DEF Sorted, SortsInto, Sortable, SortedFits
<1>2. /\ data' \in DataType /\ Len(data'.commands) = Len(o) /\ Size' = Len(o) /\ Len(o) \in Nat /\ DOMAIN o = 1 .. Len(o)
      /\ objects \in Seq(Object) /\ Len(objects) \in Nat /\ DOMAIN objects = 1 .. Len(objects)
  BY <1>1, LenProperties DEF SortedData, Size, ObjectsFit
<1>3. thunks' \in [Thunks -> ThunkType] /\ Thunks' = Thunks
  BY <1>1 DEF UpdatedFits, Thunks
<1>4. handles' \in [DOMAIN handles' -> Nat] /\ DOMAIN handles' \subseteq DOMAIN handles
  <2>1. handles \in [DOMAIN handles -> Nat]
    BY <1>1 DEF BuilderTypes
  <2>2. CASE o = Names(data.commands)
    <3>1. handles' = handles
      BY <2>2 DEF Sorted
    <3> QED
      BY <2>1, <3>1
  <2>3. CASE o # Names(data.commands)
    <3>1. handles' = [t \in DOMAIN handles \cap DOMAIN thunks |-> handles[t]]
      BY <2>3 DEF Sorted
    <3> QED
      BY <2>1, <3>1
  <2> QED
    BY <2>2, <2>3
<1>5. section' \in [{Root} -> SectionType] /\ Forks' = {Root}
  <2>1. PICK c, n : c = [i \in DOMAIN o |-> Entry(o[i])] /\ n = [i \in DOMAIN objects |-> Entry(objects[i])]
    OBVIOUS
  <2>2. c \in Seq(CommandEntry)
    <3>1. ASSUME NEW i \in 1 .. Len(o)  PROVE Entry(o[i]) \in CommandEntry
      <4>1. o[i] \in Name
        BY <1>1, <3>1, ElementOfSeq
      <4>2. FALSE \in {FALSE}
        OBVIOUS
      <4> QED
        BY <4>1, <4>2 DEF Entry, CommandEntry
    <3>2. c \in [1 .. Len(o) -> CommandEntry]
      BY <1>2, <2>1, <3>1
    <3>3. PICK l : l = Len(o)
      OBVIOUS
    <3>4. l \in Nat /\ c \in [1 .. l -> CommandEntry]
      BY <1>2, <3>2, <3>3
    <3> QED
      BY <3>4
  <2>3. n \in Seq(InputEntry)
    <3>1. ASSUME NEW i \in 1 .. Len(objects)  PROVE Entry(objects[i]) \in InputEntry
      <4>1. objects[i] \in Object
        BY <1>2, <3>1, ElementOfSeq
      <4>2. FALSE \in {FALSE}
        OBVIOUS
      <4> QED
        BY <4>1, <4>2 DEF Entry, InputEntry
    <3>2. n \in [1 .. Len(objects) -> InputEntry]
      BY <1>2, <2>1, <3>1
    <3>3. PICK l : l = Len(objects)
      OBVIOUS
    <3>4. l \in Nat /\ n \in [1 .. l -> InputEntry]
      BY <1>2, <3>2, <3>3
    <3> QED
      BY <3>4
  <2>4. section' = [f \in {Root} |-> [commands |-> c, inputs |-> n]]
    BY <2>1 DEF Sorted, SortedSection
  <2>5. [commands |-> c, inputs |-> n] \in SectionType
    BY <2>2, <2>3 DEF SectionType
  <2> QED
    BY <2>4, <2>5 DEF Forks
<1>6. available' \in [{Root} -> SUBSET (1 .. Size')]
  BY DEF Sorted
<1>7. Root \in Forks' /\ Forks' \subseteq DOMAIN count' /\ IsFiniteSet(Forks') /\ IsFiniteSet(Thunks')
  <2>1. count' = count
    BY DEF Sorted
  <2>2. IsFiniteSet({Root})
    BY FS_Singleton
  <2>3. Root \in Forks /\ Forks \subseteq DOMAIN count /\ IsFiniteSet(Thunks)
    BY <1>1 DEF BuilderTypes
  <2> QED
    BY <1>3, <1>5, <2>1, <2>2, <2>3
<1>8. running' \in Seq(Forks')
  <2>1. running' = <<>>
    BY DEF Sorted
  <2>2. <<>> \in Seq(Forks')
    OBVIOUS
  <2> QED
    BY <2>1, <2>2
<1>9. /\ count' \in [DOMAIN count' -> Nat] /\ DOMAIN count' \subseteq Name
      /\ standsFor' \in [Replaced' -> Name] /\ special' \in Nat /\ phase' \in {"idle", "waiting", "resolving", "resolved"}
  BY <1>1 DEF Sorted, BuilderTypes, Replaced
<1>10. thunks' \in [Thunks' -> ThunkType] /\ section' \in [Forks' -> SectionType]
       /\ available' \in [Forks' -> SUBSET (1 .. Size')]
  BY <1>3, <1>5, <1>6
<1> QED
  BY <1>2, <1>3, <1>4, <1>5, <1>7, <1>8, <1>9, <1>10 DEF BuilderTypes

(* handles, *)
LEMMA SortedHandles ==
  ASSUME NEW o, NEW objects, NEW b, Sorted(o, objects, b)
  PROVE  HandlesPoint'
<1>1. /\ BuilderTypes /\ NamesKnown /\ HandlesPoint /\ ThunksStand /\ Unresolved = {} /\ ~Rejected
      /\ b \in 0 .. Size /\ Base(b) /\ SortedFits(o, b) /\ SortedData(data', o, objects) /\ SortsInto(data', o, objects, b)
      /\ UpdatedFits(thunks', o, Size) /\ Size \in Nat /\ data.commands \in Seq(CommandType) /\ Len(data.commands) = Size
      /\ thunks \in [Thunks -> ThunkType]
  BY DataParts DEF Sorted, SortsInto, Sortable, BuilderTypes, Size
<1>2. /\ Thunks' = Thunks /\ DOMAIN handles' \subseteq DOMAIN handles /\ Size' = Len(o) /\ Len(o) \in Nat /\ Size' \in Nat
      /\ standsFor' = standsFor /\ Replaced' = Replaced
  BY SortedTypes DEF Sorted, Replaced
<1>3. PICK x : x = data'.commands
  OBVIOUS
<1>4. /\ Len(x) = Len(o)
      /\ \A i \in 1 .. Len(o) : x[i].id = o[i] /\ o[i] \notin Thunks
      /\ NamesIn(x) \cap Thunks = {}
  BY <1>1, <1>3, SortedOrder DEF SortedData, SortedFits
<1>5. ASSUME NEW id \in DOMAIN handles' \ Thunks
      PROVE  id \notin Replaced /\ handles'[id] \in 1 .. Len(o) /\ x[handles'[id]].id = id
  <2>1. o = Names(data.commands) /\ handles' = handles
    <3>1. CASE o = Names(data.commands)
      BY <3>1 DEF Sorted
    <3>2. CASE o # Names(data.commands)
      <4>1. handles' = [t \in DOMAIN handles \cap DOMAIN thunks |-> handles[t]]
        BY <3>2 DEF Sorted
      <4> QED
        BY <1>5, <4>1 DEF Thunks
    <3> QED
      BY <3>1, <3>2
  <2>2. PICK h : h = handles[id]
    OBVIOUS
  <2>3. id \notin Replaced /\ h \in 1 .. Size /\ NameAt(h) = id
    BY <1>1, <1>5, <2>1, <2>2 DEF HandlesPoint
  <2>4. DOMAIN data.commands = 1 .. Size
    BY <1>1, CommandParts
  <2>5. Len(o) = Size /\ o[h] = id
    <3>1. DOMAIN o = 1 .. Size /\ o[h] = data.commands[h].id
      BY <2>1, <2>3, <2>4 DEF Names
    <3>2. DOMAIN o = 1 .. Len(o)
      BY <1>1, LenProperties DEF SortedFits
    <3>3. Len(o) = Size
      BY <1>1, <1>2, <3>1, <3>2
    <3> QED
      BY <2>3, <3>1, <3>3 DEF NameAt
  <2> QED
    BY <1>4, <2>1, <2>2, <2>3, <2>5
<1>6. ASSUME NEW t \in DOMAIN handles' \cap Thunks, ~thunks'[t].void, thunks'[t].result \notin Thunks
      PROVE  PointsIn(x, Thunks, standsFor, thunks'[t].resultIndex, t)
  <2>1. ~thunks[t].void /\ thunks[t].result \notin Thunks /\ t \in DOMAIN handles \cap Thunks /\ thunks[t] \in ThunkType
    BY <1>1, <1>2, <1>6 DEF UpdatedFits
  <2>2. PICK y, r : y = thunks'[t].resultIndex /\ r = thunks[t].result
    OBVIOUS
  <2>3. CASE t \in InData
    <3>1. PICK i \in 1 .. Size : NameAt(i) = t
      BY <2>3 DEF InData, NamesIn, NameAt, Size
    <3>2. y = IndexOf(o, r)
      BY <1>1, <2>1, <2>2, <3>1 DEF UpdatedFits
    <3>3. thunks[t].state = "resolved"
      <4>1. thunks[t].state \in {"running", "resolved", "rejected"}
        BY <2>1 DEF ThunkType
      <4>2. thunks[t].state # "running"
        BY <1>1, <2>1 DEF Unresolved, Thunks
      <4>3. thunks[t].state # "rejected"
        BY <1>1, <2>1 DEF Rejected, Thunks
      <4> QED
        BY <4>1, <4>2, <4>3
    <3>4. DOMAIN thunks = Thunks
      BY DEF Thunks
    <3>5. Meaning(t) = r /\ \E j \in 1 .. Size : NameAt(j) = r
      BY <1>1, <2>1, <2>2, <3>1, <3>3, <3>4, OriginalOfReturned
    <3>6. PICK j \in 1 .. Size : NameAt(j) = r
      BY <3>5
    <3>7. y \in 1 .. Len(o) /\ o[y] = r
      BY <1>1, <2>1, <2>2, <3>2, <3>6, SortedIndex
    <3> QED
      BY <1>4, <2>2, <3>5, <3>7 DEF PointsIn, Meaning, MeaningIn
  <2>4. CASE t \notin InData
    <3>1. \A i \in 1 .. Size : NameAt(i) # t
      BY <2>4 DEF InData, NamesIn, NameAt, Size
    <3>2. y = thunks[t].resultIndex
      BY <1>1, <2>1, <2>2, <3>1 DEF UpdatedFits
    <3>3. Points(y, t) /\ y <= b
      BY <1>1, <2>1, <2>4, <3>2 DEF HandlesPoint, Base
    <3>4. y \in 1 .. b
      BY <1>1, <3>3 DEF Points, PointsIn, Size
    <3>5. o[y] = NameAt(y) /\ y \in 1 .. Len(o) /\ NameAt(y) \notin Thunks
      <4>1. b <= Len(o) /\ b \in Nat
        BY <1>1 DEF SortedFits
      <4>2. y \in 1 .. Len(o)
        BY <1>2, <3>4, <4>1
      <4> QED
        BY <1>1, <3>4, <4>2 DEF SortedFits, Base
    <3>6. NameAt(y) = MeaningIn(standsFor, t)
      BY <3>3, <3>5 DEF Points, PointsIn, NameAt
    <3> QED
      BY <1>4, <2>2, <3>5, <3>6 DEF PointsIn
  <2> QED
    BY <2>3, <2>4
<1>7. (\A id \in DOMAIN handles \ Thunks :
         id \notin Replaced /\ handles[id] \in 1 .. Size /\ NameAt(handles[id]) = id)'
  BY <1>2, <1>3, <1>5 DEF NameAt
<1>8. (\A t \in DOMAIN handles \cap Thunks :
         t \notin InData /\ ~thunks[t].void /\ thunks[t].result \notin Thunks =>
           Points(thunks[t].resultIndex, t))'
  BY <1>2, <1>3, <1>6 DEF Points
<1>9. (\A i \in 1 .. Size : NameAt(i) \in Thunks =>
         /\ thunks[NameAt(i)].resultIndex = i /\ NameAt(i) \in DOMAIN handles /\ ArgsAt(i) = <<>>)'
  BY <1>2, <1>3, <1>4 DEF NameAt
<1> QED
  BY <1>7, <1>8, <1>9 DEF HandlesPoint

(* functions *)
LEMMA SortedThunks ==
  ASSUME NEW o, NEW objects, NEW b, Sorted(o, objects, b)
  PROVE  ThunksStand' /\ Unresolved' = {}
<1>1. /\ ThunksStand /\ Unresolved = {} /\ ~Rejected /\ UpdatedFits(thunks', o, Size) /\ thunks \in [Thunks -> ThunkType]
      /\ SortsInto(data', o, objects, b)
  BY DEF Sorted, SortsInto, Sortable, BuilderTypes
<1>2. Thunks' = Thunks /\ Replaced' = Replaced /\ InData' \cap Thunks = {}
  BY <1>1, SortedTypes, SortedOrder DEF Sorted, Replaced, InData
<1>3. ASSUME NEW t \in Thunks
      PROVE  /\ thunks'[t].state = "resolved" /\ t \notin InData'
             /\ thunks'[t].void => thunks'[t].result = t /\ t \notin Replaced
             /\ ~thunks'[t].void => thunks'[t].result # t
  <2>1. thunks'[t].state = thunks[t].state /\ thunks'[t].result = thunks[t].result /\ thunks'[t].void = thunks[t].void
    BY <1>1 DEF UpdatedFits
  <2>2. thunks[t].state = "resolved"
    <3>1. thunks[t] \in ThunkType
      BY <1>1
    <3>2. thunks[t].state \in {"running", "resolved", "rejected"}
      BY <3>1 DEF ThunkType
    <3>3. thunks[t].state # "running"
      BY <1>1 DEF Unresolved, Thunks
    <3>4. thunks[t].state # "rejected"
      BY <1>1 DEF Rejected, Thunks
    <3> QED
      BY <3>2, <3>3, <3>4
  <2>3. /\ thunks[t].void => thunks[t].result = t /\ t \notin Replaced
        /\ ~thunks[t].void => thunks[t].result # t
    BY <1>1, <2>2 DEF ThunksStand
  <2> QED
    BY <1>2, <2>1, <2>2, <2>3
<1>4. Unresolved' = {}
  BY <1>2, <1>3 DEF Unresolved, Thunks
<1>5. (\A t \in Thunks :
        /\ thunks[t].state # "resolved" \/ thunks[t].void => thunks[t].result = t /\ t \notin Replaced
        /\ thunks[t].state = "resolved" /\ ~thunks[t].void => thunks[t].result # t
        /\ thunks[t].state = "running" => t \in InData
        /\ t \notin InData => thunks[t].state = "resolved"
        /\ t \in InData /\ thunks[t].state = "resolved" /\ ~thunks[t].void =>
             /\ ReturnFits(t)
             /\ Meaning(t) \in Thunks => Post(Meaning(t), t) /\ Meaning(t) \in InData)'
  BY <1>2, <1>3
<1> QED
  BY <1>4, <1>5 DEF ThunksStand

(* and names after the sort. *)
LEMMA SortedKnown ==
  ASSUME NEW o, NEW objects, NEW b, Sorted(o, objects, b)
  PROVE  NamesKnown'
<1>1. /\ BuilderTypes /\ NamesKnown /\ UpdatedFits(thunks', o, Size) /\ SortsInto(data', o, objects, b)
      /\ UNCHANGED <<count, special, standsFor, refused>>
  BY DEF Sorted, SortsInto, Sortable
<1>2. Thunks' = Thunks /\ DOMAIN handles' \subseteq DOMAIN handles /\ Replaced' = Replaced /\ InData' \subseteq InData
  BY <1>1, SortedTypes, SortedOrder DEF Replaced, InData
<1>3. \A t \in Thunks : thunks'[t].result = thunks[t].result
  BY <1>1 DEF UpdatedFits
<1>4. Mentioned' \subseteq Mentioned
  BY <1>1, <1>2, <1>3 DEF Mentioned
<1>5. Known' \subseteq Known
  BY <1>1, <1>2, <1>4 DEF Known
<1>6. count \in [DOMAIN count -> Nat] /\ special \in Nat
  BY <1>1 DEF BuilderTypes
<1>7. NamesGrow({}, {})
  BY <1>1, <1>4, <1>5, <1>6 DEF NamesGrow
<1> QED
  BY <1>1, <1>7, NamesGrowKeeps

(* #sortCommandsAndInputs. *)
LEMMA SortKeeps ==
  ASSUME BuilderInv, NEW supported, Sort(supported)
  PROVE  BuilderInv'
<1>1. PICK o, objects, b : Sorted(o, objects, b)
  BY SortSorts
<1>2. /\ SortsInto(data', o, objects, b) /\ phase' \in {"resolving", "resolved"} /\ running' = <<>>
      /\ UNCHANGED <<standsFor, refused, late>>
  BY <1>1 DEF Sorted
<1>3. BuilderTypes' /\ Thunks' = Thunks /\ Forks' = {Root}
  BY <1>1, SortedTypes
<1>4. NamesKnown' /\ HandlesPoint' /\ ThunksStand' /\ Unresolved' = {}
  BY <1>1, SortedKnown, SortedHandles, SortedThunks
<1>5. Twins' /\ KindsNamed'
  BY <1>2, <1>3, SortedTwins, SortedKinds DEF Twins, KindsNamed
<1>6. ReplacedGone' /\ InOrder(Size)' /\ InData' \cap Thunks = {}
  BY <1>2, <1>3, SortedOrder DEF ReplacedGone, InOrder, Size, InData
<1>7. InputsApart'
  BY <1>2, SortedInputs DEF InputsApart
<1>8. ArgsFit'
  <2>1. SortedData(data', o, objects)
    BY <1>2 DEF SortsInto
  <2>2. Len(data'.commands) = Len(o)
    BY <2>1 DEF SortedData
  <2>3. ASSUME NEW i \in 1 .. Len(data'.commands), NEW k \in 1 .. Len(data'.commands[i].args)
        PROVE  ArgFits(data', Thunks, standsFor, refused, i, data'.commands[i].args[k])
    BY <1>2, <2>2, SortedArgFits
  <2>4. ArgsFitIn(data', Thunks, standsFor, refused)
    BY <2>3 DEF ArgsFitIn, ArgFits
  <2> QED
    BY <1>2, <1>3, <2>4 DEF ArgsFit
<1>9. Settled'
  BY <1>2, <1>3, <1>4, <1>6 DEF Settled, Root
<1> QED
  BY <1>2, <1>3, <1>4, <1>5, <1>6, <1>7, <1>8, <1>9 DEF BuilderInv

(***************************************************************************)
(* The theorems                                                            *)
(***************************************************************************)

(* Whatever some code adds. *)
LEMMA AddingKeeps ==
  ASSUME BuilderInv, NEW f \in Active, Adding(f)
  PROVE  BuilderInv'
<1>1. CASE \E args \in {<<>>} \cup {<<arg>> : arg \in ResultArgs} : AddCommand(f, "call", args)
  <2>1. PICK args \in {<<>>} \cup {<<arg>> : arg \in ResultArgs} : AddCommand(f, "call", args)
    BY <1>1
  <2>2. "call" \in {"call"} \cup Intents
    OBVIOUS
  <2>3. QED
    BY <2>1, <2>2, AddCommandKeeps
<1>2. CASE \E kind \in Intents : AddCommand(f, kind, <<>>)
  <2>1. PICK kind \in Intents : AddCommand(f, kind, <<>>)
    BY <1>2
  <2>2. kind \in {"call"} \cup Intents /\ <<>> \in {<<>>} \cup {<<arg>> : arg \in ResultArgs}
    BY <2>1
  <2>3. QED
    BY <2>1, <2>2, AddCommandKeeps
<1>3. CASE \E arg \in ResultArgs : AddRefused(f, arg)
  BY <1>3, AddRefusedKeeps
<1>4. CASE \E o \in Objects, m \in BOOLEAN : AddWithObject(f, o, m)
  BY <1>4, AddWithObjectKeeps
<1>5. CASE AddFunction(f)
  BY <1>5, AddFunctionKeeps
<1>6. QED
  BY <1>1, <1>2, <1>3, <1>4, <1>5 DEF Adding

(* Whatever a plugin does. *)
LEMMA PluginKeeps ==
  ASSUME BuilderInv, astray' = {}, Plugin, ~\E i \in 1 .. Size : PluginThrows(i)
  PROVE  BuilderInv'
<1>1. PICK i \in 1 .. Size + 1 :
         \/ \E o \in Objects : PluginInserts(i, o)
         \/ /\ i <= Size
            /\ \/ \E result \in PluginResults(i) : PluginReplacesCommand(i, result)
               \/ \E o \in Objects : PluginReplacesIntent(i, o)
  <2>1. Size \in Nat
    BY DataParts DEF BuilderInv, BuilderTypes, Size
  <2> QED
    BY <2>1 DEF Plugin, Size
<1>2. CASE \E o \in Objects : PluginInserts(i, o)
  BY <1>1, <1>2, InsertKeeps
<1>3. Size \in Nat
  BY DataParts DEF BuilderInv, BuilderTypes, Size
<1>4. CASE i <= Size /\ \E result \in PluginResults(i) : PluginReplacesCommand(i, result)
  <2>1. i \in 1 .. Size
    BY <1>1, <1>3, <1>4
  <2>2. QED
    BY <2>1, <1>4, ReplacesCommandKeeps
<1>5. CASE i <= Size /\ \E o \in Objects : PluginReplacesIntent(i, o)
  <2>1. i \in 1 .. Size
    BY <1>1, <1>3, <1>5
  <2>2. QED
    BY <2>1, <1>5, ReplacesIntentKeeps
<1>6. QED
  BY <1>1, <1>2, <1>4, <1>5

(* The properties, which a step that throws leaves as they were.           *)
Holds == TypeOK /\ ReferencesKeepMeaning /\ NoForwardReference /\ CommandsInCallOrder

(* The build has failed, and the properties hold. *)
Broken == phase = "broken" /\ running = <<>> /\ Unresolved = {} /\ Holds

(* The steps that throw. *)
Throws == SortThrows \/ \E i \in 1 .. Size : PluginThrows(i)

(* The invariant implies all of them. *)
LEMMA HoldsFromInv ==
  ASSUME BuilderInv  PROVE Holds
BY TypesFromInv, ReferencesFromInv, NoForwardFromInv, OrderFromInv DEF Holds

(* References keep their meaning when nothing changes.                     *)
LEMMA ReferencesStay ==
  ASSUME ReferencesKeepMeaning,
         UNCHANGED <<data, thunks, handles, standsFor, refused, astray>>
  PROVE  ReferencesKeepMeaning'
<1>1. \A i, id : Denotes(i, id)' <=> Denotes(i, id)
  BY DEF Denotes, Meaning
<1>2. \A arg : NestedInMerged(arg)' <=> NestedInMerged(arg)
  BY DEF NestedInMerged, Meaning
<1>3. Referable' = Referable
  BY DEF Referable, Usable, SecondHand
<1>4. \A id : Handle(id)' = Handle(id)
  BY DEF Handle, HandleIn
<1>5. (\A id \in Referable \ astray : Denotes(Handle(id), id))'
  <2>1. ASSUME NEW id \in Referable' \ astray'  PROVE Denotes(Handle(id), id)'
    <3>1. id \in Referable \ astray /\ Handle(id)' = Handle(id)
      BY <1>3, <1>4, <2>1
    <3>2. Denotes(Handle(id), id)
      BY <3>1 DEF ReferencesKeepMeaning
    <3> QED
      BY <3>2 DEF Denotes, Meaning, Handle, HandleIn
  <2> QED
    BY <2>1
<1>6. (\A i \in DOMAIN data.commands : \A k \in DOMAIN data.commands[i].args :
        data.commands[i].id \notin refused =>
        LET arg == data.commands[i].args[k]
        IN CASE arg.kind = "Input" ->
                  /\ data.inputs[arg.at].object = arg.of
                  /\ arg.mutable => data.inputs[arg.at].mutable
             [] RefersToResult(arg) ->
                  arg.of \in astray \/ Denotes(arg.at, arg.of) \/ NestedInMerged(arg)
             [] OTHER -> TRUE)'
  BY <1>1, <1>2 DEF ReferencesKeepMeaning
<1> QED
  BY <1>5, <1>6 DEF ReferencesKeepMeaning

(* A step that throws ends the build, and nothing else changes. *)
LEMMA ThrowsBreaks ==
  ASSUME BuilderInv, Throws
  PROVE  Broken'
<1>1. /\ UNCHANGED <<data, section, available, running, thunks, handles, standsFor, refused, late, stale, astray>>
      /\ phase' = "broken"
  BY DEF Throws, SortThrows, PluginThrows, history
<1>2. running = <<>> /\ Unresolved = {}
  <2>1. CASE SortThrows
    BY <2>1 DEF SortThrows
  <2>2. CASE \E i \in 1 .. Size : PluginThrows(i)
    <3>1. phase \in {"resolving", "resolved"}
      BY <2>2 DEF PluginThrows
    <3> QED
      BY <3>1 DEF BuilderInv, Settled
  <2> QED
    BY <2>1, <2>2 DEF Throws
<1>3. Unresolved' = Unresolved
  BY <1>1 DEF Unresolved
<1>4. Holds
  BY HoldsFromInv
<1>5. TypeOK'
  BY <1>1, <1>4 DEF Holds, TypeOK
<1>6. ReferencesKeepMeaning'
  BY <1>1, <1>4, ReferencesStay DEF Holds
<1>7. NoForwardReference'
  BY <1>1, <1>4 DEF Holds, NoForwardReference
<1>8. CommandsInCallOrder'
  BY <1>1, <1>4 DEF Holds, CommandsInCallOrder, Count
<1> QED
  BY <1>1, <1>2, <1>3, <1>5, <1>6, <1>7, <1>8 DEF Broken, Holds

(* Nothing happens any more.                                               *)
LEMMA BrokenStays ==
  ASSUME Broken, [Next]_vars
  PROVE  Broken'
<1>1. phase = "broken" /\ running = <<>> /\ Unresolved = {}
  BY DEF Broken
<1>2. Active = {}
  BY <1>1 DEF Active
<1>3. ~ReturnValue /\ \A void \in BOOLEAN : ~ReturnPromise(void)
  BY <1>1 DEF ReturnValue, ReturnPromise
<1>4. ~Prepare /\ ~PrepareFails /\ ~SortThrows /\ \A supported \in BOOLEAN : ~Sort(supported)
  BY <1>1 DEF Prepare, PrepareFails, SortThrows, Sort
<1>5. ~AddLate /\ ~ResolveFails /\ ~Finish /\ \A found \in Found : ~ResolveIntents(found)
  BY <1>1 DEF AddLate, ResolveFails, Finish, ResolveIntents
<1>6. ~Plugin
  BY <1>1 DEF Plugin, Plugs, PluginInserts, PluginReplacesCommand, PluginReplacesIntent, PluginThrows
<1>7. UNCHANGED vars
  BY <1>1, <1>2, <1>3, <1>4, <1>5, <1>6 DEF Next
<1>8. /\ UNCHANGED <<data, section, available, running, thunks, handles, phase>>
      /\ UNCHANGED <<standsFor, refused, late, stale, astray>>
  BY <1>7 DEF vars, history
<1>9. running' = <<>> /\ Unresolved' = {} /\ phase' = "broken"
  BY <1>1, <1>8 DEF Unresolved
<1>10. TypeOK'
  BY <1>8 DEF Broken, Holds, TypeOK, Flatten
<1>11. ReferencesKeepMeaning'
  BY <1>8, ReferencesStay DEF Broken, Holds
<1>12. NoForwardReference'
  BY <1>8 DEF Broken, Holds, NoForwardReference
<1>13. CommandsInCallOrder'
  BY <1>8 DEF Broken, Holds, CommandsInCallOrder, Count
<1> QED
  BY <1>9, <1>10, <1>11, <1>12, <1>13 DEF Broken, Holds

(* What went astray is not forgotten.                                      *)
LEMMA AstrayGrows ==
  ASSUME [Next]_vars
  PROVE  astray \subseteq astray'
<1>1. \A x : GoesAstray(x) => astray \subseteq astray'
  BY DEF GoesAstray
<1>2. ASSUME NEW f \in Active, Adding(f)  PROVE astray' = astray
  BY <1>2 DEF Adding, AddCommand, AddRefused, AddWithObject, AddFunction, history
<1>3. CASE ReturnValue \/ \E void \in BOOLEAN : ReturnPromise(void)
  BY <1>3 DEF ReturnValue, ReturnPromise, history
<1>4. CASE \E t \in Unresolved : Reject(t)
  BY <1>4 DEF Reject, history
<1>5. CASE \E t \in Unresolved, id \in Referable : Resolve(t, id)
  BY <1>1, <1>5 DEF Resolve
<1>6. CASE Prepare \/ PrepareFails \/ SortThrows \/ \E supported \in BOOLEAN : Sort(supported)
  BY <1>6 DEF Prepare, PrepareFails, SortThrows, Sort, history
<1>7. CASE AddLate \/ ResolveFails \/ Finish \/ \E found \in Found : ResolveIntents(found)
  BY <1>7 DEF AddLate, ResolveFails, Finish, ResolveIntents, history
<1>8. ASSUME NEW i, NEW o, PluginInserts(i, o) \/ PluginReplacesIntent(i, o) \/ PluginThrows(i)
      PROVE  astray' = astray
  BY <1>8 DEF PluginInserts, PluginReplacesIntent, PluginThrows, history
<1>9. ASSUME NEW i, NEW result, PluginReplacesCommand(i, result)  PROVE astray \subseteq astray'
  BY <1>1, <1>9 DEF PluginReplacesCommand
<1>10. CASE Plugin
  BY <1>8, <1>9, <1>10 DEF Plugin
<1>11. CASE UNCHANGED vars
  BY <1>11 DEF vars, history
<1> QED
  BY <1>2, <1>3, <1>4, <1>5, <1>6, <1>7, <1>10, <1>11 DEF Next

(* Every step of the builder keeps the invariant, unless it throws or      *)
(* leads something astray.                                                 *)
LEMMA NextKeeps ==
  ASSUME BuilderInv, [Next]_vars, astray' = {}, ~Throws
  PROVE  BuilderInv'
<1>1. CASE \E f \in Active : Adding(f)
  BY <1>1, AddingKeeps
<1>2. CASE ReturnValue
  BY <1>2, ReturnValueKeeps
<1>3. CASE \E void \in BOOLEAN : ReturnPromise(void)
  BY <1>3, ReturnPromiseKeeps
<1>4. CASE \E t \in Unresolved : Reject(t)
  BY <1>4, RejectKeeps
<1>5. CASE \E t \in Unresolved, id \in Referable : Resolve(t, id)
  BY <1>5, ResolveKeeps
<1>6. CASE Prepare \/ PrepareFails
  BY <1>6, PrepareKeeps
<1>7. CASE \E supported \in BOOLEAN : Sort(supported)
  BY <1>7, SortKeeps
<1>8. CASE AddLate
  BY <1>8, LateKeeps
<1>9. CASE Plugin
  BY <1>9, PluginKeeps DEF Throws
<1>10. CASE \E found \in Found : ResolveIntents(found)
  BY <1>10, ResolveIntentsKeeps
<1>11. CASE ResolveFails \/ Finish
  BY <1>11, ResetKeeps
<1>12. CASE UNCHANGED vars
  BY <1>12, StutterKeeps
<1>13. QED
  BY <1>1, <1>2, <1>3, <1>4, <1>5, <1>6, <1>7, <1>8, <1>9, <1>10, <1>11, <1>12 DEF Next, Throws

(* As long as nothing went astray, the transaction is as the invariant     *)
(* says, or an error has ended its build and its properties still hold.    *)
BuilderSound == astray = {} => BuilderInv \/ Broken

(* A step that ends with nothing astray began so, and keeps the invariant, *)
(* or throws, or came after a throw.                                       *)
LEMMA SoundKept ==
  ASSUME BuilderSound, [Next]_vars
  PROVE  BuilderSound'
<1> SUFFICES ASSUME astray' = {}  PROVE BuilderInv' \/ Broken'
  BY DEF BuilderSound
<1>1. astray = {}
  BY AstrayGrows
<1>2. CASE Broken
  BY <1>2, BrokenStays
<1>3. CASE BuilderInv /\ Throws
  BY <1>3, ThrowsBreaks
<1>4. CASE BuilderInv /\ ~Throws
  BY <1>4, NextKeeps
<1> QED
  BY <1>1, <1>2, <1>3, <1>4 DEF BuilderSound

(* With nothing astray the properties hold, whether the build failed or    *)
(* not.                                                                    *)
LEMMA SoundHolds ==
  ASSUME BuilderSound, astray = {}
  PROVE  Holds
BY HoldsFromInv DEF BuilderSound, Broken

(* Of every behaviour of the builder, for any objects and coins and any    *)
(* number of commands, functions and preparations: until a function        *)
(* returns a result that was not its own to return (Transaction.ts:489),   *)
(* or a plugin gives a result by its number and then moves it              *)
(* (TransactionData.ts:315-319), the invariant holds, or the build has     *)
(* failed and the properties still hold.                                   *)
THEOREM BuilderInvariant == Spec => []BuilderSound
<1>1. Init => BuilderSound
  BY InitBuilder DEF BuilderSound
<1>2. BuilderSound /\ [Next]_vars => BuilderSound'
  BY SoundKept
<1>3. QED
  BY <1>1, <1>2, PTL DEF Spec

(* As long as nothing went astray, the types hold; and whenever the        *)
(* builder may be prepared its sections name as many commands and inputs   *)
(* as there are, so that #sortCommandsAndInputs does not throw for their   *)
(* number (Transaction.ts:828, 832).                                       *)
THEOREM BuilderTypeCorrect == Spec => [](astray = {} => TypeOK)
<1>1. BuilderSound => (astray = {} => TypeOK)
  BY SoundHolds DEF Holds
<1>2. QED
  BY <1>1, BuilderInvariant, PTL

(* However often commands are sorted, replaced, inserted and resolved,     *)
(* every argument and every handle in use leads to the result or the       *)
(* object it was given for, as long as nothing went astray.                *)
THEOREM ReferencesKept == Spec => [](astray = {} => ReferencesKeepMeaning)
<1>1. BuilderSound => (astray = {} => ReferencesKeepMeaning)
  BY SoundHolds DEF Holds
<1>2. QED
  BY <1>1, BuilderInvariant, PTL

(* No command refers to a later one, unless add refused it, as long as     *)
(* nothing went astray.                                                    *)
THEOREM NoneForward == Spec => [](astray = {} => NoForwardReference)
<1>1. BuilderSound => (astray = {} => NoForwardReference)
  BY SoundHolds DEF Holds
<1>2. QED
  BY <1>1, BuilderInvariant, PTL

(* After sorting, the commands are in the order of the program, whatever   *)
(* order the asynchronous functions ended in, as long as nothing went      *)
(* astray.                                                                 *)
THEOREM CallOrder == Spec => [](astray = {} => CommandsInCallOrder)
<1>1. BuilderSound => (astray = {} => CommandsInCallOrder)
  BY SoundHolds DEF Holds
<1>2. QED
  BY <1>1, BuilderInvariant, PTL
=============================================================================
