-------------------- MODULE TransactionBuilderInvariant ---------------------
(***************************************************************************)
(* The invariant of the transaction builder, from which its properties     *)
(* follow. It is proved in TransactionAddingProofs and                     *)
(* TransactionBuilderProofs.                                               *)
(*                                                                         *)
(* Some parts hold at all times: what the commands, the references between *)
(* them, the handles and the asynchronous functions promise. While         *)
(* commands are added the sections say where each belongs (Gathering);     *)
(* between sorting and the end of preparing the commands are in the order  *)
(* of the program (Settled).                                               *)
(***************************************************************************)
EXTENDS TransactionBuilder

(* Paths: the names of commands and of the code that adds them. *)
Name == Seq(Nat)

(* The name p continues the name q. *)
Inside(p, q) == Len(q) < Len(p) /\ \A j \in 1 .. Len(q) : p[j] = q[j]

(* p comes before q, and neither continues the other. *)
Less(p, q) == \E k \in 1 .. Len(p) : /\ k \in 1 .. Len(q)
                                     /\ \A j \in 1 .. k - 1 : p[j] = q[j]
                                     /\ p[k] < q[k]

(* p is complete before q is: functions come after what they add. *)
Post(p, q) == Less(p, q) \/ Inside(p, q)

(* The types of inputs, arguments and commands. *)
Object == Objects \cup {Coins[i] : i \in DOMAIN Coins}
InputType == [object : Object, mutable : BOOLEAN]
ResultType == [kind : {"Result", "NestedResult"}, at : Nat, of : Name]
ObjectType == [kind : {"Input"}, at : Nat, of : Object, mutable : BOOLEAN]
ArgType == ResultType \cup ObjectType \cup {GasCoin}
Kinds == {"call", "thunk", "merge", "split"} \cup Intents
CommandType == [id : Name, kind : Kinds, args : Seq(ArgType)]
DataType == [inputs : Seq(InputType), commands : Seq(CommandType)]

(* No object is an input twice. *)
ApartIn(inputs) ==
  \A i, j \in 1 .. Len(inputs) : i # j => inputs[i].object # inputs[j].object

(* The entries of the sections; the sections; asynchronous functions. *)
ForkType == [fork : {TRUE}, name : Name]
CommandEntry == ForkType \cup [fork : {FALSE}, name : Name]
InputEntry == ForkType \cup [fork : {FALSE}, name : Object]
SectionType == [commands : Seq(CommandEntry), inputs : Seq(InputEntry)]
ThunkType == [state : {"running", "resolved", "rejected"}, result : Name,
              resultIndex : Nat, void : BOOLEAN]

(* The names of the commands c, and what a name means when S says what     *)
(* stands for what.                                                        *)
NamesIn(c) == {c[i].id : i \in 1 .. Len(c)}
MeaningIn(S, x) == IF x \in DOMAIN S THEN S[x] ELSE x

(* The following speak of commands c, or data d, where T are the           *)
(* asynchronous functions, S says what stands for what, L are the late     *)
(* commands and R the refused ones. - A name is there twice only if it was *)
(* added late.                                                             *)
TwinsIn(c, L) ==
  \A i, j \in 1 .. Len(c) : i # j /\ c[i].id = c[j].id =>
     /\ c[i].kind = "call" /\ c[i].args = <<>> /\ c[i].id \in L
     /\ \A k \in 1 .. Len(c) : c[k].id = c[i].id => k \in {i, j}

(* Kinds agree with names: a merge is named after its split, and a         *)
(* placeholder is of a function.                                           *)
KindsIn(c, T) ==
  \A i \in 1 .. Len(c) :
     /\ c[i].kind \in Intents => c[i].id[1] # 0
     /\ Last(c[i].id) = 0 <=> c[i].kind = "merge"
     /\ c[i].kind = "merge" =>
          \E j \in 1 .. Len(c) : Front(c[i].id) = c[j].id /\ c[j].kind = "split"
     /\ c[i].kind = "thunk" <=> c[i].id \in T

(* What stands for something else is no longer there, but for the          *)
(* placeholders of functions.                                              *)
GoneIn(c, T, S) ==
  /\ \A x \in NamesIn(c) \cap DOMAIN S : x \in T
  /\ \A x \in DOMAIN S : S[x] \notin DOMAIN S

(* Index i is where the result of x is: x is there, what stands for it, or *)
(* its placeholder.                                                        *)
PointsIn(c, T, S, i, x) ==
  /\ i \in 1 .. Len(c)
  /\ c[i].id = IF c[i].id \in T THEN x ELSE MeaningIn(S, x)

(* The argument at i refers to an earlier command, the one it means or,    *)
(* nested, the merge of its intent.                                        *)
ResultFits(c, T, S, i, arg) ==
  /\ arg.at < i
  /\ \/ PointsIn(c, T, S, arg.at, arg.of)
     \/ /\ arg.at \in 1 .. Len(c) /\ arg.kind = "NestedResult"
        /\ c[arg.at].id = Append(MeaningIn(S, arg.of), 0)

(* The argument refers to its object. *)
ObjectFits(inputs, arg) ==
  /\ arg.at \in 1 .. Len(inputs) /\ inputs[arg.at].object = arg.of
  /\ arg.mutable => inputs[arg.at].mutable

(* Every argument fits, but for the results that add refused. *)
ArgsFitIn(d, T, S, R) ==
  \A i \in 1 .. Len(d.commands) : \A k \in 1 .. Len(d.commands[i].args) :
    LET arg == d.commands[i].args[k]
    IN /\ arg.kind = "Input" => ObjectFits(d.inputs, arg)
       /\ RefersToResult(arg) =>
            d.commands[i].id \in R \/ ResultFits(d.commands, T, S, i, arg)

(* Names that a user's code gives, not a plugin or resolveCoinBalance. *)
User(x) == x[1] # 0 /\ Last(x) # 0

(* The user's commands among the first b are in the order of their names.  *)
OrderIn(c, b) ==
  \A i, j \in 1 .. b : i < j /\ User(c[i].id) /\ User(c[j].id) =>
    Less(c[i].id, c[j].id) \/ c[i].id = c[j].id

(* Abbreviations for the state. *)
Size == Len(data.commands)
NameAt(i) == data.commands[i].id
KindAt(i) == data.commands[i].kind
ArgsAt(i) == data.commands[i].args
InData == NamesIn(data.commands)
Forks == DOMAIN section
Thunks == DOMAIN thunks
Replaced == DOMAIN standsFor

(* Types. *)
BuilderTypes ==
  /\ phase \in {"idle", "waiting", "resolving", "resolved"}
  /\ data \in DataType
  /\ Root \in Forks /\ Forks \subseteq DOMAIN count
  /\ IsFiniteSet(Forks) /\ IsFiniteSet(Thunks)
  /\ section \in [Forks -> SectionType]
  /\ available \in [Forks -> SUBSET (1 .. Size)]
  /\ running \in Seq(Forks)
  /\ thunks \in [Thunks -> ThunkType]
  /\ count \in [DOMAIN count -> Nat] /\ DOMAIN count \subseteq Name
  /\ handles \in [DOMAIN handles -> Nat]
  /\ standsFor \in [Replaced -> Name]
  /\ special \in Nat

(* x is not later than what its path has added so far. *)
Made(x) == \A f \in DOMAIN count : Inside(x, f) => x[Len(f) + 1] <= count[f]

(* All names that are in use, and those of commands there or running. *)
Mentioned == Thunks \cup DOMAIN handles \cup Replaced \cup refused
               \cup {standsFor[x] : x \in Replaced} \cup {thunks[t].result : t \in Thunks}
Known == InData \cup Mentioned \cup (DOMAIN count \ {Root})

(* A name in use was given to something, so that a new one is new. *)
NamesKnown ==
  /\ \A x \in Known : x \in Name /\ x # <<>> /\ Made(x) /\ (x[1] = 0 => Len(x) > 1 /\ x[2] <= special)
  /\ \A x \in Mentioned \cup (DOMAIN count \ {Root}) : Last(x) # 0
  /\ \A f \in DOMAIN count : \A j \in 1 .. Len(f) : f[j] > 0

(* The parts that hold at all times. *)
Twins == TwinsIn(data.commands, late)
KindsNamed == KindsIn(data.commands, Thunks)
ReplacedGone == GoneIn(data.commands, Thunks, standsFor)
InputsApart == ApartIn(data.inputs)
Points(i, id) == PointsIn(data.commands, Thunks, standsFor, i, id)
ArgsFit == ArgsFitIn(data, Thunks, standsFor, refused)

(* The handle of a command leads to it; that of an asynchronous function   *)
(* whose placeholder is gone leads to what the function returned, unless   *)
(* this was second hand; and a placeholder that is there knows its index.  *)
HandlesPoint ==
  /\ \A id \in DOMAIN handles \ Thunks :
       id \notin Replaced /\ handles[id] \in 1 .. Size /\ NameAt(handles[id]) = id
  /\ \A t \in DOMAIN handles \cap Thunks :
       t \notin InData /\ ~thunks[t].void /\ thunks[t].result \notin Thunks =>
         Points(thunks[t].resultIndex, t)
  /\ \A i \in 1 .. Size : NameAt(i) \in Thunks =>
       /\ thunks[NameAt(i)].resultIndex = i /\ NameAt(i) \in DOMAIN handles /\ ArgsAt(i) = <<>>

(* What the function t returned may be referred to, was complete before t, *)
(* and means what t means.                                                 *)
ReturnFits(t) ==
  LET r == thunks[t].result
  IN /\ r \in Referable /\ r # t
     /\ Post(NameAt(Handle(r)), t)
     /\ t \in Replaced
     /\ Meaning(t) = Meaning(r)

(* An asynchronous function stands for what it returned; one that still    *)
(* runs has its placeholder, and one whose placeholder is gone has         *)
(* resolved.                                                               *)
ThunksStand ==
  \A t \in Thunks :
    /\ thunks[t].state # "resolved" \/ thunks[t].void => thunks[t].result = t /\ t \notin Replaced
    /\ thunks[t].state = "resolved" /\ ~thunks[t].void => thunks[t].result # t
    /\ thunks[t].state = "running" => t \in InData
    /\ t \notin InData => thunks[t].state = "resolved"
    /\ t \in InData /\ thunks[t].state = "resolved" /\ ~thunks[t].void =>
         /\ ReturnFits(t)
         /\ Meaning(t) \in Thunks => Post(Meaning(t), t) /\ Meaning(t) \in InData

(* The first b commands are in order. *)
InOrder(b) == OrderIn(data.commands, b)

(* The names of what was added since preparing ended the last time. *)
New(b) == (Forks \ {Root}) \cup {NameAt(j) : j \in b + 1 .. Size}

(* The first b commands were there when preparing ended the last time:     *)
(* they are the first entries of the root's section, and all that was      *)
(* added since is later.                                                   *)
Base(b) ==
  /\ b <= Len(section[Root].commands)
  /\ \A k \in 1 .. b : section[Root].commands[k] = Entry(NameAt(k)) /\ NameAt(k) \notin Thunks
  /\ \A i \in 1 .. b : \A x \in New(b) : NameAt(i)[1] < x[1]
  /\ \A t \in DOMAIN handles \cap Thunks :
       t \notin InData /\ ~thunks[t].void /\ thunks[t].result \notin Thunks =>
          thunks[t].resultIndex <= b
  /\ InOrder(b)
  /\ \A i \in b + 1 .. Size : User(NameAt(i)) /\ KindAt(i) \notin {"split", "merge"}

\* The entries of a section, but for the first b of the root.
EntryFits(f, b, e) ==
  /\ e.name # <<>> /\ Front(e.name) = f
  /\ IF e.fork THEN e.name \in Forks ELSE \E j \in b + 1 .. Size : NameAt(j) = e.name

(* The sections name every command added since then once, in order, in the *)
(* section of the code that added it.                                      *)
Placed(b) ==
  /\ \A f \in Forks : \A k \in 1 .. Len(section[f].commands) :
       (f = Root /\ k <= b) \/ EntryFits(f, b, section[f].commands[k])
  /\ \A j \in b + 1 .. Size :
       /\ NameAt(j) # <<>> /\ Front(NameAt(j)) \in Forks
       /\ \E k \in 1 .. Len(section[Front(NameAt(j))].commands) :
            section[Front(NameAt(j))].commands[k] = Entry(NameAt(j))
  /\ \A g \in Forks \ {Root} :
       /\ Front(g) \in Forks
       /\ \E k \in 1 .. Len(section[Front(g)].commands) :
            section[Front(g)].commands[k] = ForkEntry(g)
  /\ \A f \in Forks : \A k, l \in 1 .. Len(section[f].commands) :
       k < l /\ (f = Root => k > b) =>
         LET d == section[f].commands[k]
             e == section[f].commands[l]
         IN Last(d.name) < Last(e.name) \/ (d.name = e.name /\ d.fork /\ ~e.fork)
  /\ \A i, j \in b + 1 .. Size :
       i < j /\ Front(NameAt(i)) = Front(NameAt(j)) => Last(NameAt(i)) < Last(NameAt(j))
  /\ InData \cap (Forks \ {Root}) \subseteq Thunks

(* An entry of an inputs section. *)
InputEntryFits(f, e) ==
  IF e.fork THEN e.name # <<>> /\ Front(e.name) = f /\ e.name \in Forks
  ELSE \E i \in 1 .. Len(data.inputs) : data.inputs[i].object = e.name

(* The sections name every input once. *)
InputsPlaced ==
  /\ \A f \in Forks : \A k \in 1 .. Len(section[f].inputs) : InputEntryFits(f, section[f].inputs[k])
  /\ \A i \in 1 .. Len(data.inputs) :
       \E f \in Forks : \E k \in 1 .. Len(section[f].inputs) :
         section[f].inputs[k] = Entry(data.inputs[i].object)
  /\ \A g \in Forks \ {Root} :
       \E k \in 1 .. Len(section[Front(g)].inputs) :
            section[Front(g)].inputs[k] = ForkEntry(g)
  /\ \A f, g \in Forks : \A k \in 1 .. Len(section[f].inputs), l \in 1 .. Len(section[g].inputs) :
       section[f].inputs[k] = section[g].inputs[l] => f = g /\ k = l

(* A new command uses results of earlier names only. *)
LessArgs(b) ==
  \A i \in b + 1 .. Size : \A k \in 1 .. Len(ArgsAt(i)) :
    NameAt(i) \notin refused /\ RefersToResult(ArgsAt(i)[k]) => Less(NameAt(ArgsAt(i)[k].at), NameAt(i))

(* What is available to some code was added before what it adds next. *)
AvailableLess ==
  \A f \in Forks : \A i \in available[f] : Less(NameAt(i), NextName(f))

(* The functions that run have called one another, and have left nothing   *)
(* behind yet.                                                             *)
Running ==
  /\ \A k \in 1 .. Len(running) :
       /\ running[k] # <<>> /\ Last(running[k]) = count[Front(running[k])]
       /\ running[k] \notin InData \cup Mentioned
       /\ Len(running[k]) = Len(running[1]) + k - 1
       /\ k > 1 => Front(running[k]) = running[k - 1]
  /\ \A t \in Unresolved : t \in Forks

(* While commands are added, and between sorting and the end of preparing. *)
Adds == \E b \in 0 .. Size : Base(b) /\ Placed(b) /\ LessArgs(b)
Gathering == Adds /\ InputsPlaced /\ AvailableLess /\ Running
Settled ==
  /\ Forks = {Root} /\ running = <<>> /\ Unresolved = {} /\ InData \cap Thunks = {} /\ InOrder(Size)

(* The inductive invariant. *)
BuilderInv ==
  /\ BuilderTypes /\ NamesKnown /\ Twins /\ KindsNamed /\ ReplacedGone /\ InputsApart
  /\ ArgsFit /\ HandlesPoint /\ ThunksStand
  /\ phase \in {"idle", "waiting"} => Gathering
  /\ phase \in {"resolving", "resolved"} => Settled
=============================================================================
