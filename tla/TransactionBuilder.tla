------------------------- MODULE TransactionBuilder -------------------------
(***************************************************************************)
(* Transaction: commands are added from several places at once - the       *)
(* code that holds the transaction, functions called by add, and           *)
(* asynchronous functions (thunks) that go on adding until their promise   *)
(* resolves - and preparing the transaction puts them into one order.      *)
(*                                                                         *)
(* The k-th thing that the code with path p adds is named Append(p, k), so *)
(* the order of the program is the order of the names. The path of the     *)
(* code that holds the transaction is empty; a function's path is the name *)
(* of the add that called it, which also names its placeholder.            *)
(***************************************************************************)
EXTENDS TransactionData

CONSTANTS
  Objects,      \* shared objects used as inputs
  Coins,        \* coin objects of the sender, as a sequence: those of one type
  MaxCommands,  \* bound: commands and functions added
  MaxForks,     \* bound: functions added
  MaxPrepares,  \* bound: calls of prepareForSerialization
  MaxSpecial    \* bound: objects, intents, refusals, late adds and plugins' changes

ASSUME BuilderAssumption ==
  /\ Coins # <<>> /\ Coins \in Seq({Coins[i] : i \in DOMAIN Coins})
  /\ \A i \in DOMAIN Coins : Coins[i] \notin Objects
  /\ \A i, j \in DOMAIN Coins : i # j => Coins[i] # Coins[j]
  /\ MaxCommands \in Nat /\ MaxForks \in Nat
  /\ MaxPrepares \in Nat /\ MaxSpecial \in Nat

VARIABLES
  data,       \* #data: inputs and commands
  section,    \* #commandSection and #inputSection of each fork
  available,  \* #availableResults of each fork
  running,    \* calls of add whose function has not returned, innermost last
  thunks,     \* the asynchronous functions: state, result and resultIndex
  phase,      \* where prepareForSerialization is
  count,      \* bound, names: how many things each path added
  prepares,   \* bound: calls of prepareForSerialization
  special,    \* bound: all but plain commands and functions
  standsFor,  \* history: the command that took the place of another
  handles,    \* the results in use outside, and the index each was given; not
              \* those that sorting, intents or plugins have left behind
  refused,    \* history: commands whose arguments were refused
  late,       \* history: commands added between sorting and the end of it
  stale,      \* history: asynchronous functions whose handles were left behind
  astray      \* history: what the code may lose track of, see GoesAstray

history == <<standsFor, refused, late, stale, astray>>
bounds == <<prepares, special>>
vars == <<data, section, available, running, thunks, handles, phase, count, bounds, history>>

Root == <<>>
Extend(f, x, v) == [y \in DOMAIN f \cup {x} |-> IF y = x THEN v ELSE f[y]]
\* The intents that resolveCoinBalance resolves: a coin of its own type, one
\* split off the gas coin, and one without balance.
Intents == {"coin", "gas", "zero"}
NoSection == [commands |-> <<>>, inputs |-> <<>>]
Entry(x) == [fork |-> FALSE, name |-> x]
ForkEntry(f) == [fork |-> TRUE, name |-> f]

Init ==
  /\ data = [inputs |-> <<>>, commands |-> <<>>]
  /\ section = [f \in {Root} |-> NoSection]
  /\ available = [f \in {Root} |-> {}]
  /\ running = <<>>
  /\ thunks = [t \in {} |-> 0]
  /\ phase = "idle"
  /\ count = [f \in {Root} |-> 0]
  /\ prepares = 0 /\ special = 0
  /\ standsFor = [x \in {} |-> 0]
  /\ handles = [x \in {} |-> 0]
  /\ refused = {} /\ late = {} /\ stale = {} /\ astray = {}

(***************************************************************************)
(* What results mean                                                       *)
(***************************************************************************)

\* The command whose result is wanted by those that refer to id: a thunk
\* stands for what it returned, an intent for what replaced it.
Meaning(id) == IF id \in DOMAIN standsFor THEN standsFor[id] ELSE id

\* From now on id, and what stood for id, stands for other.
TakesThePlaceOf(other, id) ==
  standsFor' = [x \in DOMAIN standsFor \cup {id} |->
                  IF x = id \/ standsFor[x] = id THEN Meaning(other) ELSE standsFor[x]]

\* References to id may lead elsewhere from now on, or forward: the code has
\* no check against what just happened to it.
GoesAstray(id) ==
  astray' = astray \cup {id} \cup {x \in DOMAIN standsFor : standsFor[x] = id}

\* The index that the handle of a result holds (createTransactionResult):
\* fixed, but for asynchronous functions, whose placeholders are asked.
HandleIn(placeholders, id) ==
  IF id \in DOMAIN placeholders THEN placeholders[id].resultIndex ELSE handles[id]
Handle(id) == HandleIn(thunks, id)

(***************************************************************************)
(* Adding                                                                  *)
(***************************************************************************)
Unresolved == {t \in DOMAIN thunks : thunks[t].state = "running"}

\* The code that may add something: the function just called, or any
\* asynchronous function that is waiting, or the holder of the transaction.
Active == IF running # <<>> THEN {Last(running)}
          ELSE Unresolved \cup {f \in {Root} : phase \in {"idle", "waiting"}}

Added == FoldFunction(LAMBDA a, b : a + b, 0, count)
NextName(f) == Append(f, count[f] + 1)
Counted(f) == Extend(count, f, count[f] + 1)

\* The results that code may refer to: whatever it can have got a handle
\* of, also one that is not available to it. Left out are the results of
\* void functions, and, once its placeholder is gone, that of a function
\* which returned another function's result (PlaceholdersFollow says why).
\* Handles that have gone stale are not in "handles" any more.
Usable == {id \in DOMAIN handles : id \in DOMAIN thunks => ~thunks[id].void}
SecondHand(id) ==
  /\ id \in DOMAIN thunks /\ thunks[id].result \in DOMAIN thunks \ {id}
  /\ IndexOf(Names(data.commands), id) = 0
Referable == {id \in Usable : ~SecondHand(id)}

\* add(command). The command is in place before its arguments are checked.
\* Bound on the steps of a special kind; "weight" is what one counts.
Special(weight) ==
  /\ special + weight <= MaxSpecial
  /\ special' = special + weight

PutCommand(f, command) ==
  /\ data' = [data EXCEPT !.commands = Append(@, command)]
  /\ section' = [section EXCEPT ![f].commands = Append(@, Entry(command.id))]
  /\ available' = [available EXCEPT ![f] = @ \cup {Len(data.commands) + 1}]

AvailableAnywhere(f, arg) == arg.at <= Len(data.commands)  \* mutant: forks share one set

Available(f, arg) == arg.at \in available[f]

AddCommand(f, kind, args) ==
  LET id == NextName(f)
  IN /\ Added < MaxCommands
     /\ PutCommand(f, Command(id, kind, args))
     /\ \A k \in DOMAIN args : Available(f, args[k])
     /\ count' = Counted(f)
     /\ handles' = Extend(handles, id, Len(data.commands) + 1)
     /\ Special(IF kind # "call" \/ \E k \in DOMAIN args : args[k].kind = "NestedResult"
                THEN 1 ELSE 0)
     /\ UNCHANGED <<running, thunks, phase, prepares, history>>

\* An argument is not available: add throws, and the command stays. An
\* asynchronous function that does not catch the error rejects.
AddRefused(f, arg) ==
  /\ Added < MaxCommands
  /\ ~Available(f, arg)
  /\ PutCommand(f, Command(NextName(f), "call", <<arg>>))
  /\ count' = Counted(f)
  /\ refused' = refused \cup {NextName(f)}
  /\ \/ UNCHANGED thunks
     \/ /\ f \in Unresolved
        /\ thunks' = [thunks EXCEPT ![f].state = "rejected"]
  /\ Special(2)
  /\ UNCHANGED <<running, handles, phase, prepares, standsFor, late, stale, astray>>

\* object(): an object is an input once; the command that uses it follows.
AddWithObject(f, object, mutable) ==
  LET id == NextName(f)
      inputs == WithObject(data.inputs, object, mutable)
      arg == InputArg(InputIndex(inputs, object), object, mutable)
      isNew == InputIndex(data.inputs, object) = 0
  IN /\ Added < MaxCommands
     /\ data' = [inputs |-> inputs,
                 commands |-> Append(data.commands, Command(id, "call", <<arg>>))]
     /\ section' = [section EXCEPT
          ![f].commands = Append(@, Entry(id)),
          ![f].inputs = IF isNew THEN Append(@, Entry(object)) ELSE @]
     /\ available' = [available EXCEPT ![f] = @ \cup {Len(data.commands) + 1}]
     /\ count' = Counted(f)
     /\ handles' = Extend(handles, id, Len(data.commands) + 1)
     /\ Special(1)
     /\ UNCHANGED <<running, thunks, phase, prepares, history>>

\* add(function): the function runs with a fork of its caller.
AddFunction(f) ==
  LET g == NextName(f)
  IN /\ Added < MaxCommands
     /\ Cardinality({h \in DOMAIN count : h # Root}) < MaxForks
     /\ running' = Append(running, g)
     /\ section' = [Extend(section, g, NoSection) EXCEPT
          ![f].commands = Append(@, ForkEntry(g)),
          ![f].inputs = Append(@, ForkEntry(g))]
     /\ available' = Extend(available, g, available[f])
     /\ count' = Extend(Counted(f), g, 0)
     /\ UNCHANGED <<data, thunks, handles, phase, bounds, history>>

Parent(g) == Front(g)

\* A function that is not asynchronous returns: what it added is available
\* to its caller.
ReturnValue ==
  LET g == Last(running)
  IN /\ running # <<>>
     /\ available' = [available EXCEPT ![Parent(g)] = available[g]]
     /\ running' = Front(running)
     /\ UNCHANGED <<data, section, thunks, handles, phase, count, bounds, history>>

\* It returns a promise: a placeholder takes its place, after what it has
\* added so far. A void function's result cannot be used.
ReturnPromise(void) ==
  LET g == Last(running)
      index == Len(data.commands) + 1
  IN /\ running # <<>>
     /\ PutCommand(Parent(g), Command(g, "thunk", <<>>))
     /\ thunks' = Extend(thunks, g, [state |-> "running", result |-> g,
                                     resultIndex |-> index, void |-> void])
     /\ Special(IF void THEN 2 ELSE 0)
     /\ running' = Front(running)
     /\ handles' = Extend(handles, g, index)
     /\ UNCHANGED <<phase, count, prepares, history>>

\* The promise of an asynchronous function resolves, with any result that
\* the program has. Nothing checks that the function may use it: it can be
\* one that was added elsewhere, after the function was called.
ReturnsForeign(t, id) == Handle(id) \notin available[t] \/ id \in astray

Resolve(t, id) ==
  /\ running = <<>> /\ t \in Unresolved
  /\ IF thunks[t].void
     THEN /\ thunks' = [thunks EXCEPT ![t].state = "resolved"]
          /\ UNCHANGED <<standsFor, astray, special>>
     ELSE /\ thunks' = [thunks EXCEPT ![t].state = "resolved", ![t].result = id]
          /\ TakesThePlaceOf(id, t)
          /\ IF ReturnsForeign(t, id) THEN GoesAstray(t) /\ Special(1)
             ELSE UNCHANGED <<astray, special>>
  /\ UNCHANGED <<data, section, available, running, handles, phase, count, prepares,
                 refused, late, stale>>

Reject(t) ==
  /\ running = <<>> /\ t \in Unresolved
  /\ thunks' = [thunks EXCEPT ![t].state = "rejected"]
  /\ Special(2)
  /\ UNCHANGED <<data, section, available, running, handles, phase, count, prepares, history>>

(***************************************************************************)
(* prepareForSerialization                                                 *)
(***************************************************************************)
Prepare ==
  /\ phase = "idle" /\ running = <<>> /\ prepares < MaxPrepares
  /\ prepares' = prepares + 1
  /\ Special(IF prepares = 0 THEN 0 ELSE 1)
  /\ phase' = "waiting"
  /\ UNCHANGED <<data, section, available, running, thunks, handles, count, history>>

Rejected == \E t \in DOMAIN thunks : thunks[t].state = "rejected"

\* #waitForPendingTasks rejects; what it waited for stays in
\* #pendingPromises, so the next call rejects as well.
PrepareFails ==
  /\ phase = "waiting" /\ running = <<>> /\ Rejected
  /\ phase' = "idle"
  /\ UNCHANGED <<data, section, available, running, thunks, handles, count, bounds, history>>

FlattenAsAdded(part) ==  \* mutant: sections are ignored
  IF part = "commands" THEN Names(data.commands)
  ELSE [i \in DOMAIN data.inputs |-> data.inputs[i].object]

Flatten(part) ==
  LET expand(e) == IF e.fork THEN section[e.name][part] ELSE <<e>>
      flat[n \in Nat] ==
        IF n = 0 THEN section[Root][part]
        ELSE LET outer == flat[n - 1]
             IN FlattenSeq([i \in DOMAIN outer |-> expand(outer[i])])
      entries == flat[Cardinality(DOMAIN section)]
  IN [i \in DOMAIN entries |-> entries[i].name]

IsPlaceholder(id) == id \in DOMAIN thunks

OriginalIndexUnfiltered(placeholders, names, i) ==  \* mutant: placeholders are counted
  LET id == data.commands[i].id
      at == IF IsPlaceholder(id) THEN HandleIn(placeholders, thunks[id].result) ELSE i
  IN IF at \notin DOMAIN data.commands THEN 0
     ELSE IndexOf(Flatten("commands"), data.commands[at].id)

\* The index among the names of the command at i, or of what the function
\* whose placeholder is at i returned; 0 where the code throws: the function
\* is void, there is no command, or the placeholders refer to each other.
OriginalIndex(placeholders, names, i) ==
  LET walk[n \in Nat] ==
        IF n = 0 THEN i
        ELSE LET at == walk[n - 1]
                 id == data.commands[at].id
             IN IF at \notin DOMAIN data.commands THEN 0
                ELSE IF ~IsPlaceholder(id) THEN at
                ELSE IF thunks[id].void THEN 0
                ELSE HandleIn(placeholders, thunks[id].result)
      last == walk[Cardinality(DOMAIN thunks) + 1]
  IN IF last = 0 THEN 0 ELSE IndexOf(names, data.commands[last].id)

\* Each placeholder is told where its result is, while the others are asked
\* for theirs: those before it answer with the new index.
UpdatedPlaceholders(names) ==
  LET updated[i \in 0 .. Len(data.commands)] ==
        IF i = 0 THEN thunks
        ELSE LET before == updated[i - 1]
                 id == data.commands[i].id
                 index == OriginalIndex(before, names, i)
             IN IF IsPlaceholder(id) /\ index # 0
                THEN [before EXCEPT ![id].resultIndex = index] ELSE before
  IN updated[Len(data.commands)]

\* The filter that drops the placeholders.
NoPlaceholders(names) ==
  FlattenSeq([i \in DOMAIN names |->
                IF IsPlaceholder(names[i]) THEN <<>> ELSE <<names[i]>>])

\* #sortCommandsAndInputs, up to the call of the plugins. An index of 0 is
\* that of no command.
Sort(supported) ==
  LET unordered == Names(data.commands)
      ordered == NoPlaceholders(Flatten("commands"))
      objects == Flatten("inputs")
      remap(arg, i) ==
        CASE arg.kind = "Input" ->
               [arg EXCEPT !.at = IndexOf(objects, data.inputs[@].object)]
          [] RefersToResult(arg) -> [arg EXCEPT !.at = OriginalIndex(thunks, ordered, @)]
          [] OTHER -> arg
      commands == MapArguments(
        [i \in DOMAIN ordered |-> data.commands[IndexOf(unordered, ordered[i])]], remap)
  IN /\ phase = "waiting" /\ running = <<>> /\ Unresolved = {} /\ ~Rejected
     /\ \A i \in DOMAIN commands : \A k \in DOMAIN commands[i].args :
          RefersToResult(commands[i].args[k]) => commands[i].args[k].at # 0
     /\ data' = [inputs |-> [i \in DOMAIN objects |->
                               data.inputs[InputIndex(data.inputs, objects[i])]],
                 commands |-> commands]
     /\ section' = [f \in {Root} |->
                      [commands |-> [i \in DOMAIN ordered |-> Entry(ordered[i])],
                       inputs |-> [i \in DOMAIN objects |-> Entry(objects[i])]]]
     /\ available' = [f \in {Root} |-> DOMAIN commands]
     /\ thunks' = UpdatedPlaceholders(ordered)
     /\ handles' = IF ordered = unordered THEN handles
                   ELSE [t \in DOMAIN handles \cap DOMAIN thunks |-> handles[t]]
     /\ phase' = IF ~supported /\ \E i \in DOMAIN commands : commands[i].kind \in Intents
                 THEN "resolving" ELSE "resolved"
     /\ UNCHANGED <<running, count, bounds, history>>

\* It throws, halfway through the arguments, when one of them leads nowhere.
\* What the program does with such a transaction is left out, and what the
\* code has changed of it until then.
LeadsNowhere(arg) ==
  RefersToResult(arg) /\ OriginalIndex(thunks, NoPlaceholders(Flatten("commands")), arg.at) = 0

SortThrows ==
  /\ phase = "waiting" /\ running = <<>> /\ Unresolved = {} /\ ~Rejected
  /\ \E i \in DOMAIN data.commands : \E k \in DOMAIN data.commands[i].args :
       LeadsNowhere(data.commands[i].args[k])
  /\ phase' = "broken"
  /\ UNCHANGED <<data, section, available, running, thunks, handles, count, bounds, history>>

\* Until the plugins are done #data.commands and #commandSection are one
\* array: a command added meanwhile is pushed onto it twice.
AddLate ==
  LET id == NextName(Root)
      command == Command(id, "call", <<>>)
  IN /\ phase \in {"resolving", "resolved"} /\ Added < MaxCommands
     /\ data' = [data EXCEPT !.commands = @ \o <<command, command>>]
     /\ available' = [available EXCEPT ![Root] = @ \cup {Len(data.commands) + 1}]
     /\ count' = Counted(Root)
     /\ late' = late \cup {id}
     /\ Special(2)
     /\ UNCHANGED <<section, running, thunks, handles, phase, prepares, standsFor, refused,
                    stale, astray>>

ResetOnlyPhase ==  \* mutant: the sections are kept
  /\ available' = [f \in {Root} |-> DOMAIN data'.commands]
  /\ phase' = "idle"
  /\ UNCHANGED section

\* #runPlugins, finally: the sections start again from the data.
Reset ==
  /\ section' = [f \in {Root} |->
       [commands |-> [i \in DOMAIN data'.commands |-> Entry(data'.commands[i].id)],
        inputs |-> [i \in DOMAIN data'.inputs |-> Entry(data'.inputs[i].object)]]]
  /\ available' = [f \in {Root} |-> DOMAIN data'.commands]
  /\ phase' = "idle"

Finish ==
  /\ phase = "resolved"
  /\ UNCHANGED <<data, running, thunks, handles, count, bounds, history>>
  /\ Reset

(***************************************************************************)
(* Plugins and intents                                                     *)
(***************************************************************************)

\* resolveCoinBalance, for the first intent that is left, if any is. The
\* coins found are merged for the first intent of their type. (The amounts
\* are pure inputs, which are left out.)
ResolveFirst(state, found) ==
  LET commands == state.data.commands
      index == SelectInSeq(commands, LAMBDA c : c.kind \in Intents)
      id == commands[index].id
      merges == commands[index].kind = "coin" /\ ~state.merged
      first == Len(state.data.inputs) + 1
      inputs == IF merges
                THEN state.data.inputs \o
                       [i \in DOMAIN found |-> [object |-> found[i], mutable |-> FALSE]]
                ELSE state.data.inputs
      coin(i) == InputArg(i, inputs[i].object, FALSE)
      merge == IF merges /\ Len(found) > 1
               THEN <<Command(Append(id, 0), "merge",
                        [i \in DOMAIN found |-> coin(first + i - 1)])>>
               ELSE <<>>
      source == IF commands[index].kind = "gas" THEN GasCoin
                ELSE coin(InputIndex(inputs, found[1]))
      replacement == Append(merge, Command(id, "split", <<source>>))
      nested(arg, i) == IF arg.kind = "Result" /\ arg.at = index
                        THEN NestedResult(index + Len(replacement) - 1, arg.of)
                        ELSE arg
  IN IF index = 0 THEN state
     ELSE [merged |-> state.merged \/ merges,
           data |-> [inputs |-> inputs,
                     commands |-> IF commands[index].kind = "zero"
                       THEN [commands EXCEPT ![index] = Command(id, "call", <<>>)]
                       ELSE MapArguments(ReplaceCommand(commands, index, replacement,
                                                      Number(index)),
                                         nested)]]

\* The list of commands has grown under the handles, and the index that a
\* placeholder was told is not told again: it has gone stale, as have the
\* handles of plain commands.
HandlesLeftBehind ==
  /\ handles' = [x \in {} |-> 0]
  /\ stale' = stale \cup (DOMAIN handles \cap DOMAIN thunks)

\* Enough coins that no input uses were found: the sender's first ones.
Found == {SubSeq(Coins, 1, n) : n \in 1 .. Len(Coins)}
Unused(found) == \A i \in DOMAIN found : InputIndex(data.inputs, found[i]) = 0

ResolveIntents(found) ==
  LET resolve[n \in 0 .. Len(data.commands)] ==
        IF n = 0 THEN [merged |-> FALSE, data |-> data]
        ELSE LET before == resolve[n - 1] IN ResolveFirst(before, found)
  IN /\ phase = "resolving" /\ Unused(found)
     /\ data' = resolve[Len(data.commands)].data
     /\ IF Len(data'.commands) = Len(data.commands) THEN UNCHANGED <<handles, stale>>
        ELSE HandlesLeftBehind
     /\ phase' = "resolved"
     /\ UNCHANGED <<section, available, running, thunks, count, bounds,
                    standsFor, refused, late, astray>>

\* The client fails, or the balance is too small: nothing was replaced yet.
ResolveFails ==
  /\ phase = "resolving"
  /\ UNCHANGED <<data, running, thunks, handles, count, bounds, history>>
  /\ Reset

\* What a plugin puts in: two commands, the second using the first.
PluginName(k) == <<0, special + 1, k>>
Other(object) ==
  [inputs |-> <<[object |-> object, mutable |-> TRUE]>>,
   commands |-> <<Command(PluginName(1), "call", <<InputArg(1, object, TRUE)>>),
                  Command(PluginName(2), "call", <<Result(1, PluginName(1))>>)>>]

Plugs ==
  /\ phase \in {"resolving", "resolved"}
  /\ Special(1)
  /\ HandlesLeftBehind
  /\ UNCHANGED <<section, available, running, thunks, phase, count, prepares, refused, late>>

PluginInserts(at, object) ==
  /\ Plugs
  /\ data' = InsertTransaction(data, at, Other(object))
  /\ UNCHANGED <<standsFor, astray>>

PluginReplacesIntent(index, object) ==
  /\ Plugs
  /\ data.commands[index].kind \in Intents
  /\ data' = ReplaceCommandWithTransaction(data, index, Other(object), 2)
  /\ TakesThePlaceOf(PluginName(2), data.commands[index].id)
  /\ UNCHANGED astray

\* The result of the second command, or its index as a number: then
\* replaceCommand moves a Result that it has just given that index.
PluginResults(index) == {Result(index + 1, PluginName(2)), Number(index + 1)}

PluginReplacesCommand(index, result) ==
  LET command == data.commands[index]
      replacement == <<Command(PluginName(1), "call", <<>>),
                       Command(PluginName(2), "call", command.args)>>
  IN /\ Plugs
     /\ command.kind = "call" /\ command.id \notin late \cup refused
     /\ data' = [data EXCEPT !.commands = ReplaceCommand(@, index, replacement, result)]
     /\ TakesThePlaceOf(PluginName(2), command.id)
     /\ IF result.kind = "Number" THEN GoesAstray(command.id) ELSE UNCHANGED astray

\* A plugin replaces a command by the result of another, and finds a nested
\* element of its result in use that is not the first: replaceCommand
\* throws, halfway through the arguments, and the build fails.
PluginThrows(index) ==
  /\ phase \in {"resolving", "resolved"} /\ Special(1)
  /\ \E i \in index + 1 .. Len(data.commands) : \E k \in DOMAIN data.commands[i].args :
       LET arg == data.commands[i].args[k] IN arg.kind = "NestedResult" /\ arg.at = index
  /\ phase' = "broken"
  /\ UNCHANGED <<data, section, available, running, thunks, handles, count, prepares, history>>

(***************************************************************************)
(* Specification                                                           *)
(***************************************************************************)
ResultArgs == {Result(Handle(id), id) : id \in Referable}
                \cup {NestedResult(Handle(id), id) : id \in Referable}

Adding(f) ==
  \/ \E args \in {<<>>} \cup {<<arg>> : arg \in ResultArgs} : AddCommand(f, "call", args)
  \/ \E kind \in Intents : AddCommand(f, kind, <<>>)
  \/ \E arg \in ResultArgs : AddRefused(f, arg)
  \/ \E o \in Objects, m \in BOOLEAN : AddWithObject(f, o, m)
  \/ AddFunction(f)

Plugin ==
  \E i \in 1 .. Len(data.commands) + 1 :
    \/ \E o \in Objects : PluginInserts(i, o)
    \/ /\ i <= Len(data.commands)
       /\ \/ \E result \in PluginResults(i) : PluginReplacesCommand(i, result)
          \/ \E o \in Objects : PluginReplacesIntent(i, o)
          \/ PluginThrows(i)

Next ==
  \/ \E f \in Active : Adding(f)
  \/ ReturnValue
  \/ \E void \in BOOLEAN : ReturnPromise(void)
  \/ \E t \in Unresolved : Reject(t)
  \/ \E t \in Unresolved, id \in Referable : Resolve(t, id)
  \/ Prepare \/ PrepareFails
  \/ \E supported \in BOOLEAN : Sort(supported)
  \/ SortThrows
  \/ AddLate
  \/ Plugin
  \/ \E found \in Found : ResolveIntents(found)
  \/ ResolveFails
  \/ Finish

Spec == Init /\ [][Next]_vars

(***************************************************************************)
(* Properties                                                              *)
(***************************************************************************)
Count(id) == Cardinality({i \in DOMAIN data.commands : data.commands[i].id = id})

\* Types; and between two adds every section names exactly the commands and
\* inputs that are there (the lengths that #sortCommandsAndInputs compares).
TypeOK ==
  /\ phase \in {"idle", "waiting", "resolving", "resolved", "broken"}
  /\ DOMAIN section = DOMAIN available
  /\ \A i \in DOMAIN data.inputs : data.inputs[i].mutable \in BOOLEAN
  /\ \A i \in DOMAIN data.commands : \A k \in DOMAIN data.commands[i].args :
       data.commands[i].id \notin refused =>
         data.commands[i].args[k].at \in 0 .. Len(data.commands) + Len(data.inputs)
  /\ phase \in {"idle", "waiting"} =>
       /\ Len(Flatten("commands")) = Len(data.commands)
       /\ Len(Flatten("inputs")) = Len(data.inputs)

\* A nested result of a coin intent that became two commands is left with
\* the first of them, the merge.
NestedInMerged(arg) ==
  /\ arg.kind = "NestedResult"
  /\ data.commands[arg.at].id = Append(Meaning(arg.of), 0)

Denotes(i, id) ==
  /\ i \in DOMAIN data.commands
  /\ data.commands[i].id \in {id, Meaning(id)}

\* However commands are sorted, replaced and inserted, every argument refers
\* to the result or the object that it was given for, and to an object that
\* is mutable if its user needs it so; and so does every handle in use. Left
\* out by name are arguments that add refused, and what went astray.
ReferencesKeepMeaning ==
  /\ \A i \in DOMAIN data.commands : \A k \in DOMAIN data.commands[i].args :
       data.commands[i].id \notin refused =>
       LET arg == data.commands[i].args[k]
       IN CASE arg.kind = "Input" ->
                 /\ data.inputs[arg.at].object = arg.of
                 /\ arg.mutable => data.inputs[arg.at].mutable
            [] RefersToResult(arg) ->
                 arg.of \in astray \/ Denotes(arg.at, arg.of) \/ NestedInMerged(arg)
            [] OTHER -> TRUE
  /\ \A id \in Referable \ astray : Denotes(Handle(id), id)

\* CHANGELOG.md 4a5aef6, "Update thunk results after build": the handle of
\* every asynchronous function leads to its result. It may not when the
\* function returned what an earlier one returned, and once intents or
\* plugins have put commands before it.
PlaceholdersFollow ==
  \A id \in Usable \cup {t \in stale : ~thunks[t].void} : Denotes(Handle(id), id)

\* No command uses the result of a later one, unless add refused it or the
\* result went astray.
NoForwardReference ==
  \A i \in DOMAIN data.commands :
    data.commands[i].id \notin refused =>
      \A k \in DOMAIN data.commands[i].args :
        LET arg == data.commands[i].args[k]
        IN RefersToResult(arg) => arg.at < i \/ arg.of \in astray

Before(p, q) ==
  \/ IsStrictPrefix(p, q)
  \/ \E k \in DOMAIN p \cap DOMAIN q :
       SubSeq(p, 1, k - 1) = SubSeq(q, 1, k - 1) /\ p[k] < q[k]

\* Once the transaction is sorted, the commands its user added are there in
\* the order in which the program adds them when every function is read in
\* the place of its call; each is there once, and twice if added late.
CommandsInCallOrder ==
  LET names == Names(data.commands)
      added == {i \in DOMAIN names : names[i][1] # 0 /\ Last(names[i]) # 0}
  IN DOMAIN section = {Root} =>
       \A i, j \in added : i < j =>
         \/ Before(names[i], names[j])
         \/ names[i] = names[j] /\ names[i] \in late /\ Count(names[i]) = 2
=============================================================================
