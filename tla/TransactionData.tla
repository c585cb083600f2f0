--------------------------- MODULE TransactionData ---------------------------
(***************************************************************************)
(* TransactionDataBuilder: the inputs and commands of a transaction, and   *)
(* the operations that renumber the references between them.               *)
(*                                                                         *)
(* Indexes start at 1. A command has a name of its own, and an argument    *)
(* says beside the index it holds (at) what its author meant by it (of):   *)
(* the names are history, no operation of the code reads them.             *)
(***************************************************************************)
EXTENDS Naturals, Sequences, FiniteSets, SequencesExt

Result(i, id) == [kind |-> "Result", at |-> i, of |-> id]
NestedResult(i, id) == [kind |-> "NestedResult", at |-> i, of |-> id]
InputArg(i, object, mutable) == [kind |-> "Input", at |-> i, of |-> object, mutable |-> mutable]
GasCoin == [kind |-> "GasCoin", at |-> 0]

Command(id, kind, args) == [id |-> id, kind |-> kind, args |-> args]

Names(commands) == [i \in DOMAIN commands |-> commands[i].id]
RefersToResult(arg) == arg.kind \in {"Result", "NestedResult"}

\* Where a name first occurs (indexOf); 0 when it does not.
IndexOf(names, id) == SelectInSeq(names, LAMBDA n : n = id)

Splice(commands, index, removed, replacement) ==
  SubSeq(commands, 1, index - 1) \o replacement
    \o SubSeq(commands, index + removed, Len(commands))

MapArguments(commands, fn(_, _)) ==
  [i \in DOMAIN commands |->
     [commands[i] EXCEPT !.args = [k \in DOMAIN @ |-> fn(@[k], i)]]]

(***************************************************************************)
(* Inputs. An object is an input once, whoever adds it; a shared object    *)
(* that anybody needs mutable is mutable.                                  *)
(***************************************************************************)
InputIndex(inputs, object) == SelectInSeq(inputs, LAMBDA i : i.object = object)

WithObject(inputs, object, mutable) ==
  LET i == InputIndex(inputs, object)
  IN IF i = 0 THEN Append(inputs, [object |-> object, mutable |-> mutable])
     ELSE [inputs EXCEPT ![i].mutable = @ \/ mutable]

(***************************************************************************)
(* A command is replaced by several. References to its result become the   *)
(* result given or, given a number, keep their kind and take that index,   *)
(* by default the index of the command; a Result that was given a later    *)
(* one moves once more. References to later commands move, the             *)
(* replacement's own stay.                                                 *)
(***************************************************************************)
Number(i) == [kind |-> "Number", at |-> i]

ReplaceCommand(commands, index, replacement, result) ==
  LET moved(at) == IF at > index THEN at + Len(replacement) - 1 ELSE at
      remap(arg, i) ==
        IF i < index + Len(replacement) \/ ~RefersToResult(arg) THEN arg
        ELSE IF arg.at # index THEN [arg EXCEPT !.at = moved(@)]
        ELSE IF result.kind # "Number" THEN [result EXCEPT !.of = arg.of]
        ELSE [arg EXCEPT !.at = IF arg.kind = "Result" THEN moved(result.at) ELSE result.at]
  IN MapArguments(Splice(commands, index, 1, replacement), remap)

(***************************************************************************)
(* Another transaction is inserted: its inputs are joined with those here, *)
(* its references renumbered, and so are the references of the commands    *)
(* around it.                                                              *)
(***************************************************************************)
RemapCommandArguments(commands, inputMapping, commandMapping) ==
  MapArguments(commands, LAMBDA arg, i :
    CASE arg.kind = "Input" -> [arg EXCEPT !.at = inputMapping[@]]
      [] RefersToResult(arg) -> [arg EXCEPT !.at = commandMapping[@]]
      [] OTHER -> arg)

InsertTransaction(data, at, other) ==
  LET joined[i \in 0 .. Len(other.inputs)] ==
        IF i = 0 THEN data.inputs
        ELSE WithObject(joined[i - 1], other.inputs[i].object, other.inputs[i].mutable)
      inputs == joined[Len(other.inputs)]
      size == Len(other.commands)
      inputMapping == [i \in DOMAIN other.inputs |->
                         InputIndex(inputs, other.inputs[i].object)]
      commandMapping == [i \in 1 .. size |-> at + i - 1]
      inserted == RemapCommandArguments(other.commands, inputMapping, commandMapping)
      remap(arg, i) ==
        IF i \notin at .. at + size - 1 /\ RefersToResult(arg) /\ arg.at >= at
        THEN [arg EXCEPT !.at = @ + size] ELSE arg
  IN [inputs |-> inputs,
      commands |-> MapArguments(Splice(data.commands, at, 0, inserted), remap)]

\* An intent gives way to a whole transaction; its result becomes the nested
\* result 0 of command "result" of that transaction.
ReplaceCommandWithTransaction(data, index, other, result) ==
  LET with == InsertTransaction(data, index, other)
      size == Len(other.commands)
  IN [with EXCEPT !.commands =
        ReplaceCommand(@, index + size, <<>>, NestedResult(result + index - 1, <<>>))]
=============================================================================
