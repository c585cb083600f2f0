--------------------------- MODULE KioskTransaction ---------------------------
(***************************************************************************)
(* The kiosk SDK's builder (kiosk-transaction.ts): it remembers which      *)
(* kiosk and which cap the next operation uses, whether the kiosk is still *)
(* to be shared and the cap to be transferred, and what it has borrowed    *)
(* from a personal cap; finalize() settles all of that.                    *)
(* A command of the transaction is a record, and what a command returns is *)
(* named by the command's position.  Operations that use the kiosk and its *)
(* cap without changing the builder are one operation here.                *)
(***************************************************************************)
EXTENDS Naturals, Sequences, FiniteSets

CONSTANTS
  Owned,        \* the caps setCap() may be given
  Personal,     \* those of them with isPersonal
  None,         \* undefined
  MaxCommands,      \* bound on the transaction; a replacement counts for two
  MaxReplacements   \* bound on how often the kiosk or the cap is replaced

KioskAssumption ==
  /\ Personal \subseteq Owned
  /\ Owned \cap Nat = {} /\ None \notin Owned \cup Nat
  /\ MaxCommands \in Nat /\ MaxReplacements \in Nat
ASSUME KioskAssumption

VARIABLES
  commands,          \* the transaction
  kiosk, kioskCap,
  personalCap,       \* #personalCap
  promise,           \* #promise
  pendingShare,      \* #pendingShare
  pendingTransfer,   \* #pendingTransfer
  finalized,         \* #finalized
  buying,            \* the purchaseAndResolve() under way
  overtaken,         \* ghost: finalize() has ended the builder while a
                     \* purchaseAndResolve() was under way
  replaced,          \* ghost: how often the builder was given another kiosk or cap
  sharedAgain        \* ghost: the caller shared a kiosk that was shared already,
                     \* or set one to be shared

builder == <<kiosk, kioskCap, personalCap, promise, pendingShare, pendingTransfer, finalized,
             overtaken>>
vars == <<commands, builder, buying, replaced, sharedAgain>>

Names == Owned \cup 1..MaxCommands \cup {None}

Positions(op) == {i \in DOMAIN commands : commands[i].op = op}

Shared(k) == \E i \in Positions("share") : commands[i].kiosk = k

\* The name of what the n-th command added from here returns.
Fresh(n) == Len(commands) + n

Add(cs) ==
  /\ Len(commands) + Len(cs) + 2 * replaced <= MaxCommands
  /\ commands' = commands \o cs

Cmd(op, k, c) == [op |-> op, kiosk |-> k, cap |-> c, promise |-> None]

\* #validateKioskIsSet
KioskIsSet == ~finalized /\ kiosk # None /\ kioskCap # None

\* Something has been set up that a new setup replaces.
InUse == kiosk # None \/ personalCap # None

Replacing(again) ==
  /\ replaced' = replaced + (IF again THEN 1 ELSE 0)
  /\ replaced' <= MaxReplacements
  /\ Len(commands') + 2 * replaced' <= MaxCommands

\* The rules of a transfer policy, in its order.
RuleLists == {<<>>, <<"royalty">>, <<"lock">>, <<"royalty", "lock">>}

NotBuying == [phase |-> "no", rules |-> <<>>, locked |-> FALSE]

\* The caller shares a kiosk, and perhaps not for the first time.
NoteShare == sharedAgain' = (sharedAgain \/ Shared(kiosk))

\* The caller sets a kiosk, and perhaps a shared one while the one before it
\* is still to be shared.
NoteSet(k) == sharedAgain' = (sharedAgain \/ (pendingShare /\ Shared(k)))

Init ==
  /\ commands = <<>>
  /\ kiosk = None /\ kioskCap = None /\ personalCap = None /\ promise = None
  /\ pendingShare = FALSE /\ pendingTransfer = FALSE /\ finalized = FALSE
  /\ buying = NotBuying /\ overtaken = FALSE
  /\ replaced = 0 /\ sharedAgain = FALSE

-----------------------------------------------------------------------------
(* Setting up. *)

\* mutant: the personal cap is not remembered.
BorrowForgettingCap(p, n) ==
  /\ kioskCap' = Fresh(n)
  /\ promise' = Fresh(n)
  /\ UNCHANGED personalCap

\* #borrowFromPersonalCap, its command being the n-th of the step.
BorrowFrom(p, n) ==
  /\ kioskCap' = Fresh(n)
  /\ promise' = Fresh(n)
  /\ personalCap' = p

Create ==
  /\ ~finalized
  /\ Add(<<Cmd("create", None, None)>>)
  /\ kiosk' = Fresh(1)
  /\ kioskCap' = Fresh(1)
  /\ pendingShare' = TRUE
  /\ pendingTransfer' = TRUE
  /\ Replacing(InUse)
  /\ UNCHANGED <<personalCap, promise, finalized, overtaken, buying, sharedAgain>>

ConvertToPersonal(borrow) ==
  /\ KioskIsSet
  /\ LET new == Cmd("personal", kiosk, kioskCap)
     IN IF borrow
        THEN /\ Add(<<new, Cmd("borrow", None, Fresh(1))>>)
             /\ BorrowFrom(Fresh(1), 2)
        ELSE /\ Add(<<new>>)
             /\ personalCap' = Fresh(1)
             /\ UNCHANGED <<kioskCap, promise>>
  /\ pendingTransfer' = TRUE
  /\ Replacing(personalCap # None)
  /\ UNCHANGED <<kiosk, pendingShare, finalized, overtaken, buying, sharedAgain>>

\* createPersonal.
CreatePersonal(borrow) ==
  /\ ~finalized
  /\ LET new == <<Cmd("create", None, None), Cmd("personal", Fresh(1), Fresh(1))>>
     IN IF borrow
        THEN /\ Add(Append(new, Cmd("borrow", None, Fresh(2))))
             /\ BorrowFrom(Fresh(2), 3)
        ELSE /\ Add(new)
             /\ kioskCap' = Fresh(1)
             /\ personalCap' = Fresh(2)
             /\ UNCHANGED promise
  /\ kiosk' = Fresh(1)
  /\ pendingShare' = TRUE
  /\ pendingTransfer' = TRUE
  /\ Replacing(InUse)
  /\ UNCHANGED <<finalized, overtaken, buying, sharedAgain>>

\* setCap: of an existing kiosk; a personal cap is borrowed from at once.
SetCap(cap) ==
  /\ ~finalized
  /\ kiosk' = cap
  /\ IF cap \in Personal
     THEN Add(<<Cmd("borrow", None, cap)>>) /\ BorrowFrom(cap, 1)
     ELSE kioskCap' = cap /\ UNCHANGED <<commands, personalCap, promise>>
  /\ Replacing(InUse)
  /\ NoteSet(cap)
  /\ UNCHANGED <<pendingShare, pendingTransfer, finalized, overtaken, buying>>

\* setKiosk, setKioskCap: anything the caller has.
SetKiosk(k) ==
  /\ ~finalized
  /\ kiosk' = k
  /\ UNCHANGED <<commands, kioskCap, personalCap, promise, pendingShare,
                 pendingTransfer, finalized, overtaken, buying>>
  /\ Replacing(TRUE)
  /\ NoteSet(k)

SetKioskCap(c) ==
  /\ ~finalized
  /\ kioskCap' = c
  /\ UNCHANGED <<commands, kiosk, personalCap, promise, pendingShare,
                 pendingTransfer, finalized, overtaken, buying, sharedAgain>>
  /\ Replacing(TRUE)

-----------------------------------------------------------------------------
(* Operations. *)

\* place, list, delist, take, lock, withdraw, borrow, return, ...
Use ==
  /\ KioskIsSet
  /\ Add(<<Cmd("use", kiosk, kioskCap)>>)
  /\ UNCHANGED <<builder, buying, replaced, sharedAgain>>

\* createAndShare leaves the builder alone.
CreateAndShare ==
  /\ ~finalized
  /\ Add(<<Cmd("createAndShare", None, None)>>)
  /\ UNCHANGED <<builder, buying, replaced, sharedAgain>>

\* purchase checks nothing.
Purchase ==
  /\ Add(<<Cmd("purchase", None, None)>>)
  /\ UNCHANGED <<builder, buying, replaced, sharedAgain>>

\* mutant: the kiosk stays pending.
ShareStillPending(rest) ==
  /\ Add(<<Cmd("share", kiosk, None)>> \o rest)
  /\ UNCHANGED pendingShare

\* share, followed by other commands of the same call.
ShareThen(rest) ==
  /\ Add(<<Cmd("share", kiosk, None)>> \o rest)
  /\ pendingShare' = FALSE

Share ==
  /\ KioskIsSet
  /\ ShareThen(<<>>)
  /\ NoteShare
  /\ UNCHANGED <<kiosk, kioskCap, personalCap, promise, pendingTransfer,
                 finalized, overtaken, buying, replaced>>

\* shareAndTransferCap.
ShareAndTransferCap ==
  /\ KioskIsSet
  /\ personalCap = None
  /\ pendingTransfer' = FALSE
  /\ ShareThen(<<Cmd("transferCap", None, kioskCap)>>)
  /\ NoteShare
  /\ UNCHANGED <<kiosk, kioskCap, personalCap, promise, finalized, overtaken, buying, replaced>>

-----------------------------------------------------------------------------
(* purchaseAndResolve. *)

\* It asks for the policies of the type.
BuyStarts ==
  /\ KioskIsSet
  /\ buying.phase = "no"
  /\ buying' = [NotBuying EXCEPT !.phase = "policies"]
  /\ UNCHANGED <<commands, builder, replaced, sharedAgain>>

\* Up to the next await, from the first of these rules on: the lock rule
\* adds its command with the kiosk and cap of now, the royalty rule asks the
\* node for the amount, and after the last one the request is confirmed and
\* the item placed, unless place() throws.
Proceed(before, rules, locked) ==
  IF rules = <<>>
  THEN /\ Add(before \o <<Cmd("confirm", None, None)>>
                     \o (IF locked \/ ~KioskIsSet THEN <<>>
                         ELSE <<Cmd("use", kiosk, kioskCap)>>))
       /\ buying' = NotBuying
  ELSE LET lock == Head(rules) = "lock"
       IN /\ Add(before \o IF lock THEN <<Cmd("lock", kiosk, kioskCap)>> ELSE <<>>)
          /\ buying' = [phase |-> "rules", rules |-> rules, locked |-> locked \/ lock]

BuyPurchases(rules) ==
  /\ buying.phase = "policies"
  /\ Proceed(<<Cmd("purchase", None, None)>>, rules, FALSE)
  /\ UNCHANGED <<builder, replaced, sharedAgain>>

\* The first rule is done: the royalty is paid after the answer of the node.
BuyResumes ==
  /\ buying.phase = "rules"
  /\ Proceed(IF Head(buying.rules) = "royalty" THEN <<Cmd("pay", None, None)>> ELSE <<>>,
             Tail(buying.rules), buying.locked)
  /\ UNCHANGED <<builder, replaced, sharedAgain>>

\* No policy, no resolver, or the node does not answer.
BuyFails ==
  /\ buying.phase # "no"
  /\ buying' = NotBuying
  /\ UNCHANGED <<commands, builder, replaced, sharedAgain>>

-----------------------------------------------------------------------------
(* finalize. *)

\* mutant: the personal cap is transferred before the cap is back in it.
TransferThenReturn ==
  (IF pendingTransfer THEN <<Cmd("transferPersonal", None, personalCap)>> ELSE <<>>) \o
  (IF promise # None
   THEN <<[op |-> "return", kiosk |-> personalCap, cap |-> kioskCap, promise |-> promise]>>
   ELSE <<>>)

\* What finalize adds for a personal cap, once the kiosk is shared.
GiveBack ==
  (IF promise # None
   THEN <<[op |-> "return", kiosk |-> personalCap, cap |-> kioskCap, promise |-> promise]>>
   ELSE <<>>) \o
  (IF pendingTransfer THEN <<Cmd("transferPersonal", None, personalCap)>> ELSE <<>>)

\* Without a personal cap finalize only shares; it throws if a cap is left
\* to be transferred, after it has shared the kiosk.
Finalize ==
  /\ KioskIsSet
  /\ LET rest == IF personalCap = None THEN <<>> ELSE GiveBack
     IN IF pendingShare THEN ShareThen(rest)
        ELSE Add(rest) /\ UNCHANGED pendingShare
  /\ finalized' = (personalCap # None)
  /\ overtaken' = (personalCap # None /\ buying.phase # "no")
  /\ UNCHANGED <<kiosk, kioskCap, personalCap, promise, pendingTransfer, buying,
                 replaced, sharedAgain>>

Next ==
  \/ Create
  \/ \E borrow \in BOOLEAN : CreatePersonal(borrow)
  \/ \E borrow \in BOOLEAN : ConvertToPersonal(borrow)
  \/ \E cap \in Owned : SetCap(cap)
  \/ \E k \in Owned \cup Positions("create") : SetKiosk(k)
  \/ \E c \in Owned \cup Positions("create") \cup Positions("borrow") : SetKioskCap(c)
  \/ Use
  \/ CreateAndShare
  \/ Purchase
  \/ Share
  \/ ShareAndTransferCap
  \/ BuyStarts
  \/ \E rules \in RuleLists : BuyPurchases(rules)
  \/ BuyResumes
  \/ BuyFails
  \/ Finalize

KioskSpec == Init /\ [][Next]_vars

-----------------------------------------------------------------------------
(* Properties. *)

\* Types; what is borrowed is borrowed from the personal cap at hand, and
\* only a builder with a personal cap is ever marked as finalized.
KioskTypeOK ==
  /\ commands \in Seq([op : {"create", "personal", "borrow", "use", "createAndShare",
                             "purchase", "share", "transferCap", "lock", "pay",
                             "confirm", "return", "transferPersonal"},
                       kiosk : Names, cap : Names, promise : Names])
  /\ {kiosk, kioskCap, personalCap, promise} \subseteq Names
  /\ {pendingShare, pendingTransfer, finalized, overtaken, sharedAgain} \subseteq BOOLEAN
  /\ buying \in [phase : {"no", "policies", "rules"},
                 rules : RuleLists \cup {<<"lock">>}, locked : BOOLEAN]
  /\ replaced \in 0..MaxReplacements
  /\ promise # None => personalCap # None
  /\ finalized => personalCap # None

Purchasing == {"purchase", "pay", "lock", "confirm"}

\* In a finalized transaction whose kiosk and caps were never replaced,
\* every borrowed cap is returned exactly once, to the personal cap it came
\* from and with its own promise. Every command that takes the cap, of
\* whatever operation, is between the command that borrowed it and the one
\* that returned it, but for one case: a purchaseAndResolve() that finalize()
\* has overtaken still locks its item with the returned cap, because nothing
\* stops it although finalize() is to leave "no other functions" to call
\* (kiosk-transaction.ts:453). Every personal cap made on the way is
\* transferred once, after the return; and only purchases, which finalize
\* does not stop, add commands behind it.
PersonalCapGivenBack ==
  (finalized /\ replaced = 0) =>
    /\ \A b \in Positions("borrow") :
         \E r \in Positions("return") :
           /\ {i \in Positions("return") : commands[i].promise = b} = {r}
           /\ commands[r].promise = b /\ commands[r].cap = b
           /\ commands[r].kiosk = commands[b].cap
           /\ \A u \in DOMAIN commands :
                commands[u].cap = b => u \in b..r \/ (overtaken /\ commands[u].op = "lock")
           /\ \A i \in DOMAIN commands :
                i > r => commands[i].op \in Purchasing \cup {"transferPersonal"}
    /\ \A p \in Positions("personal") :
         \E t \in Positions("transferPersonal") :
           /\ {i \in Positions("transferPersonal") : commands[i].cap = p} = {t}
           /\ \A r \in Positions("return") : r < t
           /\ \A i \in DOMAIN commands : i > t => commands[i].op \in Purchasing

\* A kiosk is shared at most once unless the caller shares it again himself
\* (as the error of a finalize() that has shared it already tells him to) or
\* goes back to it while another one is to be shared; and a kiosk created on
\* the way to a finalized transaction is shared.
KioskSharedOnce ==
  /\ \A i, j \in Positions("share") :
       (commands[i].kiosk = commands[j].kiosk /\ i # j) => sharedAgain
  /\ (finalized /\ replaced = 0) =>
       \A k \in Positions("create") : \E s \in Positions("share") : commands[s].kiosk = k
=============================================================================
