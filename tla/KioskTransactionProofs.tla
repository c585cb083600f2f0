------------------------ MODULE KioskTransactionProofs ------------------------
(***************************************************************************)
(* KioskTransaction: whatever is called in between, finalize() shares a    *)
(* kiosk once and gives a borrowed cap back once, for transactions of any  *)
(* length and any caps the caller owns.                                    *)
(***************************************************************************)
EXTENDS KioskTransaction, Integers, SequenceTheorems, TLAPS

Ops == {"create", "personal", "borrow", "use", "createAndShare", "purchase", "share",
        "transferCap", "lock", "pay", "confirm", "return", "transferPersonal"}

Command == [op : Ops, kiosk : Names, cap : Names, promise : Names]

(* What there is to name so far. *)
Here == Owned \cup 1 .. Len(commands) \cup {None}

KioskTypes ==
  /\ KioskTypeOK
  /\ Len(commands) <= MaxCommands
  /\ {kiosk, kioskCap, personalCap} \subseteq Here
  /\ promise \in 1 .. Len(commands) \cup {None}
  /\ buying.phase = "rules" => buying.rules # <<>>
  /\ \A i \in DOMAIN commands : commands[i].kiosk \in Here

(* Nothing is given back before finalize(). *)
NotSettled ==
  ~finalized => Positions("return") = {} /\ Positions("transferPersonal") = {}

(* The kiosk that is still to be shared was not shared yet. *)
SharedByCaller ==
  /\ \A i, j \in Positions("share") :
       commands[i].kiosk = commands[j].kiosk /\ i # j => sharedAgain
  /\ pendingShare /\ ~sharedAgain => ~Shared(kiosk)
  /\ finalized => ~pendingShare

(* A cap is taken after the command that returned it. *)
UsesFollow ==
  \A u \in DOMAIN commands : commands[u].cap \in Nat => commands[u].cap < u

(* A purchase of a finalized builder was under way when that was called. *)
Overtaken == finalized /\ buying.phase # "no" => overtaken

(* A builder that was set up once still has what was created and borrowed. *)
SetUpOnce ==
  replaced = 0 =>
    /\ \A k \in Positions("create") : kiosk = k /\ (pendingShare \/ Shared(k))
    /\ \A b \in Positions("borrow") :
         promise = b /\ kioskCap = b /\ personalCap = commands[b].cap
    /\ \A p \in Positions("personal") : personalCap = p /\ pendingTransfer

KioskInv ==
  /\ KioskTypes /\ NotSettled /\ SharedByCaller /\ UsesFollow /\ SetUpOnce
  /\ Overtaken /\ PersonalCapGivenBack

----------------------------------------------------------------------------
(* Types and sequences.                                                    *)

(* The types the other lemmas need. *)
LEMMA Types ==
  ASSUME KioskTypes
  PROVE  /\ commands \in Seq(Command) /\ Len(commands) \in Nat
         /\ DOMAIN commands = 1 .. Len(commands)
         /\ \A i \in 1 .. Len(commands) : commands[i] \in Command /\ commands[i].kiosk \in Here
         /\ Here \subseteq Names
         /\ {kiosk, kioskCap, personalCap, promise} \subseteq Here
         /\ replaced \in Nat /\ MaxCommands \in Nat /\ MaxReplacements \in Nat
         /\ None \notin Owned \cup Nat /\ Owned \cap Nat = {}
<1>1. commands \in Seq(Command)
  BY DEF KioskTypes, KioskTypeOK, Command, Ops
<1>2. Len(commands) \in Nat /\ DOMAIN commands = 1 .. Len(commands)
  BY <1>1, LenProperties
<1>3. \A i \in 1 .. Len(commands) : commands[i] \in Command
  BY <1>1, <1>2, ElementOfSeq
<1>4. /\ replaced \in Nat /\ MaxCommands \in Nat /\ MaxReplacements \in Nat
      /\ None \notin Owned \cup Nat /\ Owned \cap Nat = {}
  BY KioskAssumption DEF KioskAssumption, KioskTypes, KioskTypeOK
<1>5. Here \subseteq Names
  BY <1>2, <1>4 DEF Here, Names, KioskTypes
<1> QED
  BY <1>1, <1>2, <1>3, <1>4, <1>5 DEF KioskTypes, Here

(* A command. *)
LEMMA CmdTyped ==
  ASSUME NEW op \in Ops, NEW k \in Names, NEW c \in Names
  PROVE  /\ Cmd(op, k, c) \in Command
         /\ Cmd(op, k, c).op = op /\ Cmd(op, k, c).kiosk = k /\ Cmd(op, k, c).cap = c
         /\ Cmd(op, k, c).promise = None
BY DEF Cmd, Command, Names

(* Short sequences. *)
LEMMA Literals ==
  ASSUME NEW S, NEW s \in Seq(S), NEW a \in S, NEW b \in S, NEW c \in S
  PROVE  /\ Len(s) = 2 /\ s[1] = a /\ s[2] = b => s = <<a, b>>
         /\ Len(s) = 3 /\ s[1] = a /\ s[2] = b /\ s[3] = c => s = <<a, b, c>>
<1>1. ASSUME Len(s) = 2, s[1] = a, s[2] = b  PROVE s = <<a, b>>
  <2>1. <<a, b>> \in Seq(S) /\ Len(<<a, b>>) = 2 /\ \A i \in 1 .. 2 : i = 1 \/ i = 2
    OBVIOUS
  <2>2. <<a, b>>[1] = a /\ <<a, b>>[2] = b
    OBVIOUS
  <2>3. \A i \in 1 .. 2 : s[i] = <<a, b>>[i]
    BY <1>1, <2>1, <2>2
  <2> QED
    BY <1>1, <2>1, <2>3, SeqEqual
<1>2. ASSUME Len(s) = 3, s[1] = a, s[2] = b, s[3] = c  PROVE s = <<a, b, c>>
  <2>1. <<a, b, c>> \in Seq(S) /\ Len(<<a, b, c>>) = 3 /\ \A i \in 1 .. 3 : i = 1 \/ i = 2 \/ i = 3
    OBVIOUS
  <2>2. <<a, b, c>>[1] = a /\ <<a, b, c>>[2] = b /\ <<a, b, c>>[3] = c
    OBVIOUS
  <2>3. \A i \in 1 .. 3 : s[i] = <<a, b, c>>[i]
    BY <1>2, <2>1, <2>2
  <2> QED
    BY <1>2, <2>1, <2>3, SeqEqual
<1> QED
  BY <1>1, <1>2

(* Short sequences put together. *)
LEMMA Pairs ==
  ASSUME NEW S, NEW a \in S, NEW b \in S, NEW c \in S
  PROVE  /\ <<a>> \o <<b>> = <<a, b>>
         /\ Append(<<a>>, b) = <<a, b>>
         /\ Append(<<a, b>>, c) = <<a, b, c>>
<1> DEFINE s == <<a>> \o <<b>>
           t == Append(<<a>>, b)
           u == Append(<<a, b>>, c)
<1>1. s \in Seq(S) /\ Len(s) = 2 /\ s[1] = a /\ s[2] = b
  BY ConcatProperties
<1>2. t \in Seq(S) /\ Len(t) = 2 /\ t[1] = a /\ t[2] = b
  BY AppendProperties
<1>3. u \in Seq(S) /\ Len(u) = 3 /\ u[1] = a /\ u[2] = b /\ u[3] = c
  BY AppendProperties
<1> HIDE DEF s, t, u
<1>4. s = <<a, b>> /\ t = <<a, b>> /\ u = <<a, b, c>>
  BY <1>1, <1>2, <1>3, Literals
<1> QED
  BY <1>4 DEF s, t, u

(* The transaction grows by some commands. *)
Grows(cs) ==
  /\ cs \in Seq(Command)
  /\ commands' = commands \o cs
  /\ Len(commands) + Len(cs) <= MaxCommands

(* What there is after such a step: the old commands, and the new ones     *)
(* behind them. *)
LEMMA GrowsEffect ==
  ASSUME KioskTypes, NEW cs, Grows(cs)
  PROVE  /\ Len(cs) \in Nat /\ DOMAIN cs = 1 .. Len(cs)
         /\ \A j \in 1 .. Len(cs) : cs[j] \in Command
         /\ commands' \in Seq(Command)
         /\ Len(commands') = Len(commands) + Len(cs) /\ Len(commands') <= MaxCommands
         /\ DOMAIN commands' = 1 .. Len(commands')
         /\ \A i \in 1 .. Len(commands) : commands'[i] = commands[i] /\ i \in DOMAIN commands'
         /\ \A j \in 1 .. Len(cs) :
              /\ Len(commands) + j \in DOMAIN commands'
              /\ commands'[Len(commands) + j] = cs[j]
         /\ \A i \in DOMAIN commands' :
              \/ i \in 1 .. Len(commands)
              \/ \E j \in 1 .. Len(cs) : i = Len(commands) + j
         /\ Here \subseteq Here' /\ Here' \subseteq Names
<1>1. commands \in Seq(Command) /\ Len(commands) \in Nat /\ MaxCommands \in Nat /\ cs \in Seq(Command)
  BY Types DEF Grows
<1>2. Len(cs) \in Nat /\ DOMAIN cs = 1 .. Len(cs) /\ \A j \in 1 .. Len(cs) : cs[j] \in Command
  BY <1>1, LenProperties, ElementOfSeq
<1>3. /\ commands' \in Seq(Command) /\ Len(commands') = Len(commands) + Len(cs)
      /\ \A i \in 1 .. Len(commands) + Len(cs) :
           commands'[i] = IF i <= Len(commands) THEN commands[i] ELSE cs[i - Len(commands)]
  BY <1>1, ConcatProperties DEF Grows
<1>4. DOMAIN commands' = 1 .. Len(commands')
  BY <1>3, LenProperties
<1> DEFINE n == Len(commands)
           m == Len(cs)
<1>5. \A i \in 1 .. n : commands'[i] = commands[i] /\ i \in 1 .. n + m
  BY <1>1, <1>2, <1>3
<1>6. ASSUME NEW j \in 1 .. m  PROVE n + j \in 1 .. n + m /\ commands'[n + j] = cs[j]
  <2>1. n + j \in 1 .. n + m /\ ~(n + j <= n) /\ (n + j) - n = j
    BY <1>1, <1>2
  <2> QED
    BY <2>1, <1>3
<1>7. ASSUME NEW i \in 1 .. n + m  PROVE i \in 1 .. n \/ \E j \in 1 .. m : i = n + j
  <2>1. i \notin 1 .. n => i - n \in 1 .. m /\ i = n + (i - n)
    BY <1>1, <1>2
  <2> QED
    BY <2>1
<1>8. Len(commands') <= MaxCommands
  BY <1>3 DEF Grows
<1>9. Here \subseteq Here' /\ Here' \subseteq Names
  BY <1>1, <1>2, <1>3, <1>8 DEF Here, Names
<1> QED
  BY <1>2, <1>3, <1>4, <1>5, <1>6, <1>7, <1>8, <1>9

(* Add is such a step, and so is leaving the transaction alone. *)
LEMMA AddGrows ==
  ASSUME KioskTypes
  PROVE  /\ \A cs \in Seq(Command) : Add(cs) => Grows(cs)
         /\ commands' = commands => Grows(<<>>)
<1>1. commands \in Seq(Command) /\ Len(commands) \in Nat /\ MaxCommands \in Nat /\ replaced \in Nat
      /\ Len(commands) <= MaxCommands
  BY Types DEF KioskTypes
<1>2. ASSUME NEW cs \in Seq(Command), Add(cs)  PROVE Grows(cs)
  <2>1. Len(cs) \in Nat
    BY LenProperties
  <2>2. Len(commands) + Len(cs) + 2 * replaced <= MaxCommands /\ commands' = commands \o cs
    BY <1>2 DEF Add
  <2>3. Len(commands) + Len(cs) <= MaxCommands
    BY <1>1, <2>1, <2>2
  <2> QED
    BY <2>2, <2>3 DEF Grows
<1>3. commands \o <<>> = commands /\ <<>> \in Seq(Command) /\ Len(<<>>) = 0
  BY <1>1, ConcatEmptySeq, EmptySeq
<1> QED
  BY <1>1, <1>2, <1>3 DEF Grows

(* Where the commands of an operation are after the step. *)
LEMMA PositionsAfter ==
  ASSUME KioskTypes, NEW cs, Grows(cs), NEW op
  PROVE  /\ \A i : i \in Positions(op) =>
              /\ i \in {j \in DOMAIN commands' : commands'[j].op = op}
              /\ commands'[i] = commands[i] /\ i \in 1 .. Len(commands)
         /\ \A i \in {j \in DOMAIN commands' : commands'[j].op = op} :
              i \in Positions(op) \/ \E j \in 1 .. Len(cs) : i = Len(commands) + j /\ cs[j].op = op
<1>1. DOMAIN commands = 1 .. Len(commands)
  BY Types
<1> QED
  BY <1>1, GrowsEffect DEF Positions

(* An operation without a new command has its commands where they were. *)
LEMMA PositionsKept ==
  ASSUME KioskTypes, NEW cs, Grows(cs), NEW op, \A j \in 1 .. Len(cs) : cs[j].op # op
  PROVE  /\ {i \in DOMAIN commands' : commands'[i].op = op} = Positions(op)
         /\ \A i \in Positions(op) : commands'[i] = commands[i]
BY PositionsAfter

(* The types after a step. *)
LEMMA TypesAfter ==
  ASSUME KioskTypes, NEW cs, Grows(cs), \A j \in 1 .. Len(cs) : cs[j].kiosk \in Here',
         {kiosk', kioskCap', personalCap'} \subseteq Here',
         promise' \in 1 .. Len(commands') \cup {None},
         {pendingShare', pendingTransfer', finalized', overtaken', sharedAgain'} \subseteq BOOLEAN,
         buying' \in [phase : {"no", "policies", "rules"},
                      rules : RuleLists \cup {<<"lock">>}, locked : BOOLEAN],
         buying'.phase = "rules" => buying'.rules # <<>>,
         replaced' \in 0 .. MaxReplacements,
         promise' # None => personalCap' # None,
         finalized' => personalCap' # None
  PROVE  KioskTypes'
<1>1. /\ commands' \in Seq(Command) /\ Here' \subseteq Names /\ Len(commands') <= MaxCommands
      /\ Here \subseteq Here'
  BY GrowsEffect
<1>2. promise' \in Here'
  BY DEF Here
<1>3. KioskTypeOK'
  BY <1>1, <1>2 DEF KioskTypeOK, Command, Ops
<1>4. ASSUME NEW i \in DOMAIN commands'  PROVE commands'[i].kiosk \in Here'
  <2>1. CASE i \in 1 .. Len(commands)
    BY <2>1, <1>1, GrowsEffect, Types
  <2>2. CASE \E j \in 1 .. Len(cs) : i = Len(commands) + j
    BY <2>2, GrowsEffect
  <2> QED
    BY <2>1, <2>2, GrowsEffect
<1> QED
  BY <1>1, <1>3, <1>4 DEF KioskTypes

(* What the new commands take was returned before them. *)
LEMMA UsesAfter ==
  ASSUME KioskTypes, UsesFollow, NEW cs, Grows(cs),
         \A j \in 1 .. Len(cs) : cs[j].cap \in Nat => cs[j].cap < Len(commands) + j
  PROVE  UsesFollow'
<1> SUFFICES ASSUME NEW u \in DOMAIN commands', commands'[u].cap \in Nat
             PROVE  commands'[u].cap < u
  BY DEF UsesFollow
<1>1. CASE u \in 1 .. Len(commands)
  BY <1>1, GrowsEffect, Types DEF UsesFollow
<1>2. CASE \E j \in 1 .. Len(cs) : u = Len(commands) + j
  BY <1>2, GrowsEffect
<1> QED
  BY <1>1, <1>2, GrowsEffect

(* A name that was there before the step is below the new commands. *)
LEMMA HereBelow ==
  ASSUME KioskTypes, NEW x \in Here, NEW j \in Nat \ {0}
  PROVE  x \in Nat => x < Len(commands) + j
<1>1. Len(commands) \in Nat /\ None \notin Nat /\ Owned \cap Nat = {}
  BY Types
<1> QED
  BY <1>1 DEF Here

(* Setting up adds nothing that shares, uses or gives back. *)
LEMMA SetUpKeeps ==
  ASSUME KioskInv, NEW cs, Grows(cs), ~finalized, UNCHANGED <<finalized, overtaken, buying>>,
         \A j \in 1 .. Len(cs) : cs[j].op \in {"create", "personal", "borrow"} /\ cs[j].kiosk \in Here',
         \A j \in 1 .. Len(cs) : cs[j].cap \in Nat => cs[j].cap < Len(commands) + j,
         {kiosk', kioskCap', personalCap'} \subseteq Here',
         promise' \in 1 .. Len(commands') \cup {None},
         {pendingShare', pendingTransfer', sharedAgain'} \subseteq BOOLEAN,
         replaced' \in 0 .. MaxReplacements,
         promise' # None => personalCap' # None,
         sharedAgain => sharedAgain',
         pendingShare' /\ ~sharedAgain' =>
           \A i \in Positions("share") : commands[i].kiosk # kiosk',
         SetUpOnce'
  PROVE  KioskInv'
<1>1. KioskTypes /\ NotSettled /\ SharedByCaller /\ UsesFollow
  BY DEF KioskInv
<1>2. KioskTypes'
  <2>1. /\ buying' \in [phase : {"no", "policies", "rules"},
                      rules : RuleLists \cup {<<"lock">>}, locked : BOOLEAN]
        /\ buying'.phase = "rules" => buying'.rules # <<>>
        /\ finalized' = FALSE /\ overtaken' \in BOOLEAN
    BY <1>1 DEF KioskTypes, KioskTypeOK
  <2> QED
    BY <2>1, <1>1, TypesAfter
<1>3. \A op \in {"share", "return", "transferPersonal"} :
        /\ {i \in DOMAIN commands' : commands'[i].op = op} = Positions(op)
        /\ \A i \in Positions(op) : commands'[i] = commands[i]
  <2> TAKE op \in {"share", "return", "transferPersonal"}
  <2>1. \A j \in 1 .. Len(cs) : cs[j].op # op
    OBVIOUS
  <2> QED
    BY <2>1, <1>1, PositionsKept
<1>4. NotSettled'
  BY <1>1, <1>3 DEF NotSettled, Positions
<1>5. SharedByCaller'
  <2>1. /\ {i \in DOMAIN commands' : commands'[i].op = "share"} = Positions("share")
        /\ \A i \in Positions("share") : commands'[i] = commands[i]
    BY <1>3
  <2> QED
    BY <2>1, <1>1 DEF SharedByCaller, Shared, Positions
<1>6. UsesFollow'
  BY <1>1, UsesAfter
<1>7. Overtaken' /\ PersonalCapGivenBack'
  BY DEF Overtaken, PersonalCapGivenBack
<1> QED
  BY <1>2, <1>4, <1>5, <1>6, <1>7 DEF KioskInv

(* A builder that was never set up has created and borrowed nothing. *)
LEMMA NothingYet ==
  ASSUME KioskInv, replaced = 0
  PROVE  /\ kiosk = None => Positions("create") = {}
         /\ personalCap = None => Positions("borrow") = {} /\ Positions("personal") = {}
<1>1. /\ KioskTypes /\ SetUpOnce
      /\ promise # None => personalCap # None
  BY DEF KioskInv, KioskTypes, KioskTypeOK
<1>2. \A op, i : i \in Positions(op) => i # None
  BY <1>1, Types DEF Positions
<1> QED
  BY <1>1, <1>2 DEF SetUpOnce

(* A command of the step is not named yet. *)
LEMMA FreshNames ==
  ASSUME KioskTypes, NEW cs, Grows(cs), NEW j \in 1 .. Len(cs)
  PROVE  /\ Fresh(j) \in Here' /\ Fresh(j) \in 1 .. Len(commands') /\ Fresh(j) \notin Here
         /\ Fresh(j) # None /\ Fresh(j) \in DOMAIN commands' /\ commands'[Fresh(j)] = cs[j]
         /\ \A i \in Positions("share") : commands[i].kiosk # Fresh(j)
<1>1. /\ Len(commands) \in Nat /\ Len(cs) \in Nat /\ None \notin Owned \cup Nat /\ Owned \cap Nat = {}
      /\ Len(commands') = Len(commands) + Len(cs)
  BY Types, GrowsEffect
<1>2. Len(commands) + j \in 1 .. Len(commands') /\ Len(commands) + j \notin 1 .. Len(commands)
      /\ Len(commands) + j \in Nat
  BY <1>1
<1>3. Fresh(j) \in Here' /\ Fresh(j) \notin Here /\ Fresh(j) # None
  BY <1>1, <1>2 DEF Fresh, Here
<1>4. \A i \in Positions("share") : commands[i].kiosk \in Here
  BY DEF Positions, KioskTypes
<1> QED
  BY <1>2, <1>3, <1>4, GrowsEffect DEF Fresh

(* The commands of an operation that was never used before are new ones. *)
LEMMA OnlyNew ==
  ASSUME KioskTypes, NEW cs, Grows(cs), NEW op, Positions(op) = {}
  PROVE  \A i \in {k \in DOMAIN commands' : commands'[k].op = op} :
           \E j \in 1 .. Len(cs) : i = Fresh(j) /\ cs[j].op = op /\ commands'[i] = cs[j]
<1> TAKE i \in {k \in DOMAIN commands' : commands'[k].op = op}
<1>1. PICK j \in 1 .. Len(cs) : i = Len(commands) + j /\ cs[j].op = op
  BY PositionsAfter
<1>2. commands'[i] = cs[j]
  BY <1>1, GrowsEffect
<1> QED
  BY <1>1, <1>2 DEF Fresh

(* What was there to name still is. *)
LEMMA HereGrows ==
  ASSUME KioskTypes, NEW cs, Grows(cs)
  PROVE  /\ Here \subseteq Here' /\ {kiosk, kioskCap, personalCap} \subseteq Here'
         /\ promise \in 1 .. Len(commands') \cup {None}
<1>1. /\ Here \subseteq Here' /\ Len(commands') = Len(commands) + Len(cs)
      /\ Len(commands) \in Nat /\ Len(cs) \in Nat
  BY GrowsEffect, Types
<1>2. promise \in 1 .. Len(commands) \cup {None} /\ {kiosk, kioskCap, personalCap} \subseteq Here
  BY DEF KioskTypes
<1> QED
  BY <1>1, <1>2

(* The names of the commands of a step that fits. *)
LEMMA FreshTyped ==
  ASSUME KioskTypes, NEW j \in Nat \ {0}, Len(commands) + j <= MaxCommands
  PROVE  Fresh(j) \in Names /\ Fresh(j) \in Nat
BY Types DEF Fresh, Names

(* A builder that is not counted as replaced was not in use. *)
LEMMA ReplacingCounts ==
  ASSUME KioskTypes, NEW again \in BOOLEAN, Replacing(again)
  PROVE  /\ replaced' \in 0 .. MaxReplacements
         /\ replaced' = 0 => replaced = 0 /\ ~again
<1>1. replaced \in Nat /\ MaxReplacements \in Nat
  BY Types
<1>2. replaced' = replaced + (IF again THEN 1 ELSE 0) /\ replaced' <= MaxReplacements
  BY DEF Replacing
<1>3. CASE again
  BY <1>1, <1>2, <1>3
<1>4. CASE ~again
  BY <1>1, <1>2, <1>4
<1> QED
  BY <1>3, <1>4

(* create makes a kiosk and a cap that nothing names yet. *)
LEMMA CreateKeeps ==
  ASSUME KioskInv, Create
  PROVE  KioskInv'
<1> DEFINE a == Cmd("create", None, None)
           cs == <<a>>
<1>1. KioskTypes
  BY DEF KioskInv
<1>2. a \in Command /\ a.op = "create" /\ a.kiosk = None /\ a.cap = None
  BY CmdTyped DEF Ops, Names
<1> HIDE DEF a
<1>3. cs \in Seq(Command) /\ Len(cs) = 1 /\ cs[1] = a /\ \A j \in 1 .. 1 : j = 1
  BY <1>2
<1>4. /\ ~finalized /\ Add(cs) /\ kiosk' = Fresh(1) /\ kioskCap' = Fresh(1)
      /\ pendingShare' = TRUE /\ pendingTransfer' = TRUE /\ Replacing(InUse)
      /\ UNCHANGED <<personalCap, promise, finalized, overtaken, buying, sharedAgain>>
  BY DEF Create, a
<1> HIDE DEF cs
<1>5. Grows(cs)
  BY <1>1, <1>3, <1>4, AddGrows
<1>6. /\ Fresh(1) \in Here' /\ Fresh(1) \in DOMAIN commands' /\ commands'[Fresh(1)] = cs[1]
      /\ \A i \in Positions("share") : commands[i].kiosk # Fresh(1)
  BY <1>1, <1>3, <1>5, FreshNames
<1>7. /\ replaced' \in 0 .. MaxReplacements
      /\ replaced' = 0 => replaced = 0 /\ kiosk = None /\ personalCap = None
  BY <1>1, <1>4, ReplacingCounts DEF InUse
<1>8. SetUpOnce'
  <2> SUFFICES ASSUME replaced' = 0
               PROVE  /\ \A k \in {i \in DOMAIN commands' : commands'[i].op = "create"} :
                           kiosk' = k /\ pendingShare'
                      /\ {i \in DOMAIN commands' : commands'[i].op = "borrow"} = {}
                      /\ {i \in DOMAIN commands' : commands'[i].op = "personal"} = {}
    BY DEF SetUpOnce, Positions
  <2>1. Positions("create") = {} /\ Positions("borrow") = {} /\ Positions("personal") = {}
    BY <1>7, NothingYet
  <2>2. \A k \in {i \in DOMAIN commands' : commands'[i].op = "create"} : k = Fresh(1)
    BY <2>1, <1>1, <1>3, <1>5, OnlyNew
  <2>3. \A k \in {i \in DOMAIN commands' : commands'[i].op = "borrow"} : FALSE
    BY <2>1, <1>1, <1>2, <1>3, <1>5, OnlyNew
  <2>4. \A k \in {i \in DOMAIN commands' : commands'[i].op = "personal"} : FALSE
    BY <2>1, <1>1, <1>2, <1>3, <1>5, OnlyNew
  <2> QED
    BY <2>2, <2>3, <2>4, <1>4
<1>9. /\ {pendingShare', pendingTransfer', sharedAgain'} \subseteq BOOLEAN
      /\ promise' # None => personalCap' # None
  BY <1>1, <1>4 DEF KioskTypes, KioskTypeOK
<1>10. {kiosk', kioskCap', personalCap'} \subseteq Here' /\ promise' \in 1 .. Len(commands') \cup {None}
  BY <1>1, <1>4, <1>5, <1>6, HereGrows
<1>11. \A j \in 1 .. Len(cs) : cs[j].op \in {"create", "personal", "borrow"} /\ cs[j].kiosk \in Here'
  BY <1>2, <1>3 DEF Here
<1>12. \A j \in 1 .. Len(cs) : cs[j].cap \in Nat => cs[j].cap < Len(commands) + j
  BY <1>1, <1>2, <1>3, Types
<1> QED
  BY <1>4, <1>5, <1>6, <1>7, <1>8, <1>9, <1>10, <1>11, <1>12, SetUpKeeps

(* createPersonal makes a kiosk, a personal cap around its cap, and may     *)
(* borrow the cap at once.                                                 *)
LEMMA CreatePersonalKeeps ==
  ASSUME KioskInv, NEW borrow \in BOOLEAN, CreatePersonal(borrow)
  PROVE  KioskInv'
<1> DEFINE a == Cmd("create", None, None)
           b == Cmd("personal", Fresh(1), Fresh(1))
           c == Cmd("borrow", None, Fresh(2))
           cs == IF borrow THEN <<a, b, c>> ELSE <<a, b>>
<1>1. KioskTypes /\ Len(commands) \in Nat /\ replaced \in Nat /\ MaxCommands \in Nat
  BY Types DEF KioskInv
<1>2. Append(<<a, b>>, c) = <<a, b, c>>
  <2>1. a \in {a, b, c} /\ b \in {a, b, c} /\ c \in {a, b, c}
    OBVIOUS
  <2> HIDE DEF a, b, c
  <2> QED
    BY <2>1, Pairs
<1>3. /\ ~finalized /\ Add(cs) /\ kiosk' = Fresh(1)
      /\ IF borrow THEN kioskCap' = Fresh(3) /\ promise' = Fresh(3) /\ personalCap' = Fresh(2)
         ELSE kioskCap' = Fresh(1) /\ personalCap' = Fresh(2) /\ promise' = promise
      /\ pendingShare' = TRUE /\ pendingTransfer' = TRUE /\ Replacing(InUse)
      /\ UNCHANGED <<finalized, overtaken, buying, sharedAgain>>
  BY <1>2 DEF CreatePersonal, BorrowFrom
<1>4. Len(cs) = (IF borrow THEN 3 ELSE 2) /\ Len(commands) + Len(cs) <= MaxCommands
  <2>1. Len(cs) = (IF borrow THEN 3 ELSE 2)
    OBVIOUS
  <2>2. Len(commands) + Len(cs) + 2 * replaced <= MaxCommands
    BY <1>3 DEF Add
  <2> HIDE DEF cs
  <2>3. Len(cs) \in Nat
    BY <2>1
  <2>4. Len(commands) + Len(cs) <= MaxCommands
    BY <2>2, <2>3, <1>1
  <2> QED
    BY <2>1, <2>4
<1>5. /\ Fresh(1) \in Names /\ Fresh(2) \in Names
      /\ Fresh(1) # Fresh(2)
  <2>1. Len(commands) + 1 <= MaxCommands /\ Len(commands) + 2 <= MaxCommands
    BY <1>1, <1>4
  <2> QED
    BY <2>1, <1>1, FreshTyped DEF Fresh
<1>6. /\ a \in Command /\ a.op = "create" /\ a.kiosk = None /\ a.cap = None
      /\ b \in Command /\ b.op = "personal" /\ b.kiosk = Fresh(1) /\ b.cap = Fresh(1)
      /\ c \in Command /\ c.op = "borrow" /\ c.kiosk = None /\ c.cap = Fresh(2)
  <2>1. None \in Names /\ {"create", "personal", "borrow"} \subseteq Ops
    BY DEF Names, Ops
  <2>2. a \in Command /\ a.op = "create" /\ a.kiosk = None /\ a.cap = None
    BY <2>1, CmdTyped
  <2>3. b \in Command /\ b.op = "personal" /\ b.kiosk = Fresh(1) /\ b.cap = Fresh(1)
    BY <2>1, <1>5, CmdTyped
  <2>4. c \in Command /\ c.op = "borrow" /\ c.kiosk = None /\ c.cap = Fresh(2)
    BY <2>1, <1>5, CmdTyped
  <2> QED
    BY <2>2, <2>3, <2>4
<1> HIDE DEF a, b, c
<1>7. /\ cs \in Seq(Command) /\ cs[1] = a /\ cs[2] = b
      /\ borrow => cs[3] = c
      /\ \A j \in 1 .. Len(cs) : j = 1 \/ j = 2 \/ (borrow /\ j = 3)
      /\ 1 \in 1 .. Len(cs) /\ 2 \in 1 .. Len(cs) /\ (borrow => 3 \in 1 .. Len(cs))
  BY <1>4, <1>6
<1> HIDE DEF cs
<1>8. Grows(cs)
  BY <1>1, <1>3, <1>7, AddGrows
<1>9. /\ {Fresh(1), Fresh(2)} \subseteq Here'
      /\ borrow => Fresh(3) \in Here' /\ Fresh(3) \in 1 .. Len(commands')
      /\ Fresh(2) # None
      /\ \A i \in Positions("share") : commands[i].kiosk # Fresh(1)
  BY <1>1, <1>7, <1>8, FreshNames
<1>10. /\ replaced' \in 0 .. MaxReplacements
       /\ replaced' = 0 => replaced = 0 /\ kiosk = None /\ personalCap = None
  BY <1>1, <1>3, ReplacingCounts DEF InUse
<1>11. SetUpOnce'
  <2> SUFFICES ASSUME replaced' = 0
               PROVE  /\ \A k \in {i \in DOMAIN commands' : commands'[i].op = "create"} :
                           kiosk' = k /\ pendingShare'
                      /\ \A k \in {i \in DOMAIN commands' : commands'[i].op = "borrow"} :
                           promise' = k /\ kioskCap' = k /\ personalCap' = commands'[k].cap
                      /\ \A p \in {i \in DOMAIN commands' : commands'[i].op = "personal"} :
                           personalCap' = p /\ pendingTransfer'
    BY DEF SetUpOnce, Positions
  <2>1. Positions("create") = {} /\ Positions("borrow") = {} /\ Positions("personal") = {}
    BY <1>10, NothingYet
  <2>0. a.op = "create" /\ b.op = "personal" /\ c.op = "borrow"
    BY <1>6
  <2>2. \A k \in {i \in DOMAIN commands' : commands'[i].op = "create"} : k = Fresh(1)
    BY <2>0, <2>1, <1>1, <1>7, <1>8, OnlyNew
  <2>3. \A k \in {i \in DOMAIN commands' : commands'[i].op = "borrow"} :
          borrow /\ k = Fresh(3) /\ commands'[k] = c
    BY <2>0, <2>1, <1>1, <1>7, <1>8, OnlyNew
  <2>4. \A k \in {i \in DOMAIN commands' : commands'[i].op = "personal"} : k = Fresh(2)
    BY <2>0, <2>1, <1>1, <1>7, <1>8, OnlyNew
  <2> QED
    BY <2>2, <2>3, <2>4, <1>3, <1>6
<1>12. /\ {pendingShare', pendingTransfer', sharedAgain'} \subseteq BOOLEAN
       /\ promise' # None => personalCap' # None
  BY <1>1, <1>3, <1>9 DEF KioskTypes, KioskTypeOK
<1>13. {kiosk', kioskCap', personalCap'} \subseteq Here' /\ promise' \in 1 .. Len(commands') \cup {None}
  BY <1>1, <1>3, <1>8, <1>9, HereGrows
<1>14. \A j \in 1 .. Len(cs) : cs[j].op \in {"create", "personal", "borrow"} /\ cs[j].kiosk \in Here'
  BY <1>6, <1>7, <1>9 DEF Here
<1>15. \A j \in 1 .. Len(cs) : cs[j].cap \in Nat => cs[j].cap < Len(commands) + j
  <2>1. None \notin Nat /\ Len(commands) \in Nat
    BY <1>1, Types
  <2> QED
    BY <2>1, <1>6, <1>7 DEF Fresh
<1> QED
  BY <1>3, <1>8, <1>9, <1>10, <1>11, <1>12, <1>13, <1>14, <1>15, SetUpKeeps

(* convertToPersonal wraps the cap at hand: with another personal cap at   *)
(* hand, that is a replacement.                                            *)
LEMMA ConvertToPersonalKeeps ==
  ASSUME KioskInv, NEW borrow \in BOOLEAN, ConvertToPersonal(borrow)
  PROVE  KioskInv'
<1> DEFINE a == Cmd("personal", kiosk, kioskCap)
           b == Cmd("borrow", None, Fresh(1))
           cs == IF borrow THEN <<a, b>> ELSE <<a>>
<1>1. /\ KioskTypes /\ SharedByCaller /\ SetUpOnce
      /\ Len(commands) \in Nat /\ replaced \in Nat /\ MaxCommands \in Nat
      /\ kiosk \in Here /\ kiosk \in Names /\ kioskCap \in Names /\ kioskCap \in Here
  BY Types DEF KioskInv
<1>2. /\ ~finalized /\ Add(cs)
      /\ IF borrow THEN kioskCap' = Fresh(2) /\ promise' = Fresh(2) /\ personalCap' = Fresh(1)
         ELSE personalCap' = Fresh(1) /\ promise' = promise /\ kioskCap' = kioskCap
      /\ pendingTransfer' = TRUE /\ Replacing(personalCap # None)
      /\ UNCHANGED <<kiosk, pendingShare, finalized, overtaken, buying, sharedAgain>>
  BY DEF ConvertToPersonal, BorrowFrom, KioskIsSet
<1>3. Len(cs) = (IF borrow THEN 2 ELSE 1) /\ Len(commands) + Len(cs) <= MaxCommands
  <2>1. Len(cs) = (IF borrow THEN 2 ELSE 1)
    OBVIOUS
  <2>2. Len(commands) + Len(cs) + 2 * replaced <= MaxCommands
    BY <1>2 DEF Add
  <2> HIDE DEF cs
  <2>3. Len(cs) \in Nat
    BY <2>1
  <2>4. Len(commands) + Len(cs) <= MaxCommands
    BY <2>2, <2>3, <1>1
  <2> QED
    BY <2>1, <2>4
<1>4. Fresh(1) \in Names
  <2>1. Len(commands) + 1 <= MaxCommands
    BY <1>1, <1>3
  <2> QED
    BY <2>1, <1>1, FreshTyped
<1>5. /\ a \in Command /\ a.op = "personal" /\ a.kiosk = kiosk /\ a.cap = kioskCap
      /\ b \in Command /\ b.op = "borrow" /\ b.kiosk = None /\ b.cap = Fresh(1)
  <2>1. None \in Names /\ {"personal", "borrow"} \subseteq Ops
    BY DEF Names, Ops
  <2>2. a \in Command /\ a.op = "personal" /\ a.kiosk = kiosk /\ a.cap = kioskCap
    BY <2>1, <1>1, CmdTyped
  <2>3. b \in Command /\ b.op = "borrow" /\ b.kiosk = None /\ b.cap = Fresh(1)
    BY <2>1, <1>4, CmdTyped
  <2> QED
    BY <2>2, <2>3
<1> HIDE DEF a, b
<1>6. /\ cs \in Seq(Command) /\ cs[1] = a
      /\ borrow => cs[2] = b
      /\ \A j \in 1 .. Len(cs) : j = 1 \/ (borrow /\ j = 2)
      /\ 1 \in 1 .. Len(cs) /\ (borrow => 2 \in 1 .. Len(cs))
  BY <1>3, <1>5
<1> HIDE DEF cs
<1>7. Grows(cs)
  BY <1>1, <1>2, <1>6, AddGrows
<1>8. /\ Fresh(1) \in Here' /\ Fresh(1) # None
      /\ borrow => Fresh(2) \in Here' /\ Fresh(2) \in 1 .. Len(commands')
  BY <1>1, <1>6, <1>7, FreshNames
<1>9. /\ replaced' \in 0 .. MaxReplacements
      /\ replaced' = 0 => replaced = 0 /\ personalCap = None
  BY <1>1, <1>2, ReplacingCounts
<1>10. SetUpOnce'
  <2> SUFFICES ASSUME replaced' = 0
               PROVE  /\ \A k \in {i \in DOMAIN commands' : commands'[i].op = "create"} :
                           /\ kiosk' = k
                           /\ pendingShare' \/ \E i \in {h \in DOMAIN commands' : commands'[h].op = "share"} :
                                                  commands'[i].kiosk = k
                      /\ \A k \in {i \in DOMAIN commands' : commands'[i].op = "borrow"} :
                           promise' = k /\ kioskCap' = k /\ personalCap' = commands'[k].cap
                      /\ \A p \in {i \in DOMAIN commands' : commands'[i].op = "personal"} :
                           personalCap' = p /\ pendingTransfer'
    BY DEF SetUpOnce, Positions, Shared
  <2>1. Positions("borrow") = {} /\ Positions("personal") = {} /\ replaced = 0
    BY <1>9, NothingYet
  <2>2. /\ {i \in DOMAIN commands' : commands'[i].op = "create"} = Positions("create")
        /\ {i \in DOMAIN commands' : commands'[i].op = "share"} = Positions("share")
        /\ \A i \in Positions("share") : commands'[i] = commands[i]
    <3>1. \A j \in 1 .. Len(cs) : cs[j].op # "create" /\ cs[j].op # "share"
      BY <1>5, <1>6
    <3> QED
      BY <3>1, <1>1, <1>7, PositionsKept
  <2>3. \A k \in {i \in DOMAIN commands' : commands'[i].op = "borrow"} :
          borrow /\ k = Fresh(2) /\ commands'[k] = b
    BY <2>1, <1>1, <1>5, <1>6, <1>7, OnlyNew
  <2>4. \A k \in {i \in DOMAIN commands' : commands'[i].op = "personal"} : k = Fresh(1)
    BY <2>1, <1>1, <1>5, <1>6, <1>7, OnlyNew
  <2>5. \A k \in Positions("create") : kiosk = k /\ (pendingShare \/ Shared(k))
    BY <2>1, <1>1 DEF SetUpOnce
  <2>6. \A k \in {i \in DOMAIN commands' : commands'[i].op = "create"} :
           /\ kiosk' = k
           /\ pendingShare' \/ \E i \in {h \in DOMAIN commands' : commands'[h].op = "share"} :
                                  commands'[i].kiosk = k
    BY <2>2, <2>5, <1>2 DEF Shared
  <2> QED
    BY <2>3, <2>4, <2>6, <1>2, <1>5
<1>11. /\ {pendingShare', pendingTransfer', sharedAgain'} \subseteq BOOLEAN
       /\ promise' # None => personalCap' # None
  BY <1>1, <1>2, <1>8 DEF KioskTypes, KioskTypeOK
<1>12. {kiosk', kioskCap', personalCap'} \subseteq Here' /\ promise' \in 1 .. Len(commands') \cup {None}
  BY <1>1, <1>2, <1>7, <1>8, HereGrows
<1>13. \A j \in 1 .. Len(cs) : cs[j].op \in {"create", "personal", "borrow"} /\ cs[j].kiosk \in Here'
  <2>1. kiosk \in Here' /\ None \in Here'
    BY <1>1, <1>7, HereGrows DEF Here
  <2> QED
    BY <2>1, <1>5, <1>6
<1>14. pendingShare' /\ ~sharedAgain' => \A i \in Positions("share") : commands[i].kiosk # kiosk'
  BY <1>1, <1>2 DEF SharedByCaller, Shared
<1>15. \A j \in 1 .. Len(cs) : cs[j].cap \in Nat => cs[j].cap < Len(commands) + j
  <2>1. kioskCap \in Nat => kioskCap < Len(commands) + 1
    BY <1>1, HereBelow
  <2> QED
    BY <2>1, <1>1, <1>5, <1>6 DEF Fresh
<1> QED
  BY <1>2, <1>7, <1>9, <1>10, <1>11, <1>12, <1>13, <1>14, <1>15, SetUpKeeps

(* setCap points the builder at a kiosk of the caller's. *)
LEMMA SetCapKeeps ==
  ASSUME KioskInv, NEW cap \in Owned, SetCap(cap)
  PROVE  KioskInv'
<1> DEFINE b == Cmd("borrow", None, cap)
           cs == IF cap \in Personal THEN <<b>> ELSE <<>>
<1>1. /\ KioskTypes /\ None \notin Owned /\ sharedAgain \in BOOLEAN /\ pendingShare \in BOOLEAN
  BY Types DEF KioskInv, KioskTypes, KioskTypeOK
<1>2. b \in Command /\ b.op = "borrow" /\ b.kiosk = None /\ b.cap = cap
  BY CmdTyped DEF Names, Ops
<1>3. /\ ~finalized /\ kiosk' = cap /\ Replacing(InUse)
      /\ IF cap \in Personal
         THEN Add(<<b>>) /\ kioskCap' = Fresh(1) /\ promise' = Fresh(1) /\ personalCap' = cap
         ELSE kioskCap' = cap /\ commands' = commands /\ personalCap' = personalCap /\ promise' = promise
      /\ sharedAgain' = (sharedAgain \/ (pendingShare /\ Shared(cap)))
      /\ UNCHANGED <<pendingShare, pendingTransfer, finalized, overtaken, buying>>
  BY DEF SetCap, BorrowFrom, NoteSet
<1> HIDE DEF b
<1>4. Grows(cs)
  <2>1. <<b>> \in Seq(Command)
    BY <1>2
  <2> QED
    BY <2>1, <1>1, <1>3, AddGrows
<1>5. /\ cap \in Personal => Len(cs) = 1 /\ cs[1] = b
      /\ cap \notin Personal => Len(cs) = 0
      /\ \A j \in 1 .. Len(cs) : j = 1 /\ cap \in Personal
      /\ cap \in Personal => 1 \in 1 .. Len(cs)
  OBVIOUS
<1> HIDE DEF cs
<1>6. cap \in Personal => Fresh(1) \in Here' /\ Fresh(1) \in 1 .. Len(commands')
  BY <1>1, <1>4, <1>5, FreshNames
<1>7. /\ replaced' \in 0 .. MaxReplacements
      /\ replaced' = 0 => replaced = 0 /\ kiosk = None /\ personalCap = None
  BY <1>1, <1>3, ReplacingCounts DEF InUse
<1>8. SetUpOnce'
  <2> SUFFICES ASSUME replaced' = 0
               PROVE  /\ {i \in DOMAIN commands' : commands'[i].op = "create"} = {}
                      /\ \A k \in {i \in DOMAIN commands' : commands'[i].op = "borrow"} :
                           promise' = k /\ kioskCap' = k /\ personalCap' = commands'[k].cap
                      /\ {i \in DOMAIN commands' : commands'[i].op = "personal"} = {}
    BY DEF SetUpOnce, Positions
  <2>1. Positions("create") = {} /\ Positions("borrow") = {} /\ Positions("personal") = {}
    BY <1>7, NothingYet
  <2>2. \A k \in {i \in DOMAIN commands' : commands'[i].op = "create"} : FALSE
    BY <2>1, <1>1, <1>2, <1>4, <1>5, OnlyNew
  <2>3. \A k \in {i \in DOMAIN commands' : commands'[i].op = "borrow"} :
          cap \in Personal /\ k = Fresh(1) /\ commands'[k] = b
    BY <2>1, <1>1, <1>4, <1>5, OnlyNew
  <2>4. \A k \in {i \in DOMAIN commands' : commands'[i].op = "personal"} : FALSE
    BY <2>1, <1>1, <1>2, <1>4, <1>5, OnlyNew
  <2> QED
    BY <2>2, <2>3, <2>4, <1>2, <1>3
<1>9. /\ {pendingShare', pendingTransfer', sharedAgain'} \subseteq BOOLEAN
      /\ promise' # None => personalCap' # None
  BY <1>1, <1>3 DEF KioskTypes, KioskTypeOK
<1>10. {kiosk', kioskCap', personalCap'} \subseteq Here' /\ promise' \in 1 .. Len(commands') \cup {None}
  <2>1. cap \in Here'
    BY DEF Here
  <2>2. personalCap \in Here' /\ promise \in 1 .. Len(commands') \cup {None}
    BY <1>1, <1>4, HereGrows
  <2> QED
    BY <2>1, <2>2, <1>3, <1>6
<1>11. \A j \in 1 .. Len(cs) : cs[j].op \in {"create", "personal", "borrow"} /\ cs[j].kiosk \in Here'
  BY <1>2, <1>5 DEF Here
<1>12. /\ sharedAgain => sharedAgain'
       /\ pendingShare' /\ ~sharedAgain' => \A i \in Positions("share") : commands[i].kiosk # kiosk'
  BY <1>3 DEF Shared
<1>13. \A j \in 1 .. Len(cs) : cs[j].cap \in Nat => cs[j].cap < Len(commands) + j
  BY <1>1, <1>2, <1>5, Types
<1> QED
  BY <1>3, <1>4, <1>7, <1>8, <1>9, <1>10, <1>11, <1>12, <1>13, SetUpKeeps

(* setKiosk and setKioskCap always count as replacements. *)
LEMMA SetKioskKeeps ==
  ASSUME KioskInv, NEW k \in Owned \cup Positions("create"), SetKiosk(k)
  PROVE  KioskInv'
<1>1. /\ KioskTypes /\ sharedAgain \in BOOLEAN /\ pendingShare \in BOOLEAN /\ pendingTransfer \in BOOLEAN
      /\ promise # None => personalCap # None
  BY DEF KioskInv, KioskTypes, KioskTypeOK
<1>2. /\ ~finalized /\ kiosk' = k /\ Replacing(TRUE) /\ commands' = commands
      /\ sharedAgain' = (sharedAgain \/ (pendingShare /\ Shared(k)))
      /\ UNCHANGED <<kioskCap, personalCap, promise, pendingShare, pendingTransfer, finalized, overtaken, buying>>
  BY DEF SetKiosk, NoteSet
<1>3. Grows(<<>>) /\ \A j \in 1 .. Len(<<>>) : FALSE
  BY <1>1, <1>2, AddGrows
<1>4. replaced' \in 0 .. MaxReplacements /\ replaced' # 0
  BY <1>1, <1>2, ReplacingCounts
<1>5. SetUpOnce'
  BY <1>4 DEF SetUpOnce
<1>6. {kiosk', kioskCap', personalCap'} \subseteq Here' /\ promise' \in 1 .. Len(commands') \cup {None}
  <2>1. k \in Here'
    BY <1>1, <1>2, Types DEF Here, Positions
  <2> QED
    BY <2>1, <1>1, <1>2, <1>3, HereGrows
<1>7. /\ {pendingShare', pendingTransfer', sharedAgain'} \subseteq BOOLEAN
      /\ sharedAgain => sharedAgain'
      /\ pendingShare' /\ ~sharedAgain' => \A i \in Positions("share") : commands[i].kiosk # kiosk'
  BY <1>1, <1>2 DEF Shared
<1> QED
  BY <1>1, <1>2, <1>3, <1>4, <1>5, <1>6, <1>7, SetUpKeeps

(* The cap alone. *)
LEMMA SetKioskCapKeeps ==
  ASSUME KioskInv, NEW c \in Owned \cup Positions("create") \cup Positions("borrow"), SetKioskCap(c)
  PROVE  KioskInv'
<1>1. /\ KioskTypes /\ sharedAgain \in BOOLEAN /\ pendingShare \in BOOLEAN /\ pendingTransfer \in BOOLEAN
      /\ promise # None => personalCap # None
      /\ SharedByCaller
  BY DEF KioskInv, KioskTypes, KioskTypeOK
<1>2. /\ ~finalized /\ kioskCap' = c /\ Replacing(TRUE) /\ commands' = commands
      /\ UNCHANGED <<kiosk, personalCap, promise, pendingShare, pendingTransfer, finalized, overtaken, buying,
                     sharedAgain>>
  BY DEF SetKioskCap
<1>3. Grows(<<>>) /\ \A j \in 1 .. Len(<<>>) : FALSE
  BY <1>1, <1>2, AddGrows
<1>4. replaced' \in 0 .. MaxReplacements /\ replaced' # 0
  BY <1>1, <1>2, ReplacingCounts
<1>5. SetUpOnce'
  BY <1>4 DEF SetUpOnce
<1>6. {kiosk', kioskCap', personalCap'} \subseteq Here' /\ promise' \in 1 .. Len(commands') \cup {None}
  <2>1. c \in Here'
    BY <1>1, <1>2, Types DEF Here, Positions
  <2> QED
    BY <2>1, <1>1, <1>2, <1>3, HereGrows
<1>7. /\ {pendingShare', pendingTransfer', sharedAgain'} \subseteq BOOLEAN
      /\ pendingShare' /\ ~sharedAgain' => \A i \in Positions("share") : commands[i].kiosk # kiosk'
  BY <1>1, <1>2 DEF Shared, SharedByCaller
<1> QED
  BY <1>1, <1>2, <1>3, <1>4, <1>5, <1>6, <1>7, SetUpKeeps

----------------------------------------------------------------------------
(* Operations that leave the builder as it is. *)

(* Commands of purchases, which may come behind finalize(), and those of   *)
(* other operations, which may not.                                        *)
Harmless(cs) ==
  /\ cs \in Seq(Command)
  /\ \A j \in 1 .. Len(cs) :
       /\ cs[j].kiosk \in Here /\ cs[j].cap \in {None, kioskCap}
       /\ \/ cs[j].op \in Purchasing /\ cs[j].cap = None
          \/ buying.phase # "no" /\ cs[j].op = "lock"
          \/ ~finalized /\ cs[j].op \in {"use", "createAndShare"}

(* None, or one of them. *)
LEMMA HarmlessShort ==
  /\ Harmless(<<>>)
  /\ \A c \in Command :
       /\ c.kiosk \in Here /\ c.cap \in {None, kioskCap}
       /\ \/ c.op \in Purchasing /\ c.cap = None
          \/ buying.phase # "no" /\ c.op = "lock"
          \/ ~finalized /\ c.op \in {"use", "createAndShare"}
       => Harmless(<<c>>)
BY DEF Harmless

(* One after the other. *)
LEMMA HarmlessConcat ==
  ASSUME NEW s, NEW t, Harmless(s), Harmless(t)
  PROVE  Harmless(s \o t)
<1>1. s \in Seq(Command) /\ t \in Seq(Command) /\ Len(s) \in Nat /\ Len(t) \in Nat
  BY LenProperties DEF Harmless
<1> DEFINE u == s \o t
<1>2. /\ u \in Seq(Command) /\ Len(u) = Len(s) + Len(t)
      /\ \A i \in 1 .. Len(s) + Len(t) : u[i] = IF i <= Len(s) THEN s[i] ELSE t[i - Len(s)]
  BY <1>1, ConcatProperties
<1> HIDE DEF u
<1>3. ASSUME NEW i \in 1 .. Len(u)
      PROVE  \/ i \in 1 .. Len(s) /\ u[i] = s[i]
             \/ \E k \in 1 .. Len(t) : u[i] = t[k]
  <2>1. CASE i <= Len(s)
    BY <2>1, <1>1, <1>2
  <2>2. CASE ~(i <= Len(s))
    <3>1. i - Len(s) \in 1 .. Len(t) /\ u[i] = t[i - Len(s)]
      BY <2>2, <1>1, <1>2
    <3> QED
      BY <3>1
  <2> QED
    BY <2>1, <2>2
<1>4. Harmless(u)
  BY <1>2, <1>3 DEF Harmless
<1> QED
  BY <1>4 DEF u

(* What finalize() gave back stays given back: only purchases add commands *)
(* behind it.                                                              *)
LEMMA GivenBackStays ==
  ASSUME KioskTypes, PersonalCapGivenBack, NEW cs, Grows(cs), UNCHANGED <<finalized, overtaken, replaced>>,
         finalized => \A j \in 1 .. Len(cs) :
                        /\ cs[j].op \in Purchasing
                        /\ cs[j].cap = None \/ (overtaken /\ cs[j].op = "lock")
  PROVE  PersonalCapGivenBack'
<1> SUFFICES ASSUME finalized, replaced = 0  PROVE PersonalCapGivenBack'
  BY DEF PersonalCapGivenBack
<1>1. \A op \in {"borrow", "return", "personal", "transferPersonal"} :
        /\ {i \in DOMAIN commands' : commands'[i].op = op} = Positions(op)
        /\ \A i \in Positions(op) : commands'[i] = commands[i]
  <2> TAKE op \in {"borrow", "return", "personal", "transferPersonal"}
  <2>1. \A j \in 1 .. Len(cs) : cs[j].op # op
    BY DEF Purchasing
  <2> QED
    BY <2>1, PositionsKept
<1> DEFINE P(op) == {i \in DOMAIN commands' : commands'[i].op = op}
<1>2. /\ P("borrow") = Positions("borrow") /\ P("return") = Positions("return")
      /\ P("personal") = Positions("personal")
      /\ P("transferPersonal") = Positions("transferPersonal")
      /\ \A i \in Positions("borrow") \cup Positions("return")
                  \cup Positions("personal") \cup Positions("transferPersonal") :
           commands'[i] = commands[i]
  BY <1>1
<1>3. \A i \in DOMAIN commands' :
        \/ i \in DOMAIN commands /\ commands'[i] = commands[i]
        \/ /\ commands'[i].op \in Purchasing
           /\ commands'[i].cap = None \/ (overtaken /\ commands'[i].op = "lock")
  <2> TAKE i \in DOMAIN commands'
  <2>1. CASE i \in 1 .. Len(commands)
    BY <2>1, GrowsEffect, Types
  <2>2. CASE \E j \in 1 .. Len(cs) : i = Len(commands) + j
    BY <2>2, GrowsEffect
  <2> QED
    BY <2>1, <2>2, GrowsEffect
<1>4. ASSUME NEW b \in P("borrow")
      PROVE  \E r \in P("return") :
               /\ {i \in P("return") : commands'[i].promise = b} = {r}
               /\ commands'[r].promise = b /\ commands'[r].cap = b
               /\ commands'[r].kiosk = commands'[b].cap
               /\ \A u \in DOMAIN commands' :
                    commands'[u].cap = b => u \in b..r \/ (overtaken /\ commands'[u].op = "lock")
               /\ \A i \in DOMAIN commands' :
                    i > r => commands'[i].op \in Purchasing \cup {"transferPersonal"}
  <2>1. PICK r \in Positions("return") :
               /\ {i \in Positions("return") : commands[i].promise = b} = {r}
               /\ commands[r].promise = b /\ commands[r].cap = b
               /\ commands[r].kiosk = commands[b].cap
               /\ \A u \in DOMAIN commands :
                    commands[u].cap = b => u \in b..r \/ (overtaken /\ commands[u].op = "lock")
               /\ \A i \in DOMAIN commands :
                    i > r => commands[i].op \in Purchasing \cup {"transferPersonal"}
    BY <1>2 DEF PersonalCapGivenBack
  <2>2. {i \in P("return") : commands'[i].promise = b} = {r}
    BY <2>1, <1>2
  <2>3. /\ commands'[r].promise = b /\ commands'[r].cap = b
        /\ commands'[r].kiosk = commands'[b].cap
    BY <2>1, <1>2
  <2>4. \A u \in DOMAIN commands' :
          commands'[u].cap = b => u \in b..r \/ (overtaken /\ commands'[u].op = "lock")
    <3>1. b \in Nat /\ None \notin Nat
      BY <1>2, Types DEF Positions
    <3> QED
      BY <3>1, <2>1, <1>3
  <2>5. \A i \in DOMAIN commands' : i > r => commands'[i].op \in Purchasing \cup {"transferPersonal"}
    BY <2>1, <1>3
  <2> QED
    BY <2>2, <2>3, <2>4, <2>5, <1>2
<1>5. ASSUME NEW p \in P("personal")
      PROVE  \E t \in P("transferPersonal") :
               /\ {i \in P("transferPersonal") : commands'[i].cap = p} = {t}
               /\ \A r \in P("return") : r < t
               /\ \A i \in DOMAIN commands' : i > t => commands'[i].op \in Purchasing
  <2>1. PICK t \in Positions("transferPersonal") :
               /\ {i \in Positions("transferPersonal") : commands[i].cap = p} = {t}
               /\ \A r \in Positions("return") : r < t
               /\ \A i \in DOMAIN commands : i > t => commands[i].op \in Purchasing
    BY <1>2 DEF PersonalCapGivenBack
  <2>2. {i \in P("transferPersonal") : commands'[i].cap = p} = {t}
    BY <2>1, <1>2
  <2>3. \A i \in DOMAIN commands' : i > t => commands'[i].op \in Purchasing
    BY <2>1, <1>3
  <2> QED
    BY <2>1, <2>2, <2>3, <1>2
<1> QED
  BY <1>4, <1>5 DEF PersonalCapGivenBack, Positions

(* Such operations disturb nothing. *)
LEMMA HarmlessKeeps ==
  ASSUME KioskInv, NEW cs, Grows(cs), Harmless(cs), UNCHANGED <<builder, replaced, sharedAgain>>,
         buying' \in [phase : {"no", "policies", "rules"},
                      rules : RuleLists \cup {<<"lock">>}, locked : BOOLEAN],
         buying'.phase = "rules" => buying'.rules # <<>>,
         buying'.phase # "no" => buying.phase # "no" \/ ~finalized
  PROVE  KioskInv'
<1>1. /\ KioskTypes /\ NotSettled /\ SharedByCaller /\ UsesFollow /\ SetUpOnce
      /\ Overtaken /\ PersonalCapGivenBack
  BY DEF KioskInv
<1>2. UNCHANGED <<kiosk, kioskCap, personalCap, promise, pendingShare, pendingTransfer, finalized,
                  overtaken, replaced, sharedAgain>>
  BY DEF builder
<1>3. KioskTypes'
  <2>1. \A j \in 1 .. Len(cs) : cs[j].kiosk \in Here'
    BY <1>1, HereGrows DEF Harmless
  <2>2. {kiosk', kioskCap', personalCap'} \subseteq Here' /\ promise' \in 1 .. Len(commands') \cup {None}
    BY <1>1, <1>2, HereGrows
  <2>3. /\ {pendingShare', pendingTransfer', finalized', overtaken', sharedAgain'} \subseteq BOOLEAN
        /\ replaced' \in 0 .. MaxReplacements
        /\ promise' # None => personalCap' # None
        /\ finalized' => personalCap' # None
    BY <1>1, <1>2 DEF KioskTypes, KioskTypeOK
  <2> QED
    BY <2>1, <2>2, <2>3, <1>1, TypesAfter
<1>4. \A op \in {"share", "return", "transferPersonal", "create", "borrow", "personal"} :
        /\ {i \in DOMAIN commands' : commands'[i].op = op} = Positions(op)
        /\ \A i \in Positions(op) : commands'[i] = commands[i]
  <2> TAKE op \in {"share", "return", "transferPersonal", "create", "borrow", "personal"}
  <2>1. \A j \in 1 .. Len(cs) : cs[j].op # op
    BY DEF Harmless, Purchasing
  <2> QED
    BY <2>1, <1>1, PositionsKept
<1>5. NotSettled'
  BY <1>1, <1>2, <1>4 DEF NotSettled, Positions
<1>6. SharedByCaller'
  <2>1. /\ {i \in DOMAIN commands' : commands'[i].op = "share"} = Positions("share")
        /\ \A i \in Positions("share") : commands'[i] = commands[i]
    BY <1>4
  <2> QED
    BY <2>1, <1>1, <1>2 DEF SharedByCaller, Shared, Positions
<1>7. UsesFollow'
  <2>1. kioskCap \in Here /\ None \notin Nat
    BY <1>1, Types
  <2>2. ASSUME NEW j \in 1 .. Len(cs), cs[j].cap \in Nat  PROVE cs[j].cap < Len(commands) + j
    <3>1. cs[j].cap = kioskCap
      BY <2>1, <2>2 DEF Harmless
    <3> QED
      BY <2>1, <2>2, <3>1, <1>1, HereBelow
  <2> QED
    BY <2>2, <1>1, UsesAfter
<1>8. SetUpOnce'
  <2>1. /\ {i \in DOMAIN commands' : commands'[i].op = "share"} = Positions("share")
        /\ {i \in DOMAIN commands' : commands'[i].op = "create"} = Positions("create")
        /\ {i \in DOMAIN commands' : commands'[i].op = "borrow"} = Positions("borrow")
        /\ {i \in DOMAIN commands' : commands'[i].op = "personal"} = Positions("personal")
        /\ \A i \in Positions("share") \cup Positions("borrow") : commands'[i] = commands[i]
    BY <1>4
  <2> QED
    BY <2>1, <1>1, <1>2 DEF SetUpOnce, Shared, Positions
<1>9. PersonalCapGivenBack'
  <2>1. ASSUME finalized, NEW j \in 1 .. Len(cs)
        PROVE  /\ cs[j].op \in Purchasing
               /\ cs[j].cap = None \/ (overtaken /\ cs[j].op = "lock")
    BY <2>1, <1>1 DEF Harmless, Overtaken, Purchasing
  <2> QED
    BY <2>1, <1>1, <1>2, GivenBackStays
<1>10. Overtaken'
  BY <1>1, <1>2 DEF Overtaken
<1> QED
  BY <1>3, <1>5, <1>6, <1>7, <1>8, <1>9, <1>10 DEF KioskInv

(* Operations on the kiosk. *)
LEMMA UseKeeps ==
  ASSUME KioskInv, Use \/ CreateAndShare \/ Purchase
  PROVE  KioskInv'
<1>1. /\ KioskTypes /\ {kiosk, kioskCap} \subseteq Here /\ {kiosk, kioskCap} \subseteq Names
      /\ None \in Names /\ None \in Here /\ {"use", "createAndShare", "purchase"} \subseteq Ops
  BY Types DEF KioskInv, Names, Here, Ops
<1>2. /\ buying \in [phase : {"no", "policies", "rules"},
                     rules : RuleLists \cup {<<"lock">>}, locked : BOOLEAN]
      /\ buying.phase = "rules" => buying.rules # <<>>
  BY <1>1 DEF KioskTypes, KioskTypeOK
<1>3. PICK c \in Command : Add(<<c>>) /\ Harmless(<<c>>)
  <2>1. CASE Use
    <3>1. Add(<<Cmd("use", kiosk, kioskCap)>>) /\ ~finalized
      BY <2>1 DEF Use, KioskIsSet
    <3>2. /\ Cmd("use", kiosk, kioskCap) \in Command /\ Cmd("use", kiosk, kioskCap).op = "use"
          /\ Cmd("use", kiosk, kioskCap).kiosk = kiosk /\ Cmd("use", kiosk, kioskCap).cap = kioskCap
      BY <1>1, CmdTyped
    <3>3. Harmless(<<Cmd("use", kiosk, kioskCap)>>)
      BY <3>1, <3>2, <1>1, HarmlessShort
    <3> QED
      BY <3>1, <3>2, <3>3
  <2>2. CASE CreateAndShare
    <3>1. Add(<<Cmd("createAndShare", None, None)>>) /\ ~finalized
      BY <2>2 DEF CreateAndShare
    <3>2. /\ Cmd("createAndShare", None, None) \in Command
          /\ Cmd("createAndShare", None, None).op = "createAndShare"
          /\ Cmd("createAndShare", None, None).kiosk = None
          /\ Cmd("createAndShare", None, None).cap = None
      BY <1>1, CmdTyped
    <3>3. Harmless(<<Cmd("createAndShare", None, None)>>)
      BY <3>1, <3>2, <1>1, HarmlessShort
    <3> QED
      BY <3>1, <3>2, <3>3
  <2>3. CASE Purchase
    <3>1. Add(<<Cmd("purchase", None, None)>>)
      BY <2>3 DEF Purchase
    <3>2. /\ Cmd("purchase", None, None) \in Command
          /\ Cmd("purchase", None, None).op = "purchase"
          /\ Cmd("purchase", None, None).kiosk = None
          /\ Cmd("purchase", None, None).cap = None
      BY <1>1, CmdTyped
    <3>3. Harmless(<<Cmd("purchase", None, None)>>)
      BY <3>2, <1>1, HarmlessShort DEF Purchasing
    <3> QED
      BY <3>1, <3>2, <3>3
  <2> QED
    BY <2>1, <2>2, <2>3
<1>4. UNCHANGED <<builder, buying, replaced, sharedAgain>>
  BY DEF Use, CreateAndShare, Purchase
<1>5. Grows(<<c>>)
  BY <1>1, <1>3, AddGrows DEF Harmless
<1> QED
  BY <1>2, <1>3, <1>4, <1>5, HarmlessKeeps

(* Each stretch of purchaseAndResolve between two awaits. *)
LEMMA ProceedKeeps ==
  ASSUME KioskInv, NEW before, Harmless(before),
         NEW rules \in RuleLists \cup {<<"lock">>}, NEW locked \in BOOLEAN,
         Proceed(before, rules, locked), UNCHANGED <<builder, replaced, sharedAgain>>,
         buying.phase # "no"
  PROVE  KioskInv'
<1>1. /\ KioskTypes /\ {kiosk, kioskCap} \subseteq Here /\ {kiosk, kioskCap} \subseteq Names
      /\ None \in Names /\ None \in Here /\ {"use", "lock", "confirm"} \subseteq Ops
  BY Types DEF KioskInv, Names, Here, Ops
<1> DEFINE confirm == Cmd("confirm", None, None)
           use == Cmd("use", kiosk, kioskCap)
           lock == Cmd("lock", kiosk, kioskCap)
<1>2. /\ confirm \in Command /\ confirm.op = "confirm" /\ confirm.kiosk = None /\ confirm.cap = None
      /\ use \in Command /\ use.op = "use" /\ use.kiosk = kiosk /\ use.cap = kioskCap
      /\ lock \in Command /\ lock.op = "lock" /\ lock.kiosk = kiosk /\ lock.cap = kioskCap
  <2>1. confirm \in Command /\ confirm.op = "confirm" /\ confirm.kiosk = None /\ confirm.cap = None
    BY <1>1, CmdTyped
  <2>2. use \in Command /\ use.op = "use" /\ use.kiosk = kiosk /\ use.cap = kioskCap
    BY <1>1, CmdTyped
  <2>3. lock \in Command /\ lock.op = "lock" /\ lock.kiosk = kiosk /\ lock.cap = kioskCap
    BY <1>1, CmdTyped
  <2> QED
    BY <2>1, <2>2, <2>3
<1>3. PICK cs : Harmless(cs) /\ Add(cs)
  <2>1. CASE rules = <<>>
    <3> DEFINE place == IF locked \/ ~KioskIsSet THEN <<>> ELSE <<use>>
    <3>1. Harmless(<<confirm>>)
      BY <1>1, <1>2, HarmlessShort DEF Purchasing
    <3>2. Harmless(place)
      BY <1>1, <1>2, HarmlessShort DEF KioskIsSet
    <3>3. Add((before \o <<confirm>>) \o place)
      BY <2>1 DEF Proceed
    <3> HIDE DEF place, confirm
    <3>4. Harmless((before \o <<confirm>>) \o place)
      BY <3>1, <3>2, HarmlessConcat
    <3> QED
      BY <3>3, <3>4
  <2>2. CASE rules # <<>>
    <3> DEFINE first == IF Head(rules) = "lock" THEN <<lock>> ELSE <<>>
    <3>1. Harmless(first)
      BY <1>1, <1>2, HarmlessShort DEF Purchasing
    <3>2. Add(before \o first)
      BY <2>2 DEF Proceed
    <3> HIDE DEF first
    <3>3. Harmless(before \o first)
      BY <3>1, HarmlessConcat
    <3> QED
      BY <3>2, <3>3
  <2> QED
    BY <2>1, <2>2
<1>4. Grows(cs)
  BY <1>1, <1>3, AddGrows DEF Harmless
<1>5. /\ buying' \in [phase : {"no", "policies", "rules"},
                      rules : RuleLists \cup {<<"lock">>}, locked : BOOLEAN]
      /\ buying'.phase = "rules" => buying'.rules # <<>>
  <2>1. CASE rules = <<>>
    <3>1. buying' = NotBuying /\ <<>> \in RuleLists
      BY <2>1 DEF Proceed, RuleLists
    <3> QED
      BY <3>1 DEF NotBuying
  <2>2. CASE rules # <<>>
    <3>1. PICK l \in BOOLEAN : buying' = [phase |-> "rules", rules |-> rules, locked |-> l]
      BY <2>2 DEF Proceed
    <3> QED
      BY <2>2, <3>1
  <2> QED
    BY <2>1, <2>2
<1> QED
  BY <1>3, <1>4, <1>5, HarmlessKeeps

(* purchaseAndResolve beside whatever else is called. *)
LEMMA BuyKeeps ==
  ASSUME KioskInv, BuyStarts \/ (\E rules \in RuleLists : BuyPurchases(rules)) \/ BuyResumes \/ BuyFails
  PROVE  KioskInv'
<1>1. /\ KioskTypes /\ None \in Names /\ None \in Here /\ {"purchase", "pay"} \subseteq Ops
      /\ NotBuying.phase = "no" /\ NotBuying.rules \in RuleLists /\ NotBuying.locked \in BOOLEAN
  BY DEF KioskInv, Names, Here, Ops, NotBuying, RuleLists
<1>2. /\ buying \in [phase : {"no", "policies", "rules"},
                     rules : RuleLists \cup {<<"lock">>}, locked : BOOLEAN]
      /\ buying.phase = "rules" => buying.rules # <<>>
  BY <1>1 DEF KioskTypes, KioskTypeOK
<1>3. CASE BuyStarts \/ BuyFails
  <2>1. commands' = commands /\ UNCHANGED <<builder, replaced, sharedAgain>>
    BY <1>3 DEF BuyStarts, BuyFails
  <2>2. Grows(<<>>) /\ Harmless(<<>>)
    BY <1>1, <2>1, AddGrows, HarmlessShort
  <2>3. /\ buying' \in [phase : {"no", "policies", "rules"},
                      rules : RuleLists \cup {<<"lock">>}, locked : BOOLEAN]
        /\ buying'.phase = "rules" => buying'.rules # <<>>
    <3>1. buying' = NotBuying \/ buying' = [NotBuying EXCEPT !.phase = "policies"]
      BY <1>3 DEF BuyStarts, BuyFails
    <3> QED
      BY <3>1, <1>1 DEF NotBuying
  <2>4. buying'.phase # "no" => ~finalized
    BY <1>3, <1>1 DEF BuyStarts, BuyFails, KioskIsSet
  <2> QED
    BY <2>1, <2>2, <2>3, <2>4, HarmlessKeeps
<1>4. ASSUME NEW rules \in RuleLists, BuyPurchases(rules)  PROVE KioskInv'
  <2>1. /\ Proceed(<<Cmd("purchase", None, None)>>, rules, FALSE)
        /\ UNCHANGED <<builder, replaced, sharedAgain>> /\ buying.phase # "no"
    BY <1>4 DEF BuyPurchases
  <2>2. /\ Cmd("purchase", None, None) \in Command
        /\ Cmd("purchase", None, None).op = "purchase"
        /\ Cmd("purchase", None, None).kiosk = None
        /\ Cmd("purchase", None, None).cap = None
    BY <1>1, CmdTyped
  <2>3. Harmless(<<Cmd("purchase", None, None)>>)
    BY <2>2, <1>1, HarmlessShort DEF Purchasing
  <2> QED
    BY <2>1, <2>3, ProceedKeeps
<1>5. CASE BuyResumes
  <2> DEFINE before == IF Head(buying.rules) = "royalty" THEN <<Cmd("pay", None, None)>> ELSE <<>>
  <2>1. /\ Proceed(before, Tail(buying.rules), buying.locked)
        /\ UNCHANGED <<builder, replaced, sharedAgain>> /\ buying.rules # <<>> /\ buying.phase # "no"
    BY <1>2, <1>5 DEF BuyResumes
  <2>2. /\ Cmd("pay", None, None) \in Command
        /\ Cmd("pay", None, None).op = "pay"
        /\ Cmd("pay", None, None).kiosk = None
        /\ Cmd("pay", None, None).cap = None
    BY <1>1, CmdTyped
  <2>3. Harmless(before)
    BY <2>2, <1>1, HarmlessShort DEF Purchasing
  <2>4. Tail(buying.rules) \in RuleLists \cup {<<"lock">>} /\ buying.locked \in BOOLEAN
    <3>1. buying.rules \in {<<"royalty">>, <<"lock">>, <<"royalty", "lock">>} /\ buying.locked \in BOOLEAN
      BY <1>2, <2>1 DEF RuleLists
    <3>2. /\ Tail(<<"royalty">>) = <<>> /\ Tail(<<"lock">>) = <<>>
          /\ Tail(<<"royalty", "lock">>) = <<"lock">>
      OBVIOUS
    <3> QED
      BY <3>1, <3>2 DEF RuleLists
  <2> HIDE DEF before
  <2> QED
    BY <2>1, <2>3, <2>4, ProceedKeeps
<1> QED
  BY <1>3, <1>4, <1>5

----------------------------------------------------------------------------
(* Sharing and finalize(). *)

(* Commands that share the kiosk of the builder at most once, first of     *)
(* all, and give things back.                                              *)
Settling(cs) ==
  \A j \in 1 .. Len(cs) :
    /\ cs[j].kiosk \in Here /\ cs[j].cap \in Here
    /\ cs[j].op \in {"share", "transferCap", "return", "transferPersonal"}
    /\ cs[j].op = "share" => j = 1 /\ cs[j].kiosk = kiosk

(* They keep all but what finalize() gives back. *)
LEMMA SettlingKeeps ==
  ASSUME KioskInv, NEW cs, Grows(cs), Settling(cs), ~finalized,
         UNCHANGED <<kiosk, kioskCap, personalCap, promise, buying, replaced>>,
         {pendingShare', pendingTransfer', finalized', overtaken', sharedAgain'} \subseteq BOOLEAN,
         sharedAgain => sharedAgain',
         Len(cs) > 0 /\ cs[1].op = "share" => ~pendingShare' /\ (sharedAgain' \/ ~Shared(kiosk)),
         ~(Len(cs) > 0 /\ cs[1].op = "share") => pendingShare' = pendingShare,
         finalized' => personalCap # None /\ ~pendingShare',
         ~finalized' => \A j \in 1 .. Len(cs) : cs[j].op \in {"share", "transferCap"},
         pendingTransfer' = pendingTransfer \/ personalCap = None,
         finalized' /\ buying.phase # "no" => overtaken'
  PROVE  KioskTypes' /\ NotSettled' /\ SharedByCaller' /\ UsesFollow' /\ SetUpOnce' /\ Overtaken'
<1>1. /\ KioskTypes /\ NotSettled /\ SharedByCaller /\ UsesFollow /\ SetUpOnce
      /\ Len(commands) \in Nat /\ Len(cs) \in Nat /\ None \notin Nat
  BY Types, GrowsEffect DEF KioskInv
<1>2. KioskTypes'
  <2>1. \A j \in 1 .. Len(cs) : cs[j].kiosk \in Here'
    BY <1>1, HereGrows DEF Settling
  <2>2. {kiosk', kioskCap', personalCap'} \subseteq Here' /\ promise' \in 1 .. Len(commands') \cup {None}
    BY <1>1, HereGrows
  <2>3. /\ buying' \in [phase : {"no", "policies", "rules"},
                        rules : RuleLists \cup {<<"lock">>}, locked : BOOLEAN]
        /\ buying'.phase = "rules" => buying'.rules # <<>>
        /\ replaced' \in 0 .. MaxReplacements
        /\ promise' # None => personalCap' # None
        /\ finalized' => personalCap' # None
    BY <1>1 DEF KioskTypes, KioskTypeOK
  <2> QED
    BY <2>1, <2>2, <2>3, <1>1, TypesAfter
<1>3. \A op \in {"create", "borrow", "personal"} :
        /\ {i \in DOMAIN commands' : commands'[i].op = op} = Positions(op)
        /\ \A i \in Positions(op) : commands'[i] = commands[i]
  <2> TAKE op \in {"create", "borrow", "personal"}
  <2>1. \A j \in 1 .. Len(cs) : cs[j].op # op
    BY DEF Settling
  <2> QED
    BY <2>1, <1>1, PositionsKept
<1>4. NotSettled'
  <2> SUFFICES ASSUME ~finalized'
               PROVE  /\ {i \in DOMAIN commands' : commands'[i].op = "return"} = {}
                      /\ {i \in DOMAIN commands' : commands'[i].op = "transferPersonal"} = {}
    BY DEF NotSettled, Positions
  <2>1. Positions("return") = {} /\ Positions("transferPersonal") = {}
    BY <1>1 DEF NotSettled
  <2>2. \A j \in 1 .. Len(cs) : cs[j].op # "return" /\ cs[j].op # "transferPersonal"
    OBVIOUS
  <2> QED
    BY <2>1, <2>2, <1>1, PositionsKept
<1>5. /\ \A i \in Positions("share") :
           /\ i \in 1 .. Len(commands) /\ commands'[i] = commands[i]
           /\ i \in {k \in DOMAIN commands' : commands'[k].op = "share"}
      /\ \A i \in {k \in DOMAIN commands' : commands'[k].op = "share"} :
           \/ i \in Positions("share")
           \/ /\ i = Fresh(1) /\ commands'[i].kiosk = kiosk
              /\ Len(cs) > 0 /\ cs[1].op = "share"
  <2>1. ASSUME NEW i \in {k \in DOMAIN commands' : commands'[k].op = "share"}, i \notin Positions("share")
        PROVE  /\ i = Fresh(1) /\ commands'[i].kiosk = kiosk
               /\ Len(cs) > 0 /\ cs[1].op = "share"
    <3>1. PICK j \in 1 .. Len(cs) : i = Len(commands) + j /\ cs[j].op = "share"
      BY <2>1, <1>1, PositionsAfter
    <3>2. j = 1 /\ cs[j].kiosk = kiosk
      BY <3>1 DEF Settling
    <3>3. commands'[i] = cs[j]
      BY <3>1, <1>1, GrowsEffect
    <3> QED
      BY <3>1, <3>2, <3>3, <1>1 DEF Fresh
  <2> QED
    BY <2>1, <1>1, PositionsAfter
<1>6. SharedByCaller'
  <2>1. ASSUME NEW i \in {k \in DOMAIN commands' : commands'[k].op = "share"},
               NEW j \in {k \in DOMAIN commands' : commands'[k].op = "share"},
               commands'[i].kiosk = commands'[j].kiosk, i # j
        PROVE  sharedAgain'
    <3>1. CASE i \in Positions("share") /\ j \in Positions("share")
      BY <2>1, <3>1, <1>1, <1>5 DEF SharedByCaller
    <3>2. CASE i \notin Positions("share") \/ j \notin Positions("share")
      <4>1. /\ Len(cs) > 0 /\ cs[1].op = "share"
            /\ \E h \in Positions("share") : commands[h].kiosk = kiosk
        BY <2>1, <3>2, <1>5
      <4> QED
        BY <4>1 DEF Shared
    <3> QED
      BY <3>1, <3>2
  <2>2. pendingShare' /\ ~sharedAgain' =>
          \A i \in {k \in DOMAIN commands' : commands'[k].op = "share"} : commands'[i].kiosk # kiosk'
    <3> SUFFICES ASSUME pendingShare', ~sharedAgain',
                        NEW i \in {k \in DOMAIN commands' : commands'[k].op = "share"}
                 PROVE  commands'[i].kiosk # kiosk'
      OBVIOUS
    <3>1. i \in Positions("share") /\ commands'[i] = commands[i] /\ pendingShare /\ ~sharedAgain
      BY <1>5
    <3> QED
      BY <3>1, <1>1 DEF SharedByCaller, Shared
  <2> QED
    BY <2>1, <2>2 DEF SharedByCaller, Shared, Positions
<1>7. UsesFollow'
  <2>1. \A j \in 1 .. Len(cs) : cs[j].cap \in Nat => cs[j].cap < Len(commands) + j
    BY <1>1, HereBelow DEF Settling
  <2> QED
    BY <2>1, <1>1, UsesAfter
<1>8. SetUpOnce'
  <2> SUFFICES ASSUME replaced = 0
               PROVE  /\ \A k \in Positions("create") :
                           /\ kiosk = k
                           /\ \/ pendingShare'
                              \/ \E i \in {h \in DOMAIN commands' : commands'[h].op = "share"} :
                                   commands'[i].kiosk = k
                      /\ \A b \in Positions("borrow") :
                           promise = b /\ kioskCap = b /\ personalCap = commands'[b].cap
                      /\ \A p \in Positions("personal") : personalCap = p /\ pendingTransfer'
    BY <1>3 DEF SetUpOnce, Shared, Positions
  <2>1. \A b \in Positions("borrow") :
          promise = b /\ kioskCap = b /\ personalCap = commands'[b].cap
    BY <1>1, <1>3 DEF SetUpOnce
  <2>2. \A p \in Positions("personal") : personalCap = p /\ pendingTransfer'
    <3>1. personalCap = None => Positions("personal") = {}
      BY NothingYet
    <3> QED
      BY <3>1, <1>1 DEF SetUpOnce
  <2>3. ASSUME NEW k \in Positions("create")
        PROVE  /\ kiosk = k
               /\ \/ pendingShare'
                  \/ \E i \in {h \in DOMAIN commands' : commands'[h].op = "share"} :
                       commands'[i].kiosk = k
    <3>1. kiosk = k /\ (pendingShare \/ Shared(k))
      BY <1>1 DEF SetUpOnce
    <3>2. CASE Shared(k)
      BY <3>1, <3>2, <1>5 DEF Shared
    <3>3. CASE Len(cs) > 0 /\ cs[1].op = "share"
      <4>1. 1 \in 1 .. Len(cs)
        BY <3>3, <1>1
      <4>2. /\ Len(commands) + 1 \in DOMAIN commands' /\ commands'[Len(commands) + 1] = cs[1]
            /\ cs[1].kiosk = kiosk
        BY <4>1, <3>3, <1>1, GrowsEffect DEF Settling
      <4> QED
        BY <3>1, <3>3, <4>2
    <3>4. CASE pendingShare /\ ~(Len(cs) > 0 /\ cs[1].op = "share")
      BY <3>1, <3>4
    <3> QED
      BY <3>1, <3>2, <3>3, <3>4
  <2> QED
    BY <2>1, <2>2, <2>3
<1>9. Overtaken'
  BY DEF Overtaken
<1> QED
  BY <1>2, <1>4, <1>6, <1>7, <1>8, <1>9

(* share and shareAndTransferCap: the caller shares.                       *)
LEMMA ShareKeeps ==
  ASSUME KioskInv, Share \/ ShareAndTransferCap
  PROVE  KioskInv'
<1> DEFINE s == Cmd("share", kiosk, None)
           t == Cmd("transferCap", None, kioskCap)
<1>1. /\ KioskTypes /\ {kiosk, kioskCap} \subseteq Here /\ {kiosk, kioskCap} \subseteq Names
      /\ None \in Names /\ None \in Here /\ {"share", "transferCap"} \subseteq Ops
      /\ {pendingShare, pendingTransfer, finalized, overtaken, sharedAgain} \subseteq BOOLEAN
  BY Types DEF KioskInv, Names, Here, Ops, KioskTypes, KioskTypeOK
<1>2. /\ s \in Command /\ s.op = "share" /\ s.kiosk = kiosk /\ s.cap = None
      /\ t \in Command /\ t.op = "transferCap" /\ t.kiosk = None /\ t.cap = kioskCap
  <2>1. s \in Command /\ s.op = "share" /\ s.kiosk = kiosk /\ s.cap = None
    BY <1>1, CmdTyped
  <2>2. t \in Command /\ t.op = "transferCap" /\ t.kiosk = None /\ t.cap = kioskCap
    BY <1>1, CmdTyped
  <2> QED
    BY <2>1, <2>2
<1>3. /\ ~finalized /\ pendingShare' = FALSE /\ sharedAgain' = (sharedAgain \/ Shared(kiosk))
      /\ UNCHANGED <<kiosk, kioskCap, personalCap, promise, finalized, overtaken, buying, replaced>>
      /\ \/ Add(<<s>> \o <<>>) /\ pendingTransfer' = pendingTransfer
         \/ Add(<<s>> \o <<t>>) /\ pendingTransfer' = FALSE /\ personalCap = None
  <2>1. CASE Share
    BY <2>1 DEF Share, ShareThen, NoteShare, KioskIsSet
  <2>2. CASE ShareAndTransferCap
    BY <2>2 DEF ShareAndTransferCap, ShareThen, NoteShare, KioskIsSet
  <2> QED
    BY <2>1, <2>2
<1> HIDE DEF s, t
<1>4. PICK cs \in {<<s>>, <<s, t>>} : Add(cs)
  <2>1. <<s>> \o <<>> = <<s>>
    BY <1>2, ConcatEmptySeq
  <2>2. <<s>> \o <<t>> = <<s, t>>
    BY <1>2, Pairs
  <2> QED
    BY <2>1, <2>2, <1>3
<1>5. /\ cs \in Seq(Command) /\ Len(cs) > 0 /\ cs[1] = s
      /\ \A j \in 1 .. Len(cs) : (j = 1 /\ cs[j] = s) \/ (j = 2 /\ cs[j] = t)
  <2>1. CASE cs = <<s>>
    BY <2>1, <1>2
  <2>2. CASE cs = <<s, t>>
    BY <2>2, <1>2
  <2> QED
    BY <2>1, <2>2
<1> HIDE DEF Add
<1>6. Grows(cs)
  BY <1>1, <1>4, <1>5, AddGrows
<1>7. Settling(cs) /\ \A j \in 1 .. Len(cs) : cs[j].op \in {"share", "transferCap"}
  BY <1>1, <1>2, <1>5 DEF Settling
<1>8. {pendingShare', pendingTransfer', finalized', overtaken', sharedAgain'} \subseteq BOOLEAN
  BY <1>1, <1>3
<1>9. /\ sharedAgain => sharedAgain'
      /\ ~pendingShare' /\ (sharedAgain' \/ ~Shared(kiosk))
      /\ cs[1].op = "share" /\ ~finalized'
      /\ pendingTransfer' = pendingTransfer \/ personalCap = None
  BY <1>2, <1>3, <1>5
<1>10. KioskTypes' /\ NotSettled' /\ SharedByCaller' /\ UsesFollow' /\ SetUpOnce' /\ Overtaken'
  BY <1>3, <1>5, <1>6, <1>7, <1>8, <1>9, SettlingKeeps
<1>11. PersonalCapGivenBack'
  BY <1>9 DEF PersonalCapGivenBack
<1> QED
  BY <1>10, <1>11 DEF KioskInv

(* Three sequences of at most one element, one behind the other. *)
LEMMA ThreeParts ==
  ASSUME NEW S, NEW x \in S, NEW y \in S, NEW z \in S,
         NEW a \in BOOLEAN, NEW b \in BOOLEAN, NEW c \in BOOLEAN
  PROVE  LET cs == (IF a THEN <<x>> ELSE <<>>) \o
                     ((IF b THEN <<y>> ELSE <<>>) \o (IF c THEN <<z>> ELSE <<>>))
             n == IF a THEN 1 ELSE 0
             m == n + (IF b THEN 1 ELSE 0)
         IN /\ cs \in Seq(S)
            /\ a => 1 \in 1 .. Len(cs) /\ cs[1] = x
            /\ b => n + 1 \in 1 .. Len(cs) /\ cs[n + 1] = y
            /\ c => m + 1 \in 1 .. Len(cs) /\ cs[m + 1] = z
            /\ \A j \in 1 .. Len(cs) :
                 \/ a /\ j = 1
                 \/ b /\ j = n + 1
                 \/ c /\ j = m + 1
<1> DEFINE f == IF a THEN <<x>> ELSE <<>>
           g == IF b THEN <<y>> ELSE <<>>
           h == IF c THEN <<z>> ELSE <<>>
           gh == g \o h
           cs == f \o gh
           n == IF a THEN 1 ELSE 0
           k == IF b THEN 1 ELSE 0
           l == IF c THEN 1 ELSE 0
<1>1. /\ f \in Seq(S) /\ Len(f) = n /\ (a => f[1] = x)
      /\ g \in Seq(S) /\ Len(g) = k /\ (b => g[1] = y)
      /\ h \in Seq(S) /\ Len(h) = l /\ (c => h[1] = z)
  OBVIOUS
<1>2. n \in {0, 1} /\ k \in {0, 1} /\ l \in {0, 1} /\ (a <=> n = 1) /\ (b <=> k = 1) /\ (c <=> l = 1)
  OBVIOUS
<1> HIDE DEF f, g, h
<1>3. /\ gh \in Seq(S) /\ Len(gh) = k + l
      /\ \A i \in 1 .. k + l : gh[i] = IF i <= k THEN g[i] ELSE h[i - k]
  BY <1>1, ConcatProperties
<1> HIDE DEF gh, n, k, l
<1>4. /\ cs \in Seq(S) /\ Len(cs) = n + (k + l)
      /\ \A i \in 1 .. n + (k + l) : cs[i] = IF i <= n THEN f[i] ELSE gh[i - n]
  <2>1. /\ cs \in Seq(S) /\ Len(cs) = Len(f) + Len(gh)
        /\ \A i \in 1 .. Len(f) + Len(gh) : cs[i] = IF i <= Len(f) THEN f[i] ELSE gh[i - Len(f)]
    <3>1. f \in Seq(S) /\ gh \in Seq(S)
      BY <1>1, <1>3
    <3> QED
      BY <3>1, ConcatProperties
  <2> HIDE DEF cs
  <2>2. Len(f) = n /\ Len(gh) = k + l
    BY <1>1, <1>3
  <2> QED
    BY <2>1, <2>2
<1> HIDE DEF cs
<1>5. a => 1 \in 1 .. Len(cs) /\ cs[1] = x
  BY <1>1, <1>2, <1>4
<1>6. ASSUME b  PROVE n + 1 \in 1 .. Len(cs) /\ cs[n + 1] = y
  <2>1. n + 1 \in 1 .. n + (k + l) /\ ~(n + 1 <= n) /\ (n + 1) - n = 1 /\ 1 \in 1 .. k + l /\ 1 <= k
    BY <1>2, <1>6
  <2>2. cs[n + 1] = gh[1] /\ gh[1] = y
    BY <2>1, <1>1, <1>3, <1>4, <1>6
  <2> QED
    BY <2>1, <2>2, <1>4
<1>7. ASSUME c  PROVE n + k + 1 \in 1 .. Len(cs) /\ cs[n + k + 1] = z
  <2>1. /\ n + k + 1 \in 1 .. n + (k + l) /\ ~(n + k + 1 <= n) /\ (n + k + 1) - n = k + 1
        /\ k + 1 \in 1 .. k + l /\ ~(k + 1 <= k) /\ (k + 1) - k = 1
    BY <1>2, <1>7
  <2>2. cs[n + k + 1] = gh[k + 1] /\ gh[k + 1] = z
    BY <2>1, <1>1, <1>3, <1>4, <1>7
  <2> QED
    BY <2>1, <2>2, <1>4
<1>8. \A j \in 1 .. Len(cs) : (a /\ j = 1) \/ (b /\ j = n + 1) \/ (c /\ j = n + k + 1)
  BY <1>2, <1>4
<1> QED
  BY <1>4, <1>5, <1>6, <1>7, <1>8 DEF cs, gh, f, g, h, n, k, l

(* finalize() shares what is pending and gives back what was borrowed. *)
LEMMA FinalizeKeeps ==
  ASSUME KioskInv, Finalize
  PROVE  KioskInv'
<1> DEFINE S == Cmd("share", kiosk, None)
           R == [op |-> "return", kiosk |-> personalCap, cap |-> kioskCap, promise |-> promise]
           T == Cmd("transferPersonal", None, personalCap)
           a == pendingShare
           b == personalCap # None /\ promise # None
           c == personalCap # None /\ pendingTransfer
           cs == (IF a THEN <<S>> ELSE <<>>) \o ((IF b THEN <<R>> ELSE <<>>) \o (IF c THEN <<T>> ELSE <<>>))
           n == IF a THEN 1 ELSE 0
           m == n + (IF b THEN 1 ELSE 0)
           rest == IF personalCap = None THEN <<>> ELSE GiveBack
<1>1. /\ KioskTypes /\ NotSettled /\ SharedByCaller /\ UsesFollow /\ SetUpOnce
      /\ {kiosk, kioskCap, personalCap, promise} \subseteq Here
      /\ {kiosk, kioskCap, personalCap, promise} \subseteq Names
      /\ None \in Names /\ None \in Here /\ {"share", "return", "transferPersonal"} \subseteq Ops
      /\ {pendingShare, pendingTransfer, finalized, overtaken, sharedAgain} \subseteq BOOLEAN
  BY Types DEF KioskInv, Names, Here, Ops, KioskTypes, KioskTypeOK
<1>2. /\ S \in Command /\ S.op = "share" /\ S.kiosk = kiosk /\ S.cap = None
      /\ R \in Command /\ R.op = "return" /\ R.kiosk = personalCap /\ R.cap = kioskCap
      /\ R.promise = promise
      /\ T \in Command /\ T.op = "transferPersonal" /\ T.kiosk = None /\ T.cap = personalCap
  <2>1. S \in Command /\ S.op = "share" /\ S.kiosk = kiosk /\ S.cap = None
    BY <1>1, CmdTyped
  <2>2. T \in Command /\ T.op = "transferPersonal" /\ T.kiosk = None /\ T.cap = personalCap
    BY <1>1, CmdTyped
  <2>3. /\ R \in Command /\ R.op = "return" /\ R.kiosk = personalCap /\ R.cap = kioskCap
        /\ R.promise = promise
    BY <1>1 DEF Command
  <2> QED
    BY <2>1, <2>2, <2>3
<1>3. /\ ~finalized /\ finalized' = (personalCap # None)
      /\ overtaken' = (personalCap # None /\ buying.phase # "no")
      /\ IF pendingShare THEN Add(<<S>> \o rest) /\ pendingShare' = FALSE
         ELSE Add(rest) /\ pendingShare' = pendingShare
      /\ UNCHANGED <<kiosk, kioskCap, personalCap, promise, pendingTransfer, buying, replaced, sharedAgain>>
  BY DEF Finalize, ShareThen, KioskIsSet
<1>4. /\ pendingShare' = FALSE
      /\ UNCHANGED <<kiosk, kioskCap, personalCap, promise, pendingTransfer, buying, replaced, sharedAgain>>
  BY <1>1, <1>3
<1>5. rest = (IF b THEN <<R>> ELSE <<>>) \o (IF c THEN <<T>> ELSE <<>>) /\ rest \in Seq(Command)
  <2>1. CASE personalCap = None
    <3>1. <<>> \o <<>> = <<>> /\ <<>> \in Seq(Command)
      BY ConcatEmptySeq, EmptySeq
    <3> QED
      BY <2>1, <3>1
  <2>2. CASE personalCap # None
    <3>1. rest = (IF b THEN <<R>> ELSE <<>>) \o (IF c THEN <<T>> ELSE <<>>)
      BY <2>2 DEF GiveBack
    <3>2. (IF b THEN <<R>> ELSE <<>>) \in Seq(Command) /\ (IF c THEN <<T>> ELSE <<>>) \in Seq(Command)
      BY <1>2
    <3> QED
      BY <3>1, <3>2, ConcatProperties
  <2> QED
    BY <2>1, <2>2
<1> HIDE DEF S, R, T, rest
<1>6. Add(cs)
  <2>1. CASE pendingShare
    BY <2>1, <1>3, <1>5
  <2>2. CASE ~pendingShare
    <3>1. <<>> \o rest = rest
      BY <1>5, ConcatEmptySeq
    <3> QED
      BY <2>2, <3>1, <1>3, <1>5
  <2> QED
    BY <2>1, <2>2
<1>7. /\ a \in BOOLEAN /\ b \in BOOLEAN /\ c \in BOOLEAN
      /\ n \in 0 .. 1 /\ m \in n .. n + 1 /\ (a <=> n = 1) /\ (b <=> m = n + 1)
  BY <1>1
<1>8. /\ cs \in Seq(Command)
      /\ a => 1 \in 1 .. Len(cs) /\ cs[1] = S
      /\ b => n + 1 \in 1 .. Len(cs) /\ cs[n + 1] = R
      /\ c => m + 1 \in 1 .. Len(cs) /\ cs[m + 1] = T
      /\ \A j \in 1 .. Len(cs) :
           \/ a /\ j = 1
           \/ b /\ j = n + 1
           \/ c /\ j = m + 1
  BY <1>2, <1>7, ThreeParts
<1> HIDE DEF cs, n, m
<1>9. Grows(cs)
  BY <1>1, <1>6, <1>8, AddGrows
<1>10. \A j \in 1 .. Len(cs) :
         \/ a /\ j = 1 /\ cs[j] = S
         \/ b /\ j = n + 1 /\ cs[j] = R
         \/ c /\ j = m + 1 /\ cs[j] = T
  BY <1>8
<1>11. Settling(cs)
  BY <1>1, <1>2, <1>10 DEF Settling
<1>12. Len(cs) > 0 /\ cs[1].op = "share" <=> a
  <2>1. Len(cs) \in Nat
    BY <1>8, LenProperties
  <2>2. ASSUME a  PROVE Len(cs) > 0 /\ cs[1].op = "share"
    BY <2>1, <2>2, <1>2, <1>8
  <2>3. ASSUME ~a, Len(cs) > 0  PROVE cs[1].op # "share"
    <3>1. 1 \in 1 .. Len(cs)
      BY <2>1, <2>3
    <3>2. cs[1] = R \/ cs[1] = T
      BY <3>1, <2>3, <1>10
    <3> QED
      BY <3>2, <1>2
  <2> QED
    BY <2>2, <2>3
<1>13. ~finalized' => \A j \in 1 .. Len(cs) : cs[j].op \in {"share", "transferCap"}
  BY <1>2, <1>3, <1>10
<1>14. KioskTypes' /\ NotSettled' /\ SharedByCaller' /\ UsesFollow' /\ SetUpOnce' /\ Overtaken'
  <2>1. {pendingShare', pendingTransfer', finalized', overtaken', sharedAgain'} \subseteq BOOLEAN
    BY <1>1, <1>3, <1>4
  <2>2. Len(cs) > 0 /\ cs[1].op = "share" => ~pendingShare' /\ (sharedAgain' \/ ~Shared(kiosk))
    BY <1>1, <1>4, <1>12 DEF SharedByCaller
  <2>3. ~(Len(cs) > 0 /\ cs[1].op = "share") => pendingShare' = pendingShare
    BY <1>3, <1>12
  <2>4. finalized' => personalCap # None /\ ~pendingShare'
    BY <1>3, <1>4
  <2> QED
    BY <2>1, <2>2, <2>3, <2>4, <1>3, <1>4, <1>9, <1>11, <1>13, SettlingKeeps
<1>15. PersonalCapGivenBack'
  <2> DEFINE P(op) == {i \in DOMAIN commands' : commands'[i].op = op}
  <2> SUFFICES ASSUME personalCap # None, replaced = 0
               PROVE
    /\ \A q \in P("borrow") :
         \E r \in P("return") :
           /\ {i \in P("return") : commands'[i].promise = q} = {r}
           /\ commands'[r].promise = q /\ commands'[r].cap = q
           /\ commands'[r].kiosk = commands'[q].cap
           /\ \A u \in DOMAIN commands' :
                commands'[u].cap = q => u \in q..r \/ (overtaken' /\ commands'[u].op = "lock")
           /\ \A i \in DOMAIN commands' :
                i > r => commands'[i].op \in Purchasing \cup {"transferPersonal"}
    /\ \A p \in P("personal") :
         \E t \in P("transferPersonal") :
           /\ {i \in P("transferPersonal") : commands'[i].cap = p} = {t}
           /\ \A r \in P("return") : r < t
           /\ \A i \in DOMAIN commands' : i > t => commands'[i].op \in Purchasing
    BY <1>3, <1>4 DEF PersonalCapGivenBack, Positions
  <2> DEFINE N == Len(commands)
             r == N + n + 1
             t == N + m + 1
  <2>1. /\ N \in Nat /\ n \in Nat /\ m \in Nat /\ n <= m /\ (b => m = n + 1)
        /\ None \notin Nat /\ DOMAIN commands = 1 .. N
        /\ Positions("return") = {} /\ Positions("transferPersonal") = {}
    BY <1>1, <1>3, <1>7, Types DEF NotSettled
  <2>2. \A op \in {"borrow", "personal"} :
          P(op) = Positions(op) /\ \A i \in Positions(op) : commands'[i] = commands[i]
    <3> TAKE op \in {"borrow", "personal"}
    <3>1. \A j \in 1 .. Len(cs) : cs[j].op # op
      BY <1>2, <1>10
    <3> QED
      BY <3>1, <1>1, <1>9, PositionsKept
  <2>3. \A i \in DOMAIN commands' :
          \/ i \in 1 .. N
          \/ i = N + 1 /\ commands'[i] = S
          \/ b /\ i = r /\ commands'[i] = R
          \/ c /\ i = t /\ commands'[i] = T
    <3> TAKE i \in DOMAIN commands'
    <3>1. CASE i \in 1 .. N
      BY <3>1
    <3>2. ASSUME NEW j \in 1 .. Len(cs), i = N + j
          PROVE  \/ i = N + 1 /\ commands'[i] = S
                 \/ b /\ i = r /\ commands'[i] = R
                 \/ c /\ i = t /\ commands'[i] = T
      <4>1. commands'[i] = cs[j]
        BY <3>2, <1>1, <1>9, GrowsEffect
      <4>2. N + (n + 1) = r /\ N + (m + 1) = t
        BY <2>1
      <4> QED
        BY <4>1, <4>2, <3>2, <1>10
    <3> QED
      BY <3>1, <3>2, <1>1, <1>9, GrowsEffect
  <2>4. b => r \in DOMAIN commands' /\ commands'[r] = R
    <3> SUFFICES ASSUME b  PROVE r \in DOMAIN commands' /\ commands'[r] = R
      OBVIOUS
    <3>1. N + (n + 1) = r
      BY <2>1
    <3> QED
      BY <3>1, <1>1, <1>8, <1>9, GrowsEffect
  <2>5. c => t \in DOMAIN commands' /\ commands'[t] = T
    <3> SUFFICES ASSUME c  PROVE t \in DOMAIN commands' /\ commands'[t] = T
      OBVIOUS
    <3>1. N + (m + 1) = t
      BY <2>1
    <3> QED
      BY <3>1, <1>1, <1>8, <1>9, GrowsEffect
  <2>6. \A i \in 1 .. N : i \notin P("return") /\ i \notin P("transferPersonal")
    BY <2>1, <1>1, <1>9, GrowsEffect DEF Positions
  <2>7. /\ \A i \in P("return") : b /\ i = r
        /\ \A i \in P("transferPersonal") : c /\ i = t
        /\ b => r \in P("return")
        /\ c => t \in P("transferPersonal")
    BY <2>3, <2>4, <2>5, <2>6, <1>2
  <2>8. n = 0 => ~a
    BY <1>7
  <2>9. a => n = 1
    BY <1>7
  <2>10. /\ \A i \in DOMAIN commands' : i > r /\ b => i = t /\ c
         /\ \A i \in DOMAIN commands' : i > t => FALSE
         /\ b => r < t /\ N < r
    <3>1. /\ r \in Nat /\ t \in Nat /\ r <= t /\ N < r /\ N < t /\ (b => r < t)
          /\ N + 1 <= r /\ N + 1 <= t
      BY <2>1
    <3> HIDE DEF r, t, N
    <3>2. N \in Nat
      BY <2>1
    <3> QED
      BY <2>3, <3>1, <3>2
  <2> HIDE DEF r, t
  <2>11. ASSUME NEW q \in P("borrow")
         PROVE  /\ r \in P("return")
                /\ {i \in P("return") : commands'[i].promise = q} = {r}
                /\ commands'[r].promise = q /\ commands'[r].cap = q
                /\ commands'[r].kiosk = commands'[q].cap
                /\ \A u \in DOMAIN commands' : commands'[u].cap = q => u \in q..r
                /\ \A i \in DOMAIN commands' :
                     i > r => commands'[i].op \in Purchasing \cup {"transferPersonal"}
    <3>1. /\ q \in Positions("borrow") /\ q \in 1 .. N /\ commands'[q] = commands[q]
      BY <2>1, <2>2 DEF Positions
    <3>2. promise = q /\ kioskCap = q /\ personalCap = commands[q].cap
      BY <3>1, <1>1 DEF SetUpOnce
    <3>3. b
      BY <3>1, <3>2, <2>1
    <3>4. r \in P("return") /\ commands'[r] = R
      BY <3>3, <2>4, <2>7
    <3>5. commands'[r].promise = q /\ commands'[r].cap = q /\ commands'[r].kiosk = commands'[q].cap
      BY <3>1, <3>2, <3>4, <1>2
    <3>6. {i \in P("return") : commands'[i].promise = q} = {r}
      BY <3>4, <3>5, <2>7
    <3>7. \A u \in DOMAIN commands' : commands'[u].cap = q => u \in q..r
      <4> SUFFICES ASSUME NEW u \in DOMAIN commands', commands'[u].cap = q  PROVE u \in q..r
        OBVIOUS
      <4>1. /\ q \in Nat /\ N < r /\ r \in Nat /\ q <= N /\ N \in Nat
        BY <3>1, <3>3, <2>1, <2>10 DEF r
      <4>2. CASE u \in 1 .. N
        <5>1. commands[u].cap = q /\ u \in DOMAIN commands
          BY <4>2, <2>1, <1>1, <1>9, GrowsEffect
        <5>2. q < u
          BY <4>1, <5>1, <1>1 DEF UsesFollow
        <5> QED
          BY <4>1, <4>2, <5>2
      <4>3. CASE commands'[u] = S
        BY <4>1, <4>3, <1>2, <2>1
      <4>4. CASE u = r
        BY <4>1, <4>4
      <4>5. CASE commands'[u] = T
        <5>1. commands[q].cap = q /\ q \in DOMAIN commands
          BY <4>5, <3>1, <3>2, <1>2, <2>1
        <5>2. q < q
          BY <4>1, <5>1, <1>1 DEF UsesFollow
        <5> QED
          BY <5>2, <4>1
      <4> QED
        BY <4>2, <4>3, <4>4, <4>5, <2>3
    <3>8. \A i \in DOMAIN commands' : i > r => commands'[i].op \in Purchasing \cup {"transferPersonal"}
      BY <3>3, <2>5, <2>10, <1>2
    <3> QED
      BY <3>4, <3>5, <3>6, <3>7, <3>8
  <2>12. ASSUME NEW p \in P("personal")
         PROVE  /\ t \in P("transferPersonal")
                /\ {i \in P("transferPersonal") : commands'[i].cap = p} = {t}
                /\ \A x \in P("return") : x < t
                /\ \A i \in DOMAIN commands' : i > t => commands'[i].op \in Purchasing
    <3>1. p \in Positions("personal")
      BY <2>2
    <3>2. personalCap = p /\ pendingTransfer
      BY <3>1, <1>1 DEF SetUpOnce
    <3>3. t \in P("transferPersonal") /\ commands'[t] = T /\ commands'[t].cap = p
      BY <3>2, <2>5, <2>7, <1>2
    <3> QED
      BY <3>3, <2>7, <2>10
  <2> QED
    BY <2>11, <2>12
<1> QED
  BY <1>14, <1>15 DEF KioskInv

----------------------------------------------------------------------------
(* The invariant of every behaviour. *)

(* A new builder has nothing. *)
LEMMA InitKiosk == Init => KioskInv
<1> SUFFICES ASSUME Init  PROVE KioskInv
  OBVIOUS
<1>1. /\ commands = <<>> /\ commands \in Seq(Command) /\ Len(commands) = 0 /\ DOMAIN commands = {}
      /\ kiosk = None /\ kioskCap = None /\ personalCap = None /\ promise = None
      /\ pendingShare = FALSE /\ pendingTransfer = FALSE /\ finalized = FALSE
      /\ replaced = 0 /\ sharedAgain = FALSE /\ overtaken = FALSE
  BY DEF Init
<1>2. \A op : Positions(op) = {}
  BY <1>1 DEF Positions
<1>3. /\ buying \in [phase : {"no", "policies", "rules"},
                     rules : RuleLists \cup {<<"lock">>}, locked : BOOLEAN]
      /\ buying.phase # "rules"
  BY DEF Init, NotBuying, RuleLists
<1>4. KioskTypes
  <2>1. /\ MaxCommands \in Nat /\ 0 \in 0 .. MaxReplacements /\ None \in Names /\ None \in Here
    BY KioskAssumption DEF KioskAssumption, Names, Here
  <2>2. {kiosk, kioskCap, personalCap, promise} \subseteq Names
    BY <2>1, <1>1
  <2>3. {pendingShare, pendingTransfer, finalized, overtaken, sharedAgain} \subseteq BOOLEAN
    BY <1>1
  <2>4. KioskTypeOK
    BY <2>1, <2>2, <2>3, <1>1, <1>3 DEF KioskTypeOK, Command, Ops
  <2>5. /\ Len(commands) <= MaxCommands /\ {kiosk, kioskCap, personalCap} \subseteq Here
        /\ promise \in 1 .. Len(commands) \cup {None}
        /\ buying.phase = "rules" => buying.rules # <<>>
    BY <2>1, <1>1, <1>3
  <2>6. \A i \in DOMAIN commands : commands[i].kiosk \in Here
    BY <1>1
  <2> QED
    BY <2>4, <2>5, <2>6 DEF KioskTypes
<1>5. NotSettled /\ SharedByCaller /\ UsesFollow /\ SetUpOnce /\ Overtaken /\ PersonalCapGivenBack
  BY <1>1, <1>2 DEF NotSettled, SharedByCaller, UsesFollow, SetUpOnce, Overtaken, PersonalCapGivenBack
<1> QED
  BY <1>4, <1>5 DEF KioskInv

(* Every operation keeps it. *)
LEMMA NextKiosk == KioskInv /\ [Next]_vars => KioskInv'
<1> SUFFICES ASSUME KioskInv, [Next]_vars  PROVE KioskInv'
  OBVIOUS
<1>1. CASE Create
  BY <1>1, CreateKeeps
<1>2. CASE \E borrow \in BOOLEAN : CreatePersonal(borrow)
  BY <1>2, CreatePersonalKeeps
<1>3. CASE \E borrow \in BOOLEAN : ConvertToPersonal(borrow)
  BY <1>3, ConvertToPersonalKeeps
<1>4. CASE \E cap \in Owned : SetCap(cap)
  BY <1>4, SetCapKeeps
<1>5. CASE \E k \in Owned \cup Positions("create") : SetKiosk(k)
  BY <1>5, SetKioskKeeps
<1>6. CASE \E c \in Owned \cup Positions("create") \cup Positions("borrow") : SetKioskCap(c)
  BY <1>6, SetKioskCapKeeps
<1>7. CASE Use \/ CreateAndShare \/ Purchase
  BY <1>7, UseKeeps
<1>8. CASE Share \/ ShareAndTransferCap
  BY <1>8, ShareKeeps
<1>9. CASE BuyStarts \/ (\E rules \in RuleLists : BuyPurchases(rules)) \/ BuyResumes \/ BuyFails
  BY <1>9, BuyKeeps
<1>10. CASE Finalize
  BY <1>10, FinalizeKeeps
<1>11. CASE UNCHANGED vars
  BY <1>11 DEF vars, builder, KioskInv, KioskTypes, KioskTypeOK, Here, Positions, Shared, NotSettled,
               SharedByCaller, UsesFollow, SetUpOnce, Overtaken, PersonalCapGivenBack
<1> QED
  BY <1>1, <1>2, <1>3, <1>4, <1>5, <1>6, <1>7, <1>8, <1>9, <1>10, <1>11 DEF Next

(* Every reachable builder: its types, and what it still has to settle.    *)
THEOREM KioskInvariant == KioskSpec => []KioskInv
BY InitKiosk, NextKiosk, PTL DEF KioskSpec

(* The builder always has its types; what is borrowed is borrowed from the *)
(* personal cap at hand.                                                   *)
THEOREM KioskTypesHold == KioskSpec => []KioskTypeOK
<1>1. KioskInv => KioskTypeOK
  BY DEF KioskInv, KioskTypes
<1> QED
  BY <1>1, KioskInvariant, PTL

(* A finalized transaction returns every cap it borrowed, once, behind     *)
(* every command that takes it but the lock of a purchase finalize() has   *)
(* overtaken, and transfers every personal cap it made, once and last.     *)
THEOREM CapGivenBack == KioskSpec => []PersonalCapGivenBack
<1>1. KioskInv => PersonalCapGivenBack
  BY DEF KioskInv
<1> QED
  BY <1>1, KioskInvariant, PTL

(* No kiosk is shared twice unless the caller does it, and finalize()      *)
(* leaves no kiosk unshared that was created.                              *)
THEOREM SharedOnce == KioskSpec => []KioskSharedOnce
<1>1. KioskInv => KioskSharedOnce
  <2> SUFFICES ASSUME KioskInv  PROVE KioskSharedOnce
    OBVIOUS
  <2>1. SharedByCaller /\ SetUpOnce
    BY DEF KioskInv
  <2>2. ASSUME finalized, replaced = 0, NEW k \in Positions("create")  PROVE Shared(k)
    BY <2>1, <2>2 DEF SharedByCaller, SetUpOnce
  <2> QED
    BY <2>1, <2>2 DEF SharedByCaller, KioskSharedOnce, Shared
<1> QED
  BY <1>1, KioskInvariant, PTL
=============================================================================
