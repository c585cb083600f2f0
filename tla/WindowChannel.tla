---------------------------- MODULE WindowChannel ----------------------------
(***************************************************************************)
(* Requests of a dapp to a web wallet in another window, and their answers *)
(* (window-wallet-core: DappPostMessageChannel, WalletPostMessageChannel). *)
(* A channel belongs to one popup and one request.  The dapp opens the     *)
(* popup, sends the request in its URL, and then hears of the outcome in   *)
(* two ways: as a message event, or from a timer that looks once a second  *)
(* whether the popup has been closed.  The two are not ordered: a wallet   *)
(* that answers and closes its window may be found closed first.           *)
(***************************************************************************)
EXTENDS Naturals, Sequences, FiniteSets

CONSTANTS
  Channels,   \* the popups that can be in use at the same time
  Accounts,   \* addresses a wallet may share with the dapp
  AccountLists  \* the orders in which it may list some of them

ChannelAssumption == AccountLists \subseteq Seq(Accounts) /\ <<>> \in AccountLists
ASSUME ChannelAssumption

VARIABLES
  channel,    \* the DappPostMessageChannel, its popup and the wallet's end
  mail        \* message events posted to the dapp and not yet dispatched

\* What a promise is settled with, or a wallet answers: the accounts of the
\* session for "connect", nothing of interest for a signature.
Outcome == [type : {"none", "resolve", "reject"}, data : AccountLists]
Pending == [type |-> "none", data |-> <<>>]
Rejected == [type |-> "reject", data |-> <<>>]

ChannelState ==
  [popup : {"none", "open", "closed"},
   asks : {"nothing", "connect", "sign", "failed"},
   watching : BOOLEAN,       \* #interval is set
   listening : BOOLEAN,      \* #listener is installed
   promise : Outcome,        \* #promise
   answered : Outcome]       \* what WalletPostMessageChannel has sent

Unused == [popup |-> "none", asks |-> "nothing", watching |-> FALSE,
           listening |-> FALSE, promise |-> Pending, answered |-> Pending]

\* new DappPostMessageChannel(): opens the window and starts the timer.
Opened == [Unused EXCEPT !.popup = "open", !.watching = TRUE]

\* send(): installs the listener and navigates the popup to the request.
Sending(ch, what) == [ch EXCEPT !.asks = what, !.listening = TRUE]

Cleanup(ch) == [ch EXCEPT !.watching = FALSE, !.listening = FALSE]

\* #resolve or #reject: a promise keeps the first outcome.
Settle(ch, outcome) ==
  [ch EXCEPT !.promise = IF @ = Pending THEN outcome ELSE @]

\* mutant: the id of the answer is not compared.
HearAny(c, m) ==
  IF channel[c].listening
  THEN Settle(Cleanup(channel[c]), m.payload)
  ELSE channel[c]

\* mutant: the channel is cleaned up before the id of the answer is compared.
HearAfterCleanup(c, m) ==
  IF ~channel[c].listening THEN channel[c]
  ELSE IF m.id = c THEN Settle(Cleanup(channel[c]), m.payload)
  ELSE Cleanup(channel[c])

\* #listener of channel c at message m.
Hear(c, m) ==
  IF channel[c].listening /\ m.id = c
  THEN Settle(Cleanup(channel[c]), m.payload)
  ELSE channel[c]

\* Every channel of the page hears every message.
Dispatch(m) ==
  /\ channel' = [c \in Channels |-> Hear(c, m)]
  /\ mail' = mail \ {m}

\* The timer finds the popup closed.
FindClosed(c) ==
  /\ channel[c].watching
  /\ channel[c].popup = "closed"
  /\ channel' = [channel EXCEPT ![c] = Settle(Cleanup(@), Rejected)]
  /\ UNCHANGED mail

\* The user, or the wallet with close(), closes the window.
PopupCloses(c) ==
  /\ channel[c].popup = "open"
  /\ channel' = [channel EXCEPT ![c].popup = "closed"]
  /\ UNCHANGED mail

\* The wallet answers, once, with sendMessage(payload), or with
\* close(payload), which closes the window right after.
WalletAnswers(c, payload, closes) ==
  /\ channel[c].popup = "open"
  /\ channel[c].asks \in {"connect", "sign"}
  /\ channel[c].answered = Pending
  /\ channel' = [channel EXCEPT ![c].answered = payload,
                   ![c].popup = IF closes THEN "closed" ELSE @]
  /\ mail' = mail \cup {[id |-> c, payload |-> payload]}

\* A channel of the model stands for a new one when nothing of it is left.
Free(c) ==
  /\ channel[c].popup # "open"
  /\ ~channel[c].watching
  /\ channel[c].promise # Pending \/ channel[c].popup = "none"
  /\ \A m \in mail : m.id # c

ChannelTypeOK ==
  /\ channel \in [Channels -> ChannelState]
  /\ mail \subseteq [id : Channels, payload : Outcome]
=============================================================================
