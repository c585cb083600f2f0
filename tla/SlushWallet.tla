----------------------------- MODULE SlushWallet -----------------------------
(***************************************************************************)
(* The Slush web wallet as a dapp sees it (slush-wallet): a wallet object  *)
(* of the page that keeps its session in localStorage, shared with other   *)
(* tabs of the dapp, and asks through one window channel per request.      *)
(***************************************************************************)
EXTENDS WindowChannel

VARIABLES
  session,        \* localStorage: the accounts of the session, <<>> if none
  slushAccounts   \* #accounts of the wallet object of this page

slushVars == <<channel, mail, session, slushAccounts>>

Sessions == AccountLists \ {<<>>}

\* The page has just been loaded: #getPreviouslyAuthorizedAccounts().
SlushLoaded(stored) ==
  /\ channel = [c \in Channels |-> Unused]
  /\ mail = {}
  /\ session = stored
  /\ slushAccounts = stored

\* #connect without silent, up to its await.
AskToConnect(c) ==
  /\ Free(c)
  /\ channel' = [channel EXCEPT ![c] = Sending(Opened, "connect")]
  /\ UNCHANGED <<mail, session, slushAccounts>>

\* #connect once it is answered: the session is stored, then #setAccounts.
Store(accounts) ==
  /\ session' = accounts
  /\ slushAccounts' = accounts

\* getSessionFromStorage() and then send(): without a session, or with a
\* popup that has been closed, the call fails; popup and timer stay.
SendToSign(ch) ==
  IF session = <<>> \/ ch.popup = "closed"
  THEN [ch EXCEPT !.asks = "failed"]
  ELSE Sending(ch, "sign")

\* signPersonalMessage, signTransactionBlock: open and send at once.
SignAtOnce(c) ==
  /\ Free(c)
  /\ channel' = [channel EXCEPT ![c] = SendToSign(Opened)]
  /\ UNCHANGED <<mail, session, slushAccounts>>

\* signTransaction, signAndExecuteTransaction: the popup is opened first...
OpenToSign(c) ==
  /\ Free(c)
  /\ channel' = [channel EXCEPT ![c] = Opened]
  /\ UNCHANGED <<mail, session, slushAccounts>>

\* ... and the request is sent when the transaction has been serialized, or
\* the call fails with it.
SerializedToSign(c, ok) ==
  /\ channel[c].popup # "none"
  /\ channel[c].asks = "nothing"
  /\ channel' = [channel EXCEPT ![c] =
                   IF ok THEN SendToSign(@) ELSE [@ EXCEPT !.asks = "failed"]]
  /\ UNCHANGED <<mail, session, slushAccounts>>

\* #disconnect.
Forget ==
  /\ session' = <<>>
  /\ slushAccounts' = <<>>

\* What the wallet may answer to a request.
Answers(c) ==
  {Rejected} \cup {[type |-> "resolve", data |-> s] :
                     s \in IF channel[c].asks = "connect" THEN Sessions ELSE {<<>>}}

SlushTypeOK ==
  /\ ChannelTypeOK
  /\ session \in AccountLists
  /\ slushAccounts \in AccountLists
=============================================================================
