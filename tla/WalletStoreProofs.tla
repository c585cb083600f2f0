-------------------------- MODULE WalletStoreProofs --------------------------
(***************************************************************************)
(* The wallet store and the popups of the web wallet, for any number of    *)
(* popups at a time, any accounts and any number of events.                *)
(***************************************************************************)
EXTENDS WalletStore, FiniteSetTheorems, SequenceTheorems, TLAPS

(* A channel that listens has sent its request; one that settled before    *)
(* that had its popup closed; and what it settled with is the answer.      *)
Sound(ch) ==
  /\ ch \in ChannelState
  /\ ch.listening => ch.asks \in {"connect", "sign"}
  /\ ch.asks = "nothing" /\ ch.promise # Pending => ch.popup = "closed"
  /\ ch.promise # Pending => ~ch.watching /\ ~ch.listening
  /\ ch.promise.type = "resolve" => ch.promise = ch.answered

(* A message carries the answer of the popup that its id names. *)
Carries(m) ==
  /\ m \in [id : Channels, payload : Outcome]
  /\ m.payload = channel[m.id].answered
  /\ m.payload # Pending

ChannelInv ==
  /\ channel \in [Channels -> ChannelState]
  /\ \A c \in Channels : Sound(channel[c])
  /\ \A m \in mail : Carries(m)

(* A wallet that is being connected is registered, or was seen to leave;   *)
(* the accounts of an extension that was asked are those it has, or were   *)
(* seen to change.                                                         *)
ConnectsFollowed ==
  \A c \in Channels :
    /\ call[c].kind \in {"connecting", "asking"} =>
         /\ call[c].wallet \in Wallets
         /\ call[c].wallet \in store.wallets \/ call[c].left
    /\ call[c].kind = "asking" =>
         /\ call[c].wallet = Extension
         /\ call[c].changed \/ call[c].accounts = extAccounts

ConnectedToWallet == IsConnected => store.current \in Wallets

(* The inductive invariant of the page. *)
WalletInv ==
  /\ WalletTypeOK
  /\ ChannelInv
  /\ ConnectsFollowed
  /\ ConnectedToWallet
  /\ GoneWalletsNotCurrent
  /\ ShownAccounts

----------------------------------------------------------------------------
(* Channels.                                                               *)

(* The outcomes a promise starts with and is rejected with. *)
LEMMA Outcomes ==
  /\ <<>> \in AccountLists
  /\ Pending \in Outcome /\ Rejected \in Outcome /\ Rejected # Pending
  /\ Pending.type = "none" /\ Rejected.type = "reject"
BY ChannelAssumption DEF ChannelAssumption, Outcome, Pending, Rejected

(* A new channel. *)
LEMMA NewChannel ==
  /\ Sound(Unused) /\ Sound(Opened)
  /\ Unused.promise = Pending /\ Opened.promise = Pending /\ Opened.popup = "open"
  /\ Opened.asks = "nothing"
BY Outcomes DEF Sound, Unused, Opened, ChannelState

(* send() on a channel whose promise is pending. *)
LEMMA SendingSound ==
  ASSUME NEW ch, Sound(ch), ch.promise = Pending, NEW what \in {"connect", "sign"}
  PROVE  Sound(Sending(ch, what)) /\ Sending(ch, what).answered = ch.answered
BY Outcomes DEF Sound, Sending, ChannelState

(* send() that fails. *)
LEMMA FailedSound ==
  ASSUME NEW ch, Sound(ch), ch.asks = "nothing"
  PROVE  Sound([ch EXCEPT !.asks = "failed"]) /\ [ch EXCEPT !.asks = "failed"].answered = ch.answered
BY DEF Sound, ChannelState

(* A request to sign is sent, or fails. *)
LEMMA SendToSignSound ==
  ASSUME NEW ch, Sound(ch), ch.asks = "nothing", ch.popup # "none"
  PROVE  Sound(SendToSign(ch)) /\ SendToSign(ch).answered = ch.answered
<1>1. CASE session = <<>> \/ ch.popup = "closed"
  BY <1>1, FailedSound DEF SendToSign
<1>2. CASE ~(session = <<>> \/ ch.popup = "closed")
  <2>1. ch.promise = Pending
    BY <1>2 DEF Sound
  <2> QED
    BY <1>2, <2>1, SendingSound DEF SendToSign
<1> QED
  BY <1>1, <1>2

(* #resolve and #reject. *)
LEMMA SettledSound ==
  ASSUME NEW ch, Sound(ch), NEW outcome \in Outcome,
         outcome.type = "resolve" => outcome = ch.answered,
         ch.asks = "nothing" => ch.popup = "closed"
  PROVE  /\ Sound(Settle(Cleanup(ch), outcome))
         /\ Settle(Cleanup(ch), outcome).answered = ch.answered
<1> DEFINE q == IF ch.promise = Pending THEN outcome ELSE ch.promise
           n == Settle(Cleanup(ch), outcome)
<1>1. ch \in ChannelState /\ q \in Outcome
  BY DEF Sound, ChannelState
<1>2. n = [ch EXCEPT !.watching = FALSE, !.listening = FALSE, !.promise = q]
  BY <1>1 DEF Settle, Cleanup, ChannelState
<1>3. q.type = "resolve" => q = ch.answered
  BY DEF Sound
<1>4. ch.asks = "nothing" => ch.popup = "closed"
  OBVIOUS
<1> HIDE DEF q, n
<1>5. /\ n \in ChannelState /\ n.watching = FALSE /\ n.listening = FALSE /\ n.promise = q
      /\ n.popup = ch.popup /\ n.asks = ch.asks /\ n.answered = ch.answered
  BY <1>1, <1>2 DEF ChannelState
<1>6. Sound(n) /\ n.answered = ch.answered
  BY <1>3, <1>4, <1>5 DEF Sound
<1> QED
  BY <1>6 DEF n

(* A step that changes one channel, and no answer. *)
LEMMA OneChannel ==
  ASSUME ChannelInv, NEW c \in Channels, NEW ch, Sound(ch),
         ch.answered = channel[c].answered \/ \A m \in mail : m.id # c,
         channel' = [channel EXCEPT ![c] = ch], mail' = mail
  PROVE  ChannelInv'
<1>1. /\ channel' \in [Channels -> ChannelState] /\ channel'[c] = ch
      /\ \A d \in Channels : d # c => channel'[d] = channel[d]
  BY DEF ChannelInv, Sound
<1>2. \A d \in Channels : Sound(channel'[d])
  BY <1>1 DEF ChannelInv
<1>3. ASSUME NEW m \in mail
      PROVE  /\ m \in [id : Channels, payload : Outcome]
             /\ m.payload = channel'[m.id].answered /\ m.payload # Pending
  <2>1. Carries(m)
    BY DEF ChannelInv
  <2>2. m.id \in Channels /\ channel'[m.id].answered = channel[m.id].answered
    BY <2>1, <1>1 DEF Carries
  <2> QED
    BY <2>1, <2>2 DEF Carries
<1> QED
  BY <1>1, <1>2, <1>3 DEF ChannelInv, Carries, Sound

(* Opening a popup and sending a request. *)
LEMMA AskingKeeps ==
  ASSUME ChannelInv, NEW c \in Channels,
         \/ AskToConnect(c) \/ SignAtOnce(c) \/ OpenToSign(c)
         \/ \E ok \in BOOLEAN : SerializedToSign(c, ok)
  PROVE  ChannelInv' /\ UNCHANGED <<mail, session, slushAccounts>>
<1>0. UNCHANGED <<mail, session, slushAccounts>>
  BY DEF AskToConnect, SignAtOnce, OpenToSign, SerializedToSign
<1>1. CASE AskToConnect(c)
  <2>1. Sound(Sending(Opened, "connect"))
    BY NewChannel, SendingSound
  <2> QED
    BY <1>1, <2>1, OneChannel DEF AskToConnect, Free
<1>2. CASE SignAtOnce(c)
  <2>1. Sound(SendToSign(Opened))
    BY NewChannel, SendToSignSound
  <2> QED
    BY <1>2, <2>1, OneChannel DEF SignAtOnce, Free
<1>3. CASE OpenToSign(c)
  BY <1>3, NewChannel, OneChannel DEF OpenToSign, Free
<1>4. ASSUME NEW ok \in BOOLEAN, SerializedToSign(c, ok)  PROVE ChannelInv'
  <2> DEFINE ch == IF ok THEN SendToSign(channel[c]) ELSE [channel[c] EXCEPT !.asks = "failed"]
  <2>1. Sound(channel[c]) /\ channel[c].asks = "nothing" /\ channel[c].popup # "none"
    BY <1>4 DEF SerializedToSign, ChannelInv
  <2>2. Sound(ch) /\ ch.answered = channel[c].answered
    BY <2>1, SendToSignSound, FailedSound
  <2>3. channel' = [channel EXCEPT ![c] = ch] /\ mail' = mail
    BY <1>4 DEF SerializedToSign
  <2> HIDE DEF ch
  <2> QED
    BY <2>2, <2>3, OneChannel
<1> QED
  BY <1>0, <1>1, <1>2, <1>3, <1>4

(* The timer finds the popup closed. *)
LEMMA FindClosedKeeps ==
  ASSUME ChannelInv, NEW c \in Channels, FindClosed(c)
  PROVE  ChannelInv'
<1> DEFINE ch == Settle(Cleanup(channel[c]), Rejected)
<1>1. Sound(channel[c]) /\ channel[c].popup = "closed"
  BY DEF FindClosed, ChannelInv
<1>2. Sound(ch) /\ ch.answered = channel[c].answered
  BY <1>1, Outcomes, SettledSound
<1>3. channel' = [channel EXCEPT ![c] = ch] /\ mail' = mail
  BY DEF FindClosed
<1> HIDE DEF ch
<1> QED
  BY <1>2, <1>3, OneChannel

(* A message is shown to every channel, and settles the one it answers. *)
LEMMA DispatchKeeps ==
  ASSUME ChannelInv, NEW m \in mail, Dispatch(m)
  PROVE  ChannelInv'
<1>1. Carries(m) /\ mail' \subseteq mail
  BY DEF ChannelInv, Dispatch
<1>2. ASSUME NEW c \in Channels
      PROVE  Sound(channel'[c]) /\ channel'[c].answered = channel[c].answered
  <2>1. Sound(channel[c]) /\ channel'[c] = Hear(c, m)
    BY DEF Dispatch, ChannelInv
  <2>2. CASE channel[c].listening /\ m.id = c
    <3>1. m.payload \in Outcome /\ m.payload = channel[c].answered /\ channel[c].asks # "nothing"
      BY <1>1, <2>1, <2>2 DEF Carries, Sound
    <3> QED
      BY <2>1, <2>2, <3>1, SettledSound DEF Hear
  <2>3. CASE ~(channel[c].listening /\ m.id = c)
    BY <2>1, <2>3 DEF Hear
  <2> QED
    BY <2>2, <2>3
<1>3. channel' \in [Channels -> ChannelState]
  <2>1. channel' = [c \in Channels |-> Hear(c, m)] /\ \A c \in Channels : channel'[c] \in ChannelState
    BY <1>2 DEF Dispatch, Sound
  <2> QED
    BY <2>1
<1>4. ASSUME NEW x \in mail'
      PROVE  /\ x \in [id : Channels, payload : Outcome]
             /\ x.payload = channel'[x.id].answered /\ x.payload # Pending
  <2>1. Carries(x)
    BY <1>1 DEF ChannelInv
  <2> QED
    BY <2>1, <1>2 DEF Carries
<1> QED
  BY <1>2, <1>3, <1>4 DEF ChannelInv, Carries, Sound

(* The popup answers once, or closes. *)
LEMMA PopupKeeps ==
  ASSUME ChannelInv, NEW c \in Channels,
         PopupCloses(c) \/ \E answer \in Answers(c), closes \in BOOLEAN : WalletAnswers(c, answer, closes)
  PROVE  ChannelInv'
<1>1. CASE PopupCloses(c)
  <2> DEFINE ch == [channel[c] EXCEPT !.popup = "closed"]
  <2>1. Sound(channel[c]) /\ channel' = [channel EXCEPT ![c] = ch] /\ mail' = mail
    BY <1>1 DEF PopupCloses, ChannelInv
  <2>2. Sound(ch) /\ ch.answered = channel[c].answered
    BY <2>1 DEF Sound, ChannelState
  <2> HIDE DEF ch
  <2> QED
    BY <2>1, <2>2, OneChannel
<1>2. ASSUME NEW answer \in Answers(c), NEW closes \in BOOLEAN, WalletAnswers(c, answer, closes)
      PROVE  ChannelInv'
  <2> DEFINE ch == [channel[c] EXCEPT !.answered = answer,
                                      !.popup = IF closes THEN "closed" ELSE channel[c].popup]
  <2>1. /\ Sound(channel[c]) /\ channel[c].answered = Pending
        /\ channel[c].asks \in {"connect", "sign"} /\ channel[c].popup = "open"
        /\ mail' = mail \cup {[id |-> c, payload |-> answer]}
    BY <1>2 DEF WalletAnswers, ChannelInv
  <2>2. channel' = [channel EXCEPT ![c] = ch]
    BY <1>2 DEF WalletAnswers, ChannelInv, ChannelState
  <2>3. answer \in Outcome /\ answer # Pending
    BY Outcomes DEF Answers, Sessions, Outcome, Pending
  <2>4. channel[c].promise.type # "resolve"
    BY <2>1, Outcomes DEF Sound
  <2>5. Sound(ch) /\ ch.answered = answer
    BY <2>1, <2>3, <2>4 DEF Sound, ChannelState
  <2> HIDE DEF ch
  <2>6. /\ channel' \in [Channels -> ChannelState] /\ channel'[c] = ch
        /\ \A d \in Channels : d # c => channel'[d] = channel[d]
    BY <2>2, <2>5 DEF ChannelInv, Sound
  <2>7. ASSUME NEW m \in mail'
        PROVE  /\ m \in [id : Channels, payload : Outcome]
               /\ m.payload = channel'[m.id].answered /\ m.payload # Pending
    <3>1. CASE m \in mail
      <4>1. Carries(m)
        BY <3>1 DEF ChannelInv
      <4>2. m.id # c
        BY <4>1, <2>1 DEF Carries
      <4> QED
        BY <4>1, <4>2, <2>6 DEF Carries
    <3>2. CASE m = [id |-> c, payload |-> answer]
      BY <3>2, <2>3, <2>5, <2>6
    <3> QED
      BY <3>1, <3>2, <2>1
  <2>8. \A d \in Channels : Sound(channel'[d])
    BY <2>5, <2>6 DEF ChannelInv
  <2> QED
    BY <2>6, <2>7, <2>8 DEF ChannelInv, Carries, Sound
<1> QED
  BY <1>1, <1>2

----------------------------------------------------------------------------
(* The store.                                                              *)

Remembered == [wallet : Wallets \cup {NoWallet}, account : Accounts \cup {NoAccount}]

(* What the hooks may show for a list of accounts. *)
Choosable(accounts) == Elements(accounts) \cup (IF accounts = <<>> THEN {NoAccount} ELSE {})

(* The account that is selected is one of the accounts, if there is one.   *)
LEMMA SelectedOf ==
  ASSUME NEW accounts \in AccountLists, NEW wanted
  PROVE  /\ Elements(accounts) \subseteq Accounts
         /\ First(accounts) \in Choosable(accounts)
         /\ Selected(accounts, wanted) \in Choosable(accounts)
         /\ Choosable(accounts) \subseteq Accounts \cup {NoAccount}
<1>1. accounts \in Seq(Accounts)
  BY ChannelAssumption DEF ChannelAssumption
<1>2. Len(accounts) \in Nat /\ \A i \in 1 .. Len(accounts) : accounts[i] \in Accounts
  BY <1>1, LenProperties, ElementOfSeq
<1>3. Elements(accounts) \subseteq Accounts
  BY <1>2 DEF Elements
<1>4. accounts # <<>> => 1 \in 1 .. Len(accounts)
  BY <1>1, <1>2, EmptySeq
<1>5. First(accounts) \in Choosable(accounts)
  BY <1>4 DEF First, Choosable, Elements
<1>6. Selected(accounts, wanted) \in Choosable(accounts)
  BY <1>5 DEF Selected, Choosable
<1> QED
  BY <1>3, <1>5, <1>6 DEF Choosable

(* The actions of the store: setWalletConnected. *)
LEMMA ConnectedStore ==
  ASSUME NEW st \in StoreState, NEW w \in Wallets, NEW accounts \in AccountLists,
         NEW account \in Accounts \cup {NoAccount}
  PROVE  LET n == SetConnected(st, w, accounts, account)
         IN /\ n \in StoreState /\ n.status = "connected" /\ n.current = w
            /\ n.accounts = accounts /\ n.account = account /\ n.wallets = st.wallets
BY DEF SetConnected, StoreState

(* setWalletDisconnected. *)
LEMMA DisconnectedStore ==
  ASSUME NEW st \in StoreState
  PROVE  LET n == SetDisconnected(st)
         IN /\ n \in StoreState /\ n.status = "disconnected" /\ n.current = NoWallet
            /\ n.wallets = st.wallets
BY Outcomes DEF SetDisconnected, StoreState

(* setConnectionStatus. *)
LEMMA StatusStore ==
  ASSUME NEW st \in StoreState, NEW status \in {"connecting", "disconnected"}
  PROVE  LET n == SetStatus(st, status)
         IN /\ n \in StoreState /\ n.status # "connected" /\ n.current = st.current
            /\ n.wallets = st.wallets
BY DEF SetStatus, StoreState

(* setAccountSwitched. *)
LEMMA SwitchedStore ==
  ASSUME NEW st \in StoreState, NEW account \in Accounts
  PROVE  LET n == SetSwitched(st, account)
         IN /\ n \in StoreState /\ n.status = st.status /\ n.current = st.current
            /\ n.wallets = st.wallets /\ n.accounts = st.accounts /\ n.account = account
BY DEF SetSwitched, StoreState

(* updateWalletAccounts. *)
LEMMA UpdatedStore ==
  ASSUME NEW st \in StoreState, NEW accounts \in AccountLists
  PROVE  LET n == UpdateAccounts(st, accounts)
         IN /\ n \in StoreState /\ n.status = st.status /\ n.current = st.current
            /\ n.wallets = st.wallets /\ n.accounts = accounts /\ n.account \in Choosable(accounts)
<1> DEFINE a == IF st.account \in Elements(accounts) THEN st.account ELSE First(accounts)
           n == [st EXCEPT !.accounts = accounts, !.account = a]
<1>1. a \in Choosable(accounts) /\ a \in Accounts \cup {NoAccount}
  BY SelectedOf DEF Choosable
<1>2. UpdateAccounts(st, accounts) = n
  BY DEF UpdateAccounts, StoreState
<1> HIDE DEF a
<1>3. /\ n \in StoreState /\ n.status = st.status /\ n.current = st.current
      /\ n.wallets = st.wallets /\ n.accounts = accounts /\ n.account = a
  BY <1>1 DEF StoreState
<1> QED
  BY <1>1, <1>2, <1>3

(* setWalletUnregistered. *)
LEMMA UnregisteredStore ==
  ASSUME NEW st \in StoreState, NEW ws \in SUBSET Wallets, NEW w \in Wallets
  PROVE  LET n == SetUnregistered(st, ws, w)
         IN /\ n \in StoreState /\ n.wallets = ws
            /\ \/ n.current = NoWallet /\ n.status = "disconnected"
               \/ /\ n.current = st.current /\ n.current # w /\ n.status = st.status
                  /\ n.accounts = st.accounts /\ n.account = st.account
<1>1. CASE st.current = w
  <2> DEFINE d == SetDisconnected(st)
  <2>1. d \in StoreState /\ d.status = "disconnected" /\ d.current = NoWallet
    BY DisconnectedStore
  <2>2. SetUnregistered(st, ws, w) = [d EXCEPT !.wallets = ws]
    BY <1>1 DEF SetUnregistered
  <2> HIDE DEF d
  <2> QED
    BY <2>1, <2>2 DEF StoreState
<1>2. CASE st.current # w
  BY <1>2 DEF SetUnregistered, StoreState
<1> QED
  BY <1>1, <1>2

(* persist() follows. *)
LEMMA Writes ==
  ASSUME NEW st \in StoreState, Write(st)
  PROVE  store' = st /\ saved' \in Remembered
BY DEF Write, StoreState, Remembered

(* The page as it is before a step. *)
LEMMA PageTypes ==
  ASSUME WalletInv
  PROVE  /\ store \in StoreState /\ saved \in Remembered /\ call \in [Channels -> Call]
         /\ extAccounts \in AccountLists /\ session \in AccountLists /\ slushAccounts \in AccountLists
         /\ checking \in BOOLEAN /\ source \in Sources /\ orphan \in BOOLEAN
         /\ store.wallets \in SUBSET Wallets /\ store.current \in Wallets \cup {NoWallet}
         /\ Slush # Extension /\ NoWallet \notin Wallets /\ Wallets = {Slush, Extension}
BY WalletStoreAssumption DEF WalletInv, WalletTypeOK, SlushTypeOK, Remembered, StoreState,
                             WalletStoreAssumption, Wallets

(* The number of wallets in a query key. *)
LEMMA KeyCounts ==
  ASSUME WalletInv
  PROVE  Key.count \in 0 .. (Cardinality(Wallets) + 1) /\ NoKey.count \in 0 .. (Cardinality(Wallets) + 1)
<1>1. IsFiniteSet(Wallets)
  <2>1. IsFiniteSet({Slush}) /\ Wallets = {Slush} \cup {Extension}
    BY FS_Singleton DEF Wallets
  <2> QED
    BY <2>1, FS_AddElement
<1>2. store.wallets \subseteq Wallets
  BY PageTypes
<1>3. Cardinality(store.wallets) \in Nat /\ Cardinality(Wallets) \in Nat
      /\ Cardinality(store.wallets) <= Cardinality(Wallets)
  BY <1>1, <1>2, FS_Subset, FS_CardinalityType
<1> QED
  BY <1>3 DEF Key, NoKey

(* The types after a step. *)
LEMMA TypesAfter ==
  ASSUME WalletInv, ChannelInv',
         session' \in AccountLists, slushAccounts' \in AccountLists,
         store' \in StoreState, saved' \in Remembered, call' \in [Channels -> Call],
         extAccounts' \in AccountLists,
         attempted' \in {attempted, Key, NoKey},
         checking' \in BOOLEAN, source' \in Sources, orphan' \in BOOLEAN
  PROVE  WalletTypeOK'
<1>1. ChannelTypeOK'
  BY DEF ChannelInv, ChannelTypeOK, Carries
<1>2. attempted'.count \in 0 .. (Cardinality(Wallets) + 1)
  BY KeyCounts DEF WalletInv, WalletTypeOK
<1> QED
  BY <1>1, <1>2 DEF WalletTypeOK, SlushTypeOK, Remembered, StoreState, Call, Wallets

(* A channel is left alone. *)
LEMMA ChannelsKept ==
  ASSUME ChannelInv, UNCHANGED <<channel, mail>>
  PROVE  ChannelInv'
BY DEF ChannelInv, Carries, Sound

(* The accounts a wallet shares, and what the store shows of them. *)
SharedBy(w, slush, ext) == IF w = Slush THEN slush ELSE ext

Shows(st, from, shared) ==
  /\ st.accounts = IF from = "connect" THEN OfRtd(st.current, shared) ELSE shared
  /\ st.account \in Choosable(st.accounts) \cup Elements(shared)

(* ShownAccounts after a step, in terms of the store. *)
LEMMA ShownAfter ==
  ASSUME store'.status = "connected" /\ source' # "stale" =>
           Shows(store', source', SharedBy(store'.current, slushAccounts', extAccounts'))
  PROVE  ShownAccounts'
BY DEF ShownAccounts, IsConnected, AccountsOf, Choosable, Shows, SharedBy

(* ShownAccounts before it. *)
LEMMA ShownBefore ==
  ASSUME WalletInv, store.status = "connected", source # "stale"
  PROVE  Shows(store, source, SharedBy(store.current, slushAccounts, extAccounts))
BY DEF WalletInv, ShownAccounts, IsConnected, AccountsOf, Choosable, Shows, SharedBy

(* Steps that leave wallets, calls and the store's connection alone.       *)
LEMMA ConnectionKept ==
  ASSUME WalletInv, UNCHANGED <<store, call, extAccounts, slushAccounts, source, orphan>>
  PROVE  ConnectsFollowed' /\ ConnectedToWallet' /\ GoneWalletsNotCurrent' /\ ShownAccounts'
BY DEF WalletInv, ConnectsFollowed, ConnectedToWallet, GoneWalletsNotCurrent, ShownAccounts,
       IsConnected, AccountsOf, Wallets

(* Calls stay as they are, or are idle.                                    *)
LEMMA ConnectsKept ==
  ASSUME WalletInv, call' \in [Channels -> Call],
         \A c \in Channels : call'[c] = call[c] \/ call'[c].kind \notin {"connecting", "asking"},
         store'.wallets = store.wallets, extAccounts' = extAccounts
  PROVE  ConnectsFollowed'
BY DEF WalletInv, ConnectsFollowed, Wallets

----------------------------------------------------------------------------
(* The page.                                                               *)

(* A step that may change channels only. *)
LEMMA ChannelStepKeeps ==
  ASSUME WalletInv, ChannelInv', UNCHANGED <<session, slushAccounts, pageVars, extAccounts>>
  PROVE  WalletInv'
<1>1. UNCHANGED <<store, saved, call, attempted, checking, source, orphan>>
  BY DEF pageVars
<1>2. WalletTypeOK'
  BY <1>1, PageTypes, TypesAfter
<1>3. ConnectsFollowed' /\ ConnectedToWallet' /\ GoneWalletsNotCurrent' /\ ShownAccounts'
  BY <1>1, ConnectionKept
<1> QED
  BY <1>2, <1>3 DEF WalletInv

(* Requests to sign, and what happens in a popup. *)
LEMMA SignKeeps ==
  ASSUME WalletInv, NEW c \in Channels,
         Sign(c) \/ (\E ok \in BOOLEAN : Serialized(c, ok)) \/ Popup(c)
  PROVE  WalletInv'
<1>1. ChannelInv
  BY DEF WalletInv
<1>2. CASE Sign(c)
  BY <1>1, <1>2, AskingKeeps, ChannelStepKeeps DEF Sign
<1>3. CASE \E ok \in BOOLEAN : Serialized(c, ok)
  <2>1. (\E ok \in BOOLEAN : SerializedToSign(c, ok)) /\ UNCHANGED <<pageVars, extAccounts>>
    BY <1>3 DEF Serialized
  <2> QED
    BY <1>1, <2>1, AskingKeeps, ChannelStepKeeps
<1>4. CASE Popup(c)
  <2>1. ChannelInv' /\ UNCHANGED <<session, slushAccounts, pageVars, extAccounts>>
    BY <1>1, <1>4, PopupKeeps DEF Popup
  <2> QED
    BY <2>1, ChannelStepKeeps
<1> QED
  BY <1>2, <1>3, <1>4

(* A page that was loaded shows nothing. *)
LEMMA LoadedStore ==
  ASSUME NEW w \in Wallets, NEW remembered \in Remembered
  PROVE  LET st == Fresh({w}, remembered)
         IN st \in StoreState /\ st.status = "disconnected" /\ st.current = NoWallet
BY Outcomes DEF Fresh, StoreState, Remembered

(* No call is under way. *)
LEMMA IdleTyped == Idle \in Call /\ Idle.kind = "idle"
BY Outcomes DEF Idle, Call

(* The page is loaded again. *)
LEMMA ReloadKeeps ==
  ASSUME WalletInv, Reload
  PROVE  WalletInv'
<1>1. PICK w \in Wallets : store' = Fresh({w}, saved) /\ checking' = (w = Slush)
  BY DEF Reload
<1>2. /\ channel' = [c \in Channels |-> Unused] /\ mail' = {} /\ slushAccounts' = session
      /\ call' = [c \in Channels |-> Idle] /\ attempted' = NoKey /\ source' = "connect" /\ orphan' = FALSE
      /\ UNCHANGED <<session, saved, extAccounts>>
  BY DEF Reload
<1>3. store' \in StoreState /\ store'.status = "disconnected" /\ store'.current = NoWallet
  BY <1>1, PageTypes, LoadedStore
<1>4. ChannelInv'
  <2>1. channel' \in [Channels -> ChannelState] /\ \A c \in Channels : Sound(channel'[c])
    <3>1. Unused \in ChannelState
      BY NewChannel DEF Sound
    <3> QED
      BY <3>1, <1>2, NewChannel
  <2> QED
    BY <2>1, <1>2 DEF ChannelInv, Sound
<1>5. call' \in [Channels -> Call] /\ checking' \in BOOLEAN
  BY <1>1, <1>2, IdleTyped
<1>6. WalletTypeOK'
  BY <1>2, <1>3, <1>4, <1>5, PageTypes, TypesAfter DEF Sources
<1>7. ConnectsFollowed'
  BY <1>2, IdleTyped DEF ConnectsFollowed
<1>8. ConnectedToWallet' /\ GoneWalletsNotCurrent'
  BY <1>3 DEF ConnectedToWallet, GoneWalletsNotCurrent, IsConnected
<1>9. ShownAccounts'
  BY <1>3, ShownAfter
<1> QED
  BY <1>4, <1>6, <1>7, <1>8, <1>9 DEF WalletInv

(* Another tab changes what is stored. *)
LEMMA OtherTabKeeps ==
  ASSUME WalletInv, OtherTab
  PROVE  WalletInv'
<1>1. PICK s \in AccountLists :
        session' = s /\ saved' = IF s = <<>> THEN Nothing ELSE [wallet |-> Slush, account |-> s[1]]
  BY DEF OtherTab
<1>2. UNCHANGED <<channel, mail, slushAccounts, store, call, extAccounts, attempted, checking, source, orphan>>
  BY DEF OtherTab
<1>3. saved' \in Remembered
  <2>1. First(s) \in Accounts \cup {NoAccount}
    BY SelectedOf
  <2> QED
    BY <1>1, <2>1 DEF First, Remembered, Nothing, Wallets
<1>4. ChannelInv'
  BY <1>2, ChannelsKept DEF WalletInv
<1>5. WalletTypeOK'
  BY <1>1, <1>2, <1>3, <1>4, PageTypes, TypesAfter
<1>6. ConnectsFollowed' /\ ConnectedToWallet' /\ GoneWalletsNotCurrent' /\ ShownAccounts'
  BY <1>2, ConnectionKept
<1> QED
  BY <1>4, <1>5, <1>6 DEF WalletInv

(* A call that starts to connect to a registered wallet. *)
LEMMA StartsConnecting ==
  ASSUME WalletInv, NEW c \in Channels, NEW w \in store.wallets,
         NEW account \in Accounts \cup {NoAccount},
         call' = [call EXCEPT ![c] = Connecting(w, account)],
         store'.wallets = store.wallets, extAccounts' = extAccounts
  PROVE  call' \in [Channels -> Call] /\ ConnectsFollowed'
<1> DEFINE n == Connecting(w, account)
<1>1. w \in Wallets /\ call \in [Channels -> Call]
  BY PageTypes
<1>2. n \in Call /\ n.kind = "connecting" /\ n.wallet = w
  BY <1>1, Outcomes DEF Connecting, Idle, Call
<1>0. call' = [call EXCEPT ![c] = n]
  OBVIOUS
<1> HIDE DEF n
<1>3. /\ call' \in [Channels -> Call] /\ call'[c] = n
      /\ \A d \in Channels : d # c => call'[d] = call[d]
  BY <1>0, <1>1, <1>2
<1>4. ConnectsFollowed'
  <2> SUFFICES ASSUME NEW d \in Channels
               PROVE  /\ call'[d].kind \in {"connecting", "asking"} =>
                           /\ call'[d].wallet \in Wallets
                           /\ call'[d].wallet \in store'.wallets \/ call'[d].left
                      /\ call'[d].kind = "asking" =>
                           /\ call'[d].wallet = Extension
                           /\ call'[d].changed \/ call'[d].accounts = extAccounts'
    BY DEF ConnectsFollowed, Wallets
  <2>1. CASE d = c
    BY <2>1, <1>1, <1>2, <1>3
  <2>2. CASE d # c
    BY <2>2, <1>3 DEF WalletInv, ConnectsFollowed
  <2> QED
    BY <2>1, <2>2
<1> QED
  BY <1>3, <1>4

(* The store is waiting, or shows no wallet, after a step. *)
LEMMA NotConnected ==
  ASSUME WalletInv, store'.status # "connected", store'.wallets = store.wallets,
         store'.current = NoWallet \/ (store'.current = store.current /\ orphan' = orphan)
  PROVE  ConnectedToWallet' /\ GoneWalletsNotCurrent' /\ ShownAccounts'
<1>1. ShownAccounts'
  BY ShownAfter
<1> QED
  BY <1>1 DEF WalletInv, ConnectedToWallet, IsConnected, GoneWalletsNotCurrent

(* useConnectWallet begins. *)
LEMMA ConnectKeeps ==
  ASSUME WalletInv, NEW c \in Channels, NEW w \in Wallets, Connect(c, w)
  PROVE  WalletInv'
<1>1. /\ w \in store.wallets /\ Write(SetStatus(store, "connecting"))
      /\ call' = [call EXCEPT ![c] = Connecting(w, NoAccount)]
      /\ IF w = Slush THEN AskToConnect(c) ELSE UNCHANGED slushVars
      /\ UNCHANGED <<extAccounts, attempted, checking, source, orphan>>
  BY DEF Connect
<1>2. ChannelInv' /\ UNCHANGED <<session, slushAccounts>>
  <2>1. ChannelInv
    BY DEF WalletInv
  <2> QED
    BY <2>1, <1>1, AskingKeeps, ChannelsKept DEF slushVars
<1>3. /\ store' \in StoreState /\ store'.status # "connected" /\ store'.current = store.current
      /\ store'.wallets = store.wallets /\ saved' \in Remembered
  BY <1>1, PageTypes, StatusStore, Writes
<1>4. call' \in [Channels -> Call] /\ ConnectsFollowed'
  BY <1>1, <1>3, StartsConnecting
<1>5. WalletTypeOK'
  BY <1>1, <1>2, <1>3, <1>4, PageTypes, TypesAfter
<1>6. ConnectedToWallet' /\ GoneWalletsNotCurrent' /\ ShownAccounts'
  BY <1>1, <1>3, NotConnected
<1> QED
  BY <1>2, <1>4, <1>5, <1>6 DEF WalletInv

(* The popup is blocked. *)
LEMMA ConnectBlockedKeeps ==
  ASSUME WalletInv, ConnectBlocked
  PROVE  WalletInv'
<1>1. /\ Write(SetStatus(store, "disconnected"))
      /\ UNCHANGED <<channel, mail, session, slushAccounts, call, extAccounts, attempted, checking,
                     source, orphan>>
  BY DEF ConnectBlocked, slushVars
<1>2. ChannelInv'
  BY <1>1, ChannelsKept DEF WalletInv
<1>3. /\ store' \in StoreState /\ store'.status # "connected" /\ store'.current = store.current
      /\ store'.wallets = store.wallets /\ saved' \in Remembered
  BY <1>1, PageTypes, StatusStore, Writes
<1>4. WalletTypeOK'
  BY <1>1, <1>2, <1>3, PageTypes, TypesAfter
<1>5. ConnectsFollowed'
  BY <1>1, <1>3, PageTypes, ConnectsKept
<1>6. ConnectedToWallet' /\ GoneWalletsNotCurrent' /\ ShownAccounts'
  BY <1>1, <1>3, NotConnected
<1> QED
  BY <1>2, <1>4, <1>5, <1>6 DEF WalletInv

(* The effect of a render reconnects to the remembered wallet. *)
LEMMA AutoConnectKeeps ==
  ASSUME WalletInv, AutoConnect
  PROVE  WalletInv'
<1>1. attempted' = Key /\ UNCHANGED <<channel, mail, session, slushAccounts, extAccounts, checking>>
  BY DEF AutoConnect, slushVars
<1>2. ChannelInv'
  BY <1>1, ChannelsKept DEF WalletInv
<1> DEFINE w == store.lastWallet
           a == store.lastAccount
<1>3. CASE UNCHANGED <<store, saved, call, source, orphan>>
  <2>1. WalletTypeOK'
    BY <1>1, <1>2, <1>3, PageTypes, TypesAfter
  <2>2. ConnectsFollowed' /\ ConnectedToWallet' /\ GoneWalletsNotCurrent' /\ ShownAccounts'
    BY <1>1, <1>3, ConnectionKept
  <2> QED
    BY <1>2, <2>1, <2>2 DEF WalletInv
<1>4. CASE /\ w = Slush /\ w \in store.wallets
           /\ Write(SetConnected(store, Slush, slushAccounts, Selected(slushAccounts, a)))
           /\ source' = "connect" /\ orphan' = FALSE /\ UNCHANGED call
  <2> DEFINE b == Selected(slushAccounts, a)
  <2>1. b \in Choosable(slushAccounts) /\ b \in Accounts \cup {NoAccount} /\ Slush \in Wallets
    BY PageTypes, SelectedOf
  <2>2. /\ store' = SetConnected(store, Slush, slushAccounts, b) /\ saved' \in Remembered
        /\ store' \in StoreState /\ store'.current = Slush /\ store'.accounts = slushAccounts
        /\ store'.account = b /\ store'.wallets = store.wallets
    <3> HIDE DEF b
    <3> DEFINE n == SetConnected(store, Slush, slushAccounts, b)
    <3>1. /\ n \in StoreState /\ n.current = Slush /\ n.accounts = slushAccounts
          /\ n.account = b /\ n.wallets = store.wallets
      BY <2>1, PageTypes, ConnectedStore
    <3>2. Write(n)
      BY <1>4 DEF b
    <3> HIDE DEF n
    <3>3. store' = n /\ saved' \in Remembered
      BY <3>1, <3>2, Writes
    <3> QED
      BY <3>1, <3>3 DEF n
  <2>3. WalletTypeOK'
    BY <1>1, <1>2, <1>4, <2>2, PageTypes, TypesAfter DEF Sources
  <2>4. ConnectsFollowed'
    BY <1>1, <1>4, <2>2, PageTypes, ConnectsKept
  <2>5. ConnectedToWallet' /\ GoneWalletsNotCurrent'
    BY <1>4, <2>2 DEF ConnectedToWallet, GoneWalletsNotCurrent, Wallets
  <2>6. ShownAccounts'
    <3>1. Shows(store', source', slushAccounts')
      BY <1>1, <1>4, <2>1, <2>2 DEF Shows, OfRtd
    <3> QED
      BY <2>2, <3>1, ShownAfter DEF SharedBy
  <2> QED
    BY <1>2, <2>3, <2>4, <2>5, <2>6 DEF WalletInv
<1>5. CASE /\ w \in store.wallets
           /\ Write(SetStatus(store, "connecting"))
           /\ \/ call' = call
              \/ \E c \in Channels : call' = [call EXCEPT ![c] = Connecting(w, a)]
           /\ UNCHANGED <<source, orphan>>
  <2>1. /\ store' \in StoreState /\ store'.status # "connected" /\ store'.current = store.current
        /\ store'.wallets = store.wallets /\ saved' \in Remembered
    BY <1>5, PageTypes, StatusStore, Writes
  <2>2. call' \in [Channels -> Call] /\ ConnectsFollowed'
    <3>1. CASE call' = call
      BY <3>1, <1>1, <2>1, PageTypes, ConnectsKept
    <3>2. ASSUME NEW c \in Channels, call' = [call EXCEPT ![c] = Connecting(w, a)]
          PROVE  call' \in [Channels -> Call] /\ ConnectsFollowed'
      <4>1. a \in Accounts \cup {NoAccount}
        BY PageTypes DEF StoreState
      <4> QED
        BY <3>2, <4>1, <1>1, <1>5, <2>1, StartsConnecting
    <3> QED
      BY <3>1, <3>2, <1>5
  <2>3. WalletTypeOK'
    BY <1>1, <1>2, <1>5, <2>1, <2>2, PageTypes, TypesAfter
  <2>4. ConnectedToWallet' /\ GoneWalletsNotCurrent' /\ ShownAccounts'
    BY <1>5, <2>1, NotConnected
  <2> QED
    BY <1>2, <2>2, <2>3, <2>4 DEF WalletInv
<1>6. \/ UNCHANGED <<store, saved, call, source, orphan>>
      \/ /\ w = Slush /\ w \in store.wallets
         /\ Write(SetConnected(store, Slush, slushAccounts, Selected(slushAccounts, a)))
         /\ source' = "connect" /\ orphan' = FALSE /\ UNCHANGED call
      \/ /\ w \in store.wallets
         /\ Write(SetStatus(store, "connecting"))
         /\ \/ call' = call
            \/ \E c \in Channels : call' = [call EXCEPT ![c] = Connecting(w, a)]
         /\ UNCHANGED <<source, orphan>>
  <2>2. (\E c \in Channels : FreeCall(c)) => (CHOOSE c \in Channels : FreeCall(c)) \in Channels
    OBVIOUS
  <2>3. CASE ~AutoConnectEnabled \/ IsConnected \/ w \notin store.wallets \/ store.lastAccount = NoAccount
    BY <2>3 DEF AutoConnect
  <2>4. CASE ~(~AutoConnectEnabled \/ IsConnected \/ w \notin store.wallets \/ store.lastAccount = NoAccount) /\ w = Slush
    BY <2>4 DEF AutoConnect
  <2>5. CASE ~(~AutoConnectEnabled \/ IsConnected \/ w \notin store.wallets \/ store.lastAccount = NoAccount) /\ w # Slush
    <3>1. /\ Write(SetStatus(store, "connecting"))
          /\ call' = IF \E c \in Channels : FreeCall(c)
                     THEN LET c == CHOOSE c \in Channels : FreeCall(c)
                          IN [call EXCEPT ![c] = Connecting(w, a)]
                     ELSE call
          /\ UNCHANGED <<source, orphan>>
      BY <2>5 DEF AutoConnect
    <3> QED
      BY <2>2, <2>5, <3>1
  <2> QED
    BY <2>3, <2>4, <2>5
<1> QED
  BY <1>3, <1>4, <1>5, <1>6

(* A call ends, with a wallet connected or not; what it connects with is   *)
(* what the wallet has, or a change was seen.                              *)
LEMMA FinishKeeps ==
  ASSUME WalletInv, NEW c \in Channels, NEW ok \in BOOLEAN, NEW accounts \in AccountLists,
         Finish(c, ok, accounts), extAccounts' = extAccounts,
         call[c].kind \in {"connecting", "asking"},
         ok => \/ call[c].changed
               \/ accounts = (IF call[c].wallet = Slush THEN slushAccounts' ELSE extAccounts')
  PROVE  /\ store' \in StoreState /\ saved' \in Remembered /\ call' \in [Channels -> Call]
         /\ source' \in Sources /\ orphan' \in BOOLEAN
         /\ ConnectsFollowed' /\ ConnectedToWallet' /\ GoneWalletsNotCurrent' /\ ShownAccounts'
<1>1. /\ call \in [Channels -> Call] /\ store \in StoreState /\ source \in Sources /\ orphan \in BOOLEAN
      /\ call[c].wallet \in Wallets
      /\ call[c].wallet \in store.wallets \/ call[c].left
      /\ call[c] \in Call
  BY PageTypes DEF WalletInv, ConnectsFollowed
<1>2. call[c].changed \in BOOLEAN /\ call[c].left \in BOOLEAN
  BY <1>1 DEF Call
<1>3. /\ call' \in [Channels -> Call]
      /\ \A d \in Channels : call'[d] = call[d] \/ call'[d].kind \notin {"connecting", "asking"}
  <2>1. call' = [call EXCEPT ![c] = Idle]
    BY DEF Finish
  <2> QED
    BY <2>1, <1>1, IdleTyped
<1>4. CASE ok
  <2> DEFINE b == OfRtd(call[c].wallet, accounts)
             a == Selected(b, call[c].wanted)
             n == SetConnected(store, call[c].wallet, b, a)
  <2>0. b \in AccountLists
    BY <1>1, WalletStoreAssumption DEF WalletStoreAssumption, OfRtd, Wallets
  <2>3. /\ Write(n) /\ orphan' = call[c].left
        /\ source' = IF call[c].changed THEN "stale" ELSE "connect"
    BY <1>4 DEF Finish
  <2> HIDE DEF b
  <2>1. a \in Choosable(b) /\ a \in Accounts \cup {NoAccount}
    BY <2>0, SelectedOf
  <2> HIDE DEF a
  <2>2. /\ n \in StoreState /\ n.current = call[c].wallet
        /\ n.accounts = b /\ n.account = a /\ n.wallets = store.wallets
    BY <1>1, <2>0, <2>1, ConnectedStore
  <2> HIDE DEF n
  <2>4. store' = n /\ saved' \in Remembered
    BY <2>2, <2>3, Writes
  <2>5. ConnectsFollowed'
    BY <1>3, <2>2, <2>4, ConnectsKept
  <2>6. ConnectedToWallet' /\ GoneWalletsNotCurrent'
    BY <1>1, <2>2, <2>3, <2>4 DEF ConnectedToWallet, GoneWalletsNotCurrent, Wallets
  <2>7. ShownAccounts'
    <3> SUFFICES ASSUME source' # "stale"
                 PROVE  Shows(store', source', SharedBy(store'.current, slushAccounts', extAccounts'))
      BY ShownAfter
    <3>1. accounts = SharedBy(store'.current, slushAccounts', extAccounts') /\ source' = "connect"
      BY <1>4, <2>2, <2>3, <2>4 DEF SharedBy
    <3>2. Shows(store', source', accounts)
      BY <3>1, <2>1, <2>2, <2>4 DEF Shows, b
    <3> QED
      BY <3>1, <3>2
  <2> QED
    BY <1>2, <1>3, <2>2, <2>3, <2>4, <2>5, <2>6, <2>7 DEF Sources
<1>5. CASE ~ok
  <2>1. Write(SetStatus(store, "disconnected")) /\ UNCHANGED <<source, orphan>>
    BY <1>5 DEF Finish
  <2>2. /\ store' \in StoreState /\ store'.status # "connected" /\ store'.current = store.current
        /\ store'.wallets = store.wallets /\ saved' \in Remembered
    BY <1>1, <2>1, StatusStore, Writes
  <2>3. ConnectsFollowed'
    BY <1>3, <2>2, ConnectsKept
  <2>4. ConnectedToWallet' /\ GoneWalletsNotCurrent' /\ ShownAccounts'
    BY <2>1, <2>2, NotConnected
  <2> QED
    BY <1>1, <1>3, <2>1, <2>2, <2>3, <2>4
<1> QED
  BY <1>4, <1>5

(* A popup answers, or is found closed: the connect it belongs to ends.    *)
LEMMA ContinueKeeps ==
  ASSUME WalletInv, ChannelInv', Continue, UNCHANGED <<extAccounts, attempted, checking>>
  PROVE  WalletInv'
<1> DEFINE settled == {c \in Channels : /\ channel[c].promise = Pending
                                        /\ channel'[c].promise # Pending
                                        /\ call[c].kind = "connecting"
                                        /\ call[c].wallet = Slush}
<1>1. CASE UNCHANGED <<store, saved, call, source, orphan, session, slushAccounts>>
  <2>1. WalletTypeOK'
    BY <1>1, PageTypes, TypesAfter
  <2>2. ConnectsFollowed' /\ ConnectedToWallet' /\ GoneWalletsNotCurrent' /\ ShownAccounts'
    BY <1>1, ConnectionKept
  <2> QED
    BY <2>1, <2>2 DEF WalletInv
<1>2. ASSUME NEW c \in settled,
             IF channel'[c].promise.type = "resolve" THEN Store(channel'[c].promise.data)
             ELSE UNCHANGED <<session, slushAccounts>>,
             Finish(c, channel'[c].promise.type = "resolve", channel'[c].promise.data)
      PROVE  WalletInv'
  <2> DEFINE ok == channel'[c].promise.type = "resolve"
             accounts == channel'[c].promise.data
  <2>1. accounts \in AccountLists
    BY DEF ChannelInv, ChannelState, Outcome
  <2>2. ok \in BOOLEAN /\ call[c].kind = "connecting" /\ call[c].wallet = Slush /\ c \in Channels
    OBVIOUS
  <2>3. /\ session' \in AccountLists /\ slushAccounts' \in AccountLists
        /\ ok => slushAccounts' = accounts
    BY <1>2, <2>1, PageTypes DEF Store
  <2>4. Finish(c, ok, accounts)
    BY <1>2
  <2> HIDE DEF ok, accounts
  <2>5. /\ store' \in StoreState /\ saved' \in Remembered /\ call' \in [Channels -> Call]
        /\ source' \in Sources /\ orphan' \in BOOLEAN
        /\ ConnectsFollowed' /\ ConnectedToWallet' /\ GoneWalletsNotCurrent' /\ ShownAccounts'
    BY <2>1, <2>2, <2>3, <2>4, FinishKeeps
  <2>6. WalletTypeOK'
    BY <2>3, <2>5, PageTypes, TypesAfter
  <2> QED
    BY <2>5, <2>6 DEF WalletInv
<1>3. \/ UNCHANGED <<store, saved, call, source, orphan, session, slushAccounts>>
      \/ \E c \in settled :
           /\ IF channel'[c].promise.type = "resolve" THEN Store(channel'[c].promise.data)
              ELSE UNCHANGED <<session, slushAccounts>>
           /\ Finish(c, channel'[c].promise.type = "resolve", channel'[c].promise.data)
  BY DEF Continue
<1> QED
  BY <1>1, <1>2, <1>3

(* Message events and timers. *)
LEMMA DeliverKeeps ==
  ASSUME WalletInv, (\E m \in mail : Deliver(m)) \/ (\E c \in Channels : Tick(c))
  PROVE  WalletInv'
<1>1. ChannelInv
  BY DEF WalletInv
<1>2. ASSUME NEW m \in mail, Deliver(m)  PROVE WalletInv'
  <2>1. Dispatch(m) /\ Continue /\ UNCHANGED <<extAccounts, attempted, checking>>
    BY <1>2 DEF Deliver
  <2> QED
    BY <1>1, <2>1, DispatchKeeps, ContinueKeeps
<1>3. ASSUME NEW c \in Channels, Tick(c)  PROVE WalletInv'
  <2>1. FindClosed(c) /\ Continue /\ UNCHANGED <<extAccounts, attempted, checking>>
    BY <1>3 DEF Tick
  <2> QED
    BY <1>1, <2>1, FindClosedKeeps, ContinueKeeps
<1> QED
  BY <1>2, <1>3

(* useSwitchAccount. *)
LEMMA SwitchKeeps ==
  ASSUME WalletInv, NEW a \in Accounts, Switch(a)
  PROVE  WalletInv'
<1>1. /\ IsConnected /\ a \in Elements(AccountsOf(store.current)) /\ Write(SetSwitched(store, a))
      /\ UNCHANGED <<channel, mail, session, slushAccounts, call, extAccounts, attempted, checking,
                     source, orphan>>
  BY DEF Switch, slushVars
<1>2. ChannelInv'
  BY <1>1, ChannelsKept DEF WalletInv
<1>3. /\ store' \in StoreState /\ store'.status = store.status /\ store'.current = store.current
      /\ store'.wallets = store.wallets /\ store'.accounts = store.accounts /\ store'.account = a
      /\ saved' \in Remembered
  BY <1>1, PageTypes, SwitchedStore, Writes
<1>4. WalletTypeOK'
  BY <1>1, <1>2, <1>3, PageTypes, TypesAfter
<1>5. ConnectsFollowed'
  BY <1>1, <1>3, PageTypes, ConnectsKept
<1>6. ConnectedToWallet' /\ GoneWalletsNotCurrent'
  BY <1>1, <1>3 DEF WalletInv, ConnectedToWallet, GoneWalletsNotCurrent, IsConnected, Wallets
<1>7. ShownAccounts'
  <2> SUFFICES ASSUME source # "stale"
               PROVE  Shows(store', source, SharedBy(store.current, slushAccounts, extAccounts))
    BY <1>1, <1>3, ShownAfter
  <2>1. Shows(store, source, SharedBy(store.current, slushAccounts, extAccounts))
    BY <1>1, ShownBefore DEF IsConnected
  <2>2. a \in Elements(SharedBy(store.current, slushAccounts, extAccounts))
    BY <1>1 DEF AccountsOf, SharedBy
  <2> QED
    BY <1>3, <2>1, <2>2 DEF Shows
<1> QED
  BY <1>2, <1>4, <1>5, <1>6, <1>7 DEF WalletInv

(* useDisconnectWallet, for either wallet. *)
LEMMA DisconnectKeeps ==
  ASSUME WalletInv, NEW c \in Channels, Disconnect(c) \/ ExtDisconnects(c)
  PROVE  WalletInv'
<1>1. UNCHANGED <<channel, mail, extAccounts, attempted, checking, source, orphan>>
  BY DEF Disconnect, ExtDisconnects, slushVars
<1>2. ChannelInv'
  BY <1>1, ChannelsKept DEF WalletInv
<1> DEFINE asked == [Idle EXCEPT !.kind = "disconnecting", !.wallet = Extension]
<1>3. asked \in Call /\ asked.kind = "disconnecting"
  BY IdleTyped DEF Call, Wallets
<1> HIDE DEF asked
<1>4. /\ call' \in [Channels -> Call]
      /\ \A d \in Channels : call'[d] = call[d] \/ call'[d].kind \notin {"connecting", "asking"}
  <2>1. call' = call \/ call' = [call EXCEPT ![c] = asked] \/ call' = [call EXCEPT ![c] = Idle]
    BY DEF Disconnect, ExtDisconnects, asked
  <2> QED
    BY <2>1, <1>3, PageTypes, IdleTyped
<1>5. session' \in AccountLists /\ slushAccounts' \in AccountLists
  BY PageTypes, Outcomes DEF Disconnect, ExtDisconnects, Forget, slushVars
<1>6. CASE Write(SetDisconnected(store))
  <2>1. /\ store' \in StoreState /\ store'.status # "connected" /\ store'.current = NoWallet
        /\ store'.wallets = store.wallets /\ saved' \in Remembered
    BY <1>6, PageTypes, DisconnectedStore, Writes
  <2>2. WalletTypeOK'
    BY <1>1, <1>2, <1>4, <1>5, <2>1, PageTypes, TypesAfter
  <2>3. ConnectsFollowed'
    BY <1>1, <1>4, <2>1, ConnectsKept
  <2>4. ConnectedToWallet' /\ GoneWalletsNotCurrent' /\ ShownAccounts'
    BY <2>1, NotConnected
  <2> QED
    BY <1>2, <2>2, <2>3, <2>4 DEF WalletInv
<1>7. CASE UNCHANGED <<store, saved, slushAccounts>>
  <2>1. WalletTypeOK'
    BY <1>1, <1>2, <1>4, <1>5, <1>7, PageTypes, TypesAfter
  <2>2. ConnectsFollowed'
    BY <1>1, <1>4, <1>7, ConnectsKept
  <2>3. ConnectedToWallet' /\ GoneWalletsNotCurrent' /\ ShownAccounts'
    BY <1>1, <1>7 DEF WalletInv, ConnectedToWallet, GoneWalletsNotCurrent, ShownAccounts, IsConnected,
                      AccountsOf, Wallets
  <2> QED
    BY <1>2, <2>1, <2>2, <2>3 DEF WalletInv
<1>8. Write(SetDisconnected(store)) \/ UNCHANGED <<store, saved, slushAccounts>>
  BY DEF Disconnect, ExtDisconnects
<1> QED
  BY <1>6, <1>7, <1>8

(* The extension answers a connect. *)
LEMMA ExtAcceptsKeeps ==
  ASSUME WalletInv, NEW c \in Channels, ExtAccepts(c)
  PROVE  WalletInv'
<1>1. /\ call[c].kind = "connecting" /\ call[c].wallet = Extension
      /\ call' = [call EXCEPT ![c] = [call[c] EXCEPT !.kind = "asking", !.accounts = extAccounts]]
      /\ UNCHANGED <<channel, mail, session, slushAccounts, store, saved, extAccounts, attempted, checking,
                     source, orphan>>
  BY PageTypes DEF ExtAccepts, slushVars
<1>2. ChannelInv'
  BY <1>1, ChannelsKept DEF WalletInv
<1> DEFINE n == [call[c] EXCEPT !.kind = "asking", !.accounts = extAccounts]
<1>3. call[c] \in Call /\ call \in [Channels -> Call] /\ extAccounts \in AccountLists
  BY PageTypes
<1>4. /\ n \in Call /\ n.wallet = Extension /\ n.left = call[c].left /\ n.accounts = extAccounts
  BY <1>1, <1>3 DEF Call
<1>5. call' = [call EXCEPT ![c] = n]
  BY <1>1
<1> HIDE DEF n
<1>6. /\ call' \in [Channels -> Call] /\ call'[c] = n
      /\ \A d \in Channels : d # c => call'[d] = call[d]
  BY <1>3, <1>4, <1>5
<1>7. WalletTypeOK'
  BY <1>1, <1>2, <1>6, PageTypes, TypesAfter
<1>8. ConnectsFollowed'
  <2> SUFFICES ASSUME NEW d \in Channels
               PROVE  /\ call'[d].kind \in {"connecting", "asking"} =>
                           /\ call'[d].wallet \in Wallets
                           /\ call'[d].wallet \in store.wallets \/ call'[d].left
                      /\ call'[d].kind = "asking" =>
                           /\ call'[d].wallet = Extension
                           /\ call'[d].changed \/ call'[d].accounts = extAccounts
    BY <1>1 DEF ConnectsFollowed, Wallets
  <2>1. CASE d = c
    <3>1. Extension \in Wallets /\ (Extension \in store.wallets \/ call[c].left)
      BY <1>1 DEF WalletInv, ConnectsFollowed
    <3> QED
      BY <2>1, <3>1, <1>4, <1>6
  <2>2. CASE d # c
    BY <2>2, <1>6 DEF WalletInv, ConnectsFollowed
  <2> QED
    BY <2>1, <2>2
<1>9. ConnectedToWallet' /\ GoneWalletsNotCurrent' /\ ShownAccounts'
  BY <1>1 DEF WalletInv, ConnectedToWallet, GoneWalletsNotCurrent, ShownAccounts, IsConnected,
              AccountsOf, Wallets
<1> QED
  BY <1>2, <1>7, <1>8, <1>9 DEF WalletInv

(* It has answered all, or refused. *)
LEMMA ExtFinishesKeeps ==
  ASSUME WalletInv, NEW c \in Channels, NEW ok \in BOOLEAN, ExtFinishes(c, ok)
  PROVE  WalletInv'
<1>1. /\ call[c].wallet = Extension /\ call[c].kind \in {"connecting", "asking"}
      /\ ok => call[c].kind = "asking"
      /\ Finish(c, ok, call[c].accounts)
      /\ UNCHANGED <<channel, mail, session, slushAccounts, extAccounts, attempted, checking>>
  BY DEF ExtFinishes, slushVars
<1>2. ChannelInv'
  BY <1>1, ChannelsKept DEF WalletInv
<1>3. call[c].accounts \in AccountLists /\ Extension # Slush
  BY PageTypes DEF Call
<1>4. ok => call[c].changed \/ call[c].accounts = extAccounts
  BY <1>1 DEF WalletInv, ConnectsFollowed
<1>5. /\ store' \in StoreState /\ saved' \in Remembered /\ call' \in [Channels -> Call]
      /\ source' \in Sources /\ orphan' \in BOOLEAN
      /\ ConnectsFollowed' /\ ConnectedToWallet' /\ GoneWalletsNotCurrent' /\ ShownAccounts'
  BY <1>1, <1>3, <1>4, FinishKeeps
<1>6. WalletTypeOK'
  BY <1>1, <1>2, <1>5, PageTypes, TypesAfter
<1> QED
  BY <1>2, <1>5, <1>6 DEF WalletInv

(* It shares other accounts. *)
LEMMA ExtChangesKeeps ==
  ASSUME WalletInv, NEW accounts \in AccountLists, ExtChanges(accounts)
  PROVE  WalletInv'
<1> DEFINE n(c) == [call[c] EXCEPT !.changed = call[c].changed \/ call[c].kind = "asking"]
<1>1. /\ extAccounts' = accounts
      /\ call' = [c \in Channels |-> n(c)]
      /\ UNCHANGED <<channel, mail, session, slushAccounts, attempted, checking, orphan>>
  BY PageTypes DEF ExtChanges, slushVars, Call
<1>2. ChannelInv'
  BY <1>1, ChannelsKept DEF WalletInv
<1>3. \A c \in Channels :
        /\ n(c) \in Call /\ n(c).kind = call[c].kind /\ n(c).wallet = call[c].wallet
        /\ n(c).left = call[c].left
        /\ n(c).kind = "asking" => n(c).changed
  BY PageTypes DEF Call
<1>4. call' \in [Channels -> Call] /\ \A c \in Channels : call'[c] = n(c)
  BY <1>1, <1>3
<1> HIDE DEF n
<1>5. CASE Subscribed(Extension) /\ Write(UpdateAccounts(store, accounts)) /\ source' = "change"
  <2>1. /\ store' \in StoreState /\ saved' \in Remembered /\ store'.status = store.status
        /\ store'.current = store.current /\ store'.wallets = store.wallets
        /\ store'.accounts = accounts /\ store'.account \in Choosable(accounts)
    <3> DEFINE u == UpdateAccounts(store, accounts)
    <3>1. /\ u \in StoreState /\ u.status = store.status /\ u.current = store.current
          /\ u.wallets = store.wallets /\ u.accounts = accounts /\ u.account \in Choosable(accounts)
      BY PageTypes, UpdatedStore
    <3>2. Write(u)
      BY <1>5
    <3> HIDE DEF u
    <3>3. store' = u /\ saved' \in Remembered
      BY <3>1, <3>2, Writes
    <3> QED
      BY <3>1, <3>3
  <2>2. WalletTypeOK'
    BY <1>1, <1>2, <1>4, <1>5, <2>1, PageTypes, TypesAfter DEF Sources
  <2>3. ConnectedToWallet' /\ GoneWalletsNotCurrent'
    BY <1>1, <2>1 DEF WalletInv, ConnectedToWallet, GoneWalletsNotCurrent, IsConnected, Wallets
  <2>4. ShownAccounts'
    <3>1. store'.current # Slush
      BY <1>5, <2>1, PageTypes DEF Subscribed
    <3> QED
      BY <3>1, <1>1, <1>5, <2>1, ShownAfter DEF SharedBy, Shows
  <2>5. ConnectsFollowed'
    BY <1>3, <1>4, <2>1 DEF WalletInv, ConnectsFollowed, Wallets
  <2> QED
    BY <1>2, <2>2, <2>3, <2>4, <2>5 DEF WalletInv
<1>6. CASE ~Subscribed(Extension) /\ UNCHANGED <<store, saved, source>>
  <2>1. WalletTypeOK'
    BY <1>1, <1>2, <1>4, <1>6, PageTypes, TypesAfter
  <2>2. ConnectedToWallet' /\ GoneWalletsNotCurrent'
    BY <1>1, <1>6 DEF WalletInv, ConnectedToWallet, GoneWalletsNotCurrent, IsConnected, Wallets
  <2>3. ShownAccounts'
    <3> SUFFICES ASSUME store.status = "connected", source # "stale"
                 PROVE  Shows(store, source, SharedBy(store.current, slushAccounts, accounts))
      BY <1>1, <1>6, ShownAfter
    <3>1. store.current = Slush
      BY <1>6, PageTypes DEF WalletInv, ConnectedToWallet, Subscribed, IsConnected
    <3> QED
      BY <3>1, ShownBefore DEF SharedBy
  <2>4. ConnectsFollowed'
    BY <1>3, <1>4, <1>6 DEF WalletInv, ConnectsFollowed, Wallets
  <2> QED
    BY <1>2, <2>1, <2>2, <2>3, <2>4 DEF WalletInv
<1> QED
  BY <1>5, <1>6 DEF ExtChanges

(* A wallet leaves, and the connects to it go on. *)
LEMMA UnregisterKeeps ==
  ASSUME WalletInv, NEW ws \in SUBSET Wallets, NEW w \in Wallets,
         store.wallets \ {w} \subseteq ws,
         Write(SetUnregistered(store, ws, w)), Leave(w), checking' \in BOOLEAN,
         UNCHANGED <<slushVars, extAccounts, attempted, source, orphan>>
  PROVE  WalletInv'
<1> DEFINE n(c) == [call[c] EXCEPT !.left = call[c].left \/ (call[c].wallet = w
                                              /\ call[c].kind \in {"connecting", "asking"})]
<1>1. /\ UNCHANGED <<channel, mail, session, slushAccounts>>
      /\ call' = [c \in Channels |-> n(c)]
  BY PageTypes DEF slushVars, Leave, Call
<1>2. ChannelInv'
  BY <1>1, ChannelsKept DEF WalletInv
<1>3. \A c \in Channels :
        /\ n(c) \in Call /\ n(c).kind = call[c].kind /\ n(c).wallet = call[c].wallet
        /\ n(c).accounts = call[c].accounts /\ n(c).changed = call[c].changed
        /\ n(c).left = (call[c].left \/ (call[c].wallet = w /\ call[c].kind \in {"connecting", "asking"}))
  BY PageTypes DEF Call
<1>4. call' \in [Channels -> Call] /\ \A c \in Channels : call'[c] = n(c)
  BY <1>1, <1>3
<1> HIDE DEF n
<1>5. /\ store' \in StoreState /\ saved' \in Remembered /\ store'.wallets = ws
      /\ \/ store'.current = NoWallet /\ store'.status = "disconnected"
         \/ /\ store'.current = store.current /\ store'.current # w /\ store'.status = store.status
            /\ store'.accounts = store.accounts /\ store'.account = store.account
  <2> DEFINE u == SetUnregistered(store, ws, w)
  <2>1. /\ u \in StoreState /\ u.wallets = ws
        /\ \/ u.current = NoWallet /\ u.status = "disconnected"
           \/ /\ u.current = store.current /\ u.current # w /\ u.status = store.status
              /\ u.accounts = store.accounts /\ u.account = store.account
    BY PageTypes, UnregisteredStore
  <2>2. Write(u)
    OBVIOUS
  <2> HIDE DEF u
  <2>3. store' = u /\ saved' \in Remembered
    BY <2>1, <2>2, Writes
  <2> QED
    BY <2>1, <2>3
<1>6. WalletTypeOK'
  BY <1>1, <1>2, <1>4, <1>5, PageTypes, TypesAfter
<1>7. ConnectsFollowed'
  <2> SUFFICES ASSUME NEW d \in Channels
               PROVE  /\ call'[d].kind \in {"connecting", "asking"} =>
                           /\ call'[d].wallet \in Wallets
                           /\ call'[d].wallet \in ws \/ call'[d].left
                      /\ call'[d].kind = "asking" =>
                           /\ call'[d].wallet = Extension
                           /\ call'[d].changed \/ call'[d].accounts = extAccounts
    BY <1>5 DEF ConnectsFollowed, Wallets
  <2>1. /\ call[d].kind \in {"connecting", "asking"} =>
             /\ call[d].wallet \in Wallets
             /\ call[d].wallet \in store.wallets \/ call[d].left
        /\ call[d].kind = "asking" =>
             /\ call[d].wallet = Extension
             /\ call[d].changed \/ call[d].accounts = extAccounts
    BY DEF WalletInv, ConnectsFollowed
  <2>2. call'[d] = n(d)
    BY <1>4
  <2>3. /\ call'[d].kind = call[d].kind /\ call'[d].wallet = call[d].wallet
        /\ call'[d].accounts = call[d].accounts /\ call'[d].changed = call[d].changed
        /\ call'[d].left = (call[d].left \/ (call[d].wallet = w /\ call[d].kind \in {"connecting", "asking"}))
    BY <2>2, <1>3
  <2>4. call[d].wallet \in store.wallets => call[d].wallet = w \/ call[d].wallet \in ws
    OBVIOUS
  <2> QED
    BY <2>1, <2>3, <2>4
<1>8. ConnectedToWallet' /\ GoneWalletsNotCurrent'
  BY <1>5 DEF WalletInv, ConnectedToWallet, GoneWalletsNotCurrent, IsConnected, Wallets
<1>9. ShownAccounts'
  BY <1>1, <1>5, ShownBefore, ShownAfter DEF Shows
<1> QED
  BY <1>2, <1>6, <1>7, <1>8, <1>9 DEF WalletInv

(* Wallets that come and go. *)
LEMMA WalletsChangeKeeps ==
  ASSUME WalletInv, ExtAppears \/ ExtLeaves \/ \E enabled \in BOOLEAN : SlushChecked(enabled)
  PROVE  WalletInv'
<1>1. /\ Slush \in Wallets /\ Extension \in Wallets /\ Wallets = {Slush, Extension}
      /\ store.wallets \in SUBSET Wallets /\ checking \in BOOLEAN
  BY PageTypes
<1>2. CASE ExtAppears
  <2>1. /\ Write(SetUnregistered(store, {Extension}, Slush)) /\ Leave(Slush)
        /\ UNCHANGED <<slushVars, extAccounts, attempted, checking, source, orphan>>
    BY <1>2 DEF ExtAppears
  <2>2. {Extension} \in SUBSET Wallets /\ store.wallets \ {Slush} \subseteq {Extension}
    BY <1>1
  <2> QED
    BY <1>1, <2>1, <2>2, UnregisterKeeps
<1>3. CASE ExtLeaves
  <2>1. /\ Write(SetUnregistered(store, store.wallets \ {Extension}, Extension)) /\ Leave(Extension)
        /\ UNCHANGED <<slushVars, extAccounts, attempted, checking, source, orphan>>
    BY <1>3 DEF ExtLeaves
  <2>2. store.wallets \ {Extension} \in SUBSET Wallets
    BY <1>1
  <2> QED
    BY <1>1, <2>1, <2>2, UnregisterKeeps
<1>4. ASSUME NEW enabled \in BOOLEAN, SlushChecked(enabled)  PROVE WalletInv'
  <2>1. checking' = FALSE /\ UNCHANGED <<slushVars, extAccounts, attempted, source, orphan>>
    BY <1>4 DEF SlushChecked
  <2>2. CASE enabled
    <3>1. UNCHANGED <<store, saved, call, channel, mail, session, slushAccounts>>
      BY <1>4, <2>2 DEF SlushChecked, slushVars
    <3>2. ChannelInv'
      BY <3>1, ChannelsKept DEF WalletInv
    <3>3. WalletTypeOK'
      BY <2>1, <3>1, <3>2, PageTypes, TypesAfter
    <3>4. ConnectsFollowed' /\ ConnectedToWallet' /\ GoneWalletsNotCurrent' /\ ShownAccounts'
      BY <2>1, <3>1, ConnectionKept
    <3> QED
      BY <3>2, <3>3, <3>4 DEF WalletInv
  <2>3. CASE ~enabled
    <3>1. Write(SetUnregistered(store, store.wallets \ {Slush}, Slush)) /\ Leave(Slush)
      BY <1>4, <2>3 DEF SlushChecked
    <3>2. store.wallets \ {Slush} \in SUBSET Wallets
      BY <1>1
    <3> QED
      BY <1>1, <2>1, <3>1, <3>2, UnregisterKeeps
  <2> QED
    BY <2>2, <2>3
<1> QED
  BY <1>2, <1>3, <1>4

----------------------------------------------------------------------------
(* The invariant of every behaviour. *)

(* The first page. *)
LEMMA InitWallet == Init => WalletInv
<1> SUFFICES ASSUME Init  PROVE WalletInv
  OBVIOUS
<1>1. /\ channel = [c \in Channels |-> Unused] /\ mail = {} /\ session = <<>> /\ slushAccounts = <<>>
      /\ extAccounts = <<>> /\ saved = Nothing
  BY DEF Init, SlushLoaded
<1>2. PICK w \in Wallets : Loaded({w}, Nothing)
  BY DEF Init
<1>3. /\ store = Fresh({w}, Nothing) /\ call = [c \in Channels |-> Idle] /\ attempted = NoKey
      /\ checking \in BOOLEAN /\ source = "connect" /\ orphan = FALSE
  BY <1>2 DEF Loaded
<1>4. Nothing \in Remembered
  BY DEF Nothing, Remembered
<1>5. store \in StoreState /\ store.status = "disconnected" /\ store.current = NoWallet
  BY <1>3, <1>4, LoadedStore
<1>6. ChannelInv
  BY <1>1, NewChannel DEF ChannelInv, Sound
<1>7. call \in [Channels -> Call] /\ \A c \in Channels : call[c].kind = "idle"
  BY <1>3, IdleTyped
<1>8. attempted.count \in 0 .. (Cardinality(Wallets) + 1)
  <2>1. IsFiniteSet({Slush}) /\ Wallets = {Slush} \cup {Extension}
    BY FS_Singleton DEF Wallets
  <2>2. Cardinality(Wallets) \in Nat
    BY <2>1, FS_AddElement, FS_CardinalityType
  <2> QED
    BY <2>2, <1>3 DEF NoKey
<1>9. WalletTypeOK
  <2>1. SlushTypeOK
    BY <1>1, <1>6, Outcomes DEF SlushTypeOK, ChannelTypeOK, ChannelInv
  <2> QED
    BY <2>1, <1>1, <1>3, <1>4, <1>5, <1>7, <1>8, Outcomes DEF Sources, WalletTypeOK, Remembered
<1>10. ConnectsFollowed /\ ConnectedToWallet /\ GoneWalletsNotCurrent /\ ShownAccounts
  BY <1>5, <1>7 DEF ConnectsFollowed, ConnectedToWallet, GoneWalletsNotCurrent, ShownAccounts, IsConnected
<1> QED
  BY <1>6, <1>9, <1>10 DEF WalletInv

(* Every step of the page, the popups and the wallets keeps it. *)
LEMMA NextWallet == WalletInv /\ [Next]_vars => WalletInv'
<1> SUFFICES ASSUME WalletInv, [Next]_vars  PROVE WalletInv'
  OBVIOUS
<1>1. CASE AutoConnect \/ Reload \/ OtherTab
  BY <1>1, AutoConnectKeeps, ReloadKeeps, OtherTabKeeps
<1>2. CASE ExtAppears \/ ExtLeaves \/ \E ok \in BOOLEAN : SlushChecked(ok)
  BY <1>2, WalletsChangeKeeps
<1>3. CASE (\E m \in mail : Deliver(m)) \/ (\E c \in Channels : Tick(c))
  BY <1>3, DeliverKeeps
<1>4. CASE \E a \in Accounts : Switch(a)
  BY <1>4, SwitchKeeps
<1>5. CASE \E s \in AccountLists : ExtChanges(s)
  BY <1>5, ExtChangesKeeps
<1>6. CASE (\E c \in Channels : Sign(c)) \/ (\E c \in Channels, ok \in BOOLEAN : Serialized(c, ok))
           \/ (\E c \in Channels : Popup(c))
  BY <1>6, SignKeeps
<1>7. CASE ConnectBlocked \/ \E c \in Channels, w \in Wallets : Connect(c, w)
  BY <1>7, ConnectKeeps, ConnectBlockedKeeps
<1>8. CASE (\E c \in Channels : Disconnect(c)) \/ (\E c \in Channels : ExtDisconnects(c))
  BY <1>8, DisconnectKeeps
<1>9. CASE \E c \in Channels : ExtAccepts(c)
  BY <1>9, ExtAcceptsKeeps
<1>10. CASE \E c \in Channels, ok \in BOOLEAN : ExtFinishes(c, ok)
  BY <1>10, ExtFinishesKeeps
<1>11. CASE UNCHANGED vars
  <2>1. UNCHANGED <<channel, mail, session, slushAccounts, pageVars, extAccounts>>
    BY <1>11 DEF vars, slushVars
  <2>2. ChannelInv'
    BY <2>1, ChannelsKept DEF WalletInv
  <2> QED
    BY <2>1, <2>2, ChannelStepKeeps
<1> QED
  BY <1>1, <1>2, <1>3, <1>4, <1>5, <1>6, <1>7, <1>8, <1>9, <1>10, <1>11 DEF Next

(* Every reachable page: its popups, the connects under way and what the   *)
(* store shows.                                                            *)
THEOREM WalletInvariant == Spec => []WalletInv
BY InitWallet, NextWallet, PTL DEF Spec

(* The page always has its types.                                          *)
THEOREM WalletTypesHold == Spec => []WalletTypeOK
<1>1. WalletInv => WalletTypeOK
  BY DEF WalletInv
<1> QED
  BY <1>1, WalletInvariant, PTL

(* A request is resolved with the answer of its own popup, and a settled   *)
(* one has removed its listener and its timer.                             *)
THEOREM AnswersReachRequests == Spec => []AnswersReachTheirRequest
<1>1. WalletInv => AnswersReachTheirRequest
  BY DEF WalletInv, ChannelInv, Sound, AnswersReachTheirRequest
<1> QED
  BY <1>1, WalletInvariant, PTL

(* A wallet that was unregistered is not current, unless it left while it  *)
(* was being connected.                                                    *)
THEOREM GoneNotCurrent == Spec => []GoneWalletsNotCurrent
<1>1. WalletInv => GoneWalletsNotCurrent
  BY DEF WalletInv
<1> QED
  BY <1>1, WalletInvariant, PTL

(* What the hooks show are the accounts of the wallet: those of an rtd     *)
(* chain as useConnectWallet stores them, all of them after a change; and  *)
(* one of them is current, unless they changed while the wallet's          *)
(* capabilities were asked for.                                            *)
THEOREM AccountsShown == Spec => []ShownAccounts
<1>1. WalletInv => ShownAccounts
  BY DEF WalletInv
<1> QED
  BY <1>1, WalletInvariant, PTL
=============================================================================
