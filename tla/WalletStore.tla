----------------------------- MODULE WalletStore -----------------------------
(***************************************************************************)
(* dapp-kit's wallet store with the hooks that change it, over two         *)
(* wallets: the Slush web wallet and a browser extension, whose own code   *)
(* is not part of the repository.  A step is a task of the page's event    *)
(* loop with the microtasks and the render it causes; only AutoConnect,    *)
(* the effect of a render, is a step of its own, and the others wait for   *)
(* it.                                                                     *)
(***************************************************************************)
EXTENDS SlushWallet

CONSTANTS
  Slush, Extension,   \* the wallets
  NoWallet, NoAccount,
  OtherChains,        \* accounts of the extension that are of no rtd chain
  AutoConnectEnabled, \* the prop autoConnect of WalletProvider
  MaxEvents           \* bound on what the user and the wallets do of their own accord

\* The accounts that have an rtd chain (those of the web wallet all have).
OfRtd(w, accounts) ==
  IF w = Slush THEN accounts ELSE SelectSeq(accounts, LAMBDA a : a \notin OtherChains)

WalletStoreAssumption ==
  /\ Slush # Extension
  /\ NoWallet \notin {Slush, Extension}
  /\ NoAccount \notin Accounts
  /\ \A s \in AccountLists : OfRtd(Extension, s) \in AccountLists
  /\ AutoConnectEnabled \in BOOLEAN
  /\ MaxEvents \in Nat
ASSUME WalletStoreAssumption

VARIABLES
  store,         \* the zustand store
  saved,         \* what persist() has written of it to localStorage
  call,          \* the mutations under way, by the popup they would use
  extAccounts,   \* the accounts the extension shares with the dapp
  attempted,     \* the query key useAutoConnectWallet has run for
  checking,      \* the metadata of the Slush wallet has been asked for
  source,        \* ghost: where the store has its accounts from, see Sources
  orphan,        \* ghost: the current wallet left while it was being connected
  events         \* what the user and the wallets have done so far (bounded)

pageVars == <<store, saved, call, attempted, checking, source, orphan>>
vars == <<slushVars, pageVars, extAccounts, events>>

Wallets == {Slush, Extension}

Elements(s) == {s[i] : i \in 1..Len(s)}

\* The accounts came from useConnectWallet, from a 'change' event, or from a
\* useConnectWallet that had them before they changed.
Sources == {"connect", "change", "stale"}

\* accounts of a wallet object.
AccountsOf(w) == IF w = Slush THEN slushAccounts ELSE extAccounts

Idle == [kind |-> "idle", wallet |-> NoWallet, accounts |-> <<>>,
         wanted |-> NoAccount, changed |-> FALSE, left |-> FALSE]

Call == [kind : {"idle", "connecting", "asking", "disconnecting"},
         wallet : Wallets \cup {NoWallet}, accounts : AccountLists,
         wanted : Accounts \cup {NoAccount}, changed : BOOLEAN, left : BOOLEAN]

Connecting(w, account) ==
  [Idle EXCEPT !.kind = "connecting", !.wallet = w, !.wanted = account]

\* Idle calls whose popup is not in use either.
FreeCall(c) == call[c] = Idle /\ Free(c)

-----------------------------------------------------------------------------
(* The actions of the store, as functions of its state. *)

StoreState ==
  [wallets : SUBSET Wallets, current : Wallets \cup {NoWallet},
   accounts : AccountLists, account : Accounts \cup {NoAccount},
   lastWallet : Wallets \cup {NoWallet}, lastAccount : Accounts \cup {NoAccount},
   status : {"connecting", "connected", "disconnected"}]

SetConnected(st, w, accounts, account) ==
  [st EXCEPT !.current = w, !.accounts = accounts, !.account = account,
     !.lastWallet = w, !.lastAccount = account, !.status = "connected"]

SetDisconnected(st) ==
  [st EXCEPT !.current = NoWallet, !.accounts = <<>>, !.account = NoAccount,
     !.lastWallet = NoWallet, !.lastAccount = NoAccount, !.status = "disconnected"]

SetStatus(st, status) == [st EXCEPT !.status = status]

SetSwitched(st, account) == [st EXCEPT !.account = account, !.lastAccount = account]

\* mutant: the current wallet stays when it is unregistered.
SetUnregisteredOnly(st, ws, w) == [st EXCEPT !.wallets = ws]

SetUnregistered(st, ws, w) ==
  IF st.current = w THEN [SetDisconnected(st) EXCEPT !.wallets = ws]
  ELSE [st EXCEPT !.wallets = ws]

First(accounts) == IF accounts = <<>> THEN NoAccount ELSE accounts[1]

\* mutant: the account that was current is kept.
UpdateAccountsOnly(st, accounts) == [st EXCEPT !.accounts = accounts]

\* updateWalletAccounts: the remembered address is not updated.
UpdateAccounts(st, accounts) ==
  [st EXCEPT !.accounts = accounts,
     !.account = IF @ \in Elements(accounts) THEN @ ELSE First(accounts)]

\* getSelectedAccount.
Selected(accounts, wanted) ==
  IF wanted \in Elements(accounts) THEN wanted ELSE First(accounts)

\* mutant: the two names are stored the wrong way round.
WriteSwapped(st) ==
  /\ store' = st
  /\ saved' = [wallet |-> st.lastAccount, account |-> st.lastWallet]

\* set() of the store, which persist() follows at once.
Write(st) ==
  /\ store' = st
  /\ saved' = [wallet |-> st.lastWallet, account |-> st.lastAccount]

-----------------------------------------------------------------------------
(* The page. *)

Nothing == [wallet |-> NoWallet, account |-> NoAccount]

\* The store of a page that has loaded, with what persist() finds.
Fresh(ws, remembered) ==
  [wallets |-> ws, current |-> NoWallet, accounts |-> <<>>, account |-> NoAccount,
   lastWallet |-> remembered.wallet, lastAccount |-> remembered.account,
   status |-> "disconnected"]

\* useCurrentWallet().isConnected
IsConnected == store.status = "connected"

\* useWalletPropertiesChanged listens to the wallet the hooks see.
Subscribed(w) == IsConnected /\ store.current = w

Key == [connected |-> IsConnected, wallet |-> store.lastWallet,
        account |-> store.lastAccount, count |-> Cardinality(store.wallets)]

NoKey == [connected |-> FALSE, wallet |-> NoWallet, account |-> NoAccount,
          count |-> Cardinality(Wallets) + 1]

Spend == events < MaxEvents /\ events' = events + 1

\* The last render's query has run: the page waits for its next task.
Quiet == attempted = Key

Loaded(ws, remembered) ==
  /\ store = Fresh(ws, remembered)
  /\ call = [c \in Channels |-> Idle]
  /\ attempted = NoKey
  /\ checking = (Slush \in ws)   \* registerSlushWallet returns early beside an extension
  /\ source = "connect"
  /\ orphan = FALSE

Init ==
  /\ SlushLoaded(<<>>)
  /\ extAccounts = <<>>
  /\ saved = Nothing
  /\ \E w \in Wallets : Loaded({w}, Nothing)
  /\ events = 0

\* The page is loaded again: popups and calls are lost, storage remains.
Reload ==
  /\ Quiet /\ Spend
  /\ channel' = [c \in Channels |-> Unused]
  /\ mail' = {}
  /\ slushAccounts' = session
  /\ \E w \in Wallets :
       /\ store' = Fresh({w}, saved)
       /\ checking' = (w = Slush)
  /\ call' = [c \in Channels |-> Idle]
  /\ attempted' = NoKey
  /\ source' = "connect"
  /\ orphan' = FALSE
  /\ UNCHANGED <<session, saved, extAccounts>>

\* Another tab of the dapp connects to the Slush wallet or disconnects.
OtherTab ==
  /\ Quiet /\ Spend
  /\ \E s \in AccountLists :
       /\ session' = s
       /\ saved' = IF s = <<>> THEN Nothing
                   ELSE [wallet |-> Slush, account |-> s[1]]
  /\ UNCHANGED <<channel, mail, slushAccounts, store, call, extAccounts,
                 attempted, checking, source, orphan>>

-----------------------------------------------------------------------------
(* Connecting. *)

\* setWalletConnected at the end of a call, with the accounts of an rtd
\* chain, or the status of a failed one.
Finish(c, ok, accounts) ==
  LET connected == OfRtd(call[c].wallet, accounts)
  IN
  /\ call' = [call EXCEPT ![c] = Idle]
  /\ IF ok
     THEN /\ Write(SetConnected(store, call[c].wallet, connected,
                                Selected(connected, call[c].wanted)))
          /\ source' = IF call[c].changed THEN "stale" ELSE "connect"
          /\ orphan' = call[c].left
     ELSE /\ Write(SetStatus(store, "disconnected"))
          /\ UNCHANGED <<source, orphan>>

\* useConnectWallet for a wallet of the list, up to the wallet's connect.
Connect(c, w) ==
  /\ Quiet /\ Spend
  /\ FreeCall(c)
  /\ w \in store.wallets
  /\ Write(SetStatus(store, "connecting"))
  /\ call' = [call EXCEPT ![c] = Connecting(w, NoAccount)]
  /\ IF w = Slush THEN AskToConnect(c) ELSE UNCHANGED slushVars
  /\ UNCHANGED <<extAccounts, attempted, checking, source, orphan>>

\* The browser blocks the popup: new DappPostMessageChannel() throws, and the
\* hook fails before the page does anything else. (To a request to sign it
\* does the same, which changes nothing.)
ConnectBlocked ==
  /\ Quiet /\ Spend
  /\ Slush \in store.wallets
  /\ Write(SetStatus(store, "disconnected"))
  /\ UNCHANGED <<slushVars, call, extAccounts, attempted, checking, source, orphan>>

\* useAutoConnectWallet: if it is enabled, its query runs for every new
\* key, and connects silently to the remembered wallet if it is there.
\* Slush answers at once; an extension that finds no free call counts as one
\* that never answers.
AutoConnect ==
  /\ ~Quiet
  /\ attempted' = Key
  /\ LET w == store.lastWallet
     IN IF \/ ~AutoConnectEnabled \/ IsConnected
           \/ w \notin store.wallets
           \/ store.lastAccount = NoAccount
        THEN UNCHANGED <<store, saved, call, source, orphan>>
        ELSE IF w = Slush
        THEN /\ Write(SetConnected(store, Slush, slushAccounts,
                                   Selected(slushAccounts, store.lastAccount)))
             /\ source' = "connect"
             /\ orphan' = FALSE
             /\ UNCHANGED call
        ELSE /\ Write(SetStatus(store, "connecting"))
             /\ call' = IF \E c \in Channels : FreeCall(c)
                        THEN LET c == CHOOSE c \in Channels : FreeCall(c)
                             IN [call EXCEPT ![c] = Connecting(w, store.lastAccount)]
                        ELSE call
             /\ UNCHANGED <<source, orphan>>
  /\ UNCHANGED <<slushVars, extAccounts, checking, events>>

\* What becomes of the call of a channel whose promise this step settles.
Continue ==
  LET settled == {c \in Channels : /\ channel[c].promise = Pending
                                   /\ channel'[c].promise # Pending
                                   /\ call[c].kind = "connecting"
                                   /\ call[c].wallet = Slush}
  IN IF settled = {}
     THEN UNCHANGED <<store, saved, call, source, orphan, session, slushAccounts>>
     ELSE \E c \in settled :
            LET answer == channel'[c].promise
                ok == answer.type = "resolve"
            IN /\ IF ok THEN Store(answer.data) ELSE UNCHANGED <<session, slushAccounts>>
               /\ Finish(c, ok, answer.data)

\* A message event of a popup is dispatched; if it answers a connect, the
\* wallet's 'change' event and setWalletConnected follow.
Deliver(m) ==
  /\ Quiet
  /\ m \in mail
  /\ Dispatch(m)
  /\ Continue
  /\ UNCHANGED <<extAccounts, attempted, checking, events>>

\* The timer of a channel fires and finds the popup closed.
Tick(c) ==
  /\ Quiet
  /\ FindClosed(c)
  /\ Continue
  /\ UNCHANGED <<extAccounts, attempted, checking, events>>

-----------------------------------------------------------------------------
(* Using and ending a connection. *)

\* useSignTransaction and its like, when Slush is connected.
Sign(c) ==
  /\ Quiet /\ Spend
  /\ Subscribed(Slush) /\ store.account # NoAccount
  /\ call[c] = Idle
  /\ SignAtOnce(c) \/ OpenToSign(c)
  /\ UNCHANGED <<pageVars, extAccounts>>

Serialized(c, ok) ==
  /\ Quiet
  /\ SerializedToSign(c, ok)
  /\ UNCHANGED <<pageVars, extAccounts, events>>

\* useSwitchAccount, to an account of the wallet object.
Switch(a) ==
  /\ Quiet /\ Spend
  /\ IsConnected /\ a \in Elements(AccountsOf(store.current))
  /\ Write(SetSwitched(store, a))
  /\ UNCHANGED <<slushVars, call, extAccounts, attempted, checking, source, orphan>>

\* useDisconnectWallet: Slush forgets its session at once, the extension is
\* waited for, and then whatever wallet is current is dropped.
Disconnect(c) ==
  /\ Quiet /\ Spend
  /\ IsConnected
  /\ FreeCall(c)
  /\ IF store.current = Slush
     THEN /\ Forget
          /\ Write(SetDisconnected(store))
          /\ UNCHANGED call
     ELSE /\ call' = [call EXCEPT ![c] = [Idle EXCEPT !.kind = "disconnecting",
                                                      !.wallet = Extension]]
          /\ UNCHANGED <<session, slushAccounts, store, saved>>
  /\ UNCHANGED <<channel, mail, extAccounts, attempted, checking, source, orphan>>

-----------------------------------------------------------------------------
(* The extension. *)

\* It answers a connect with the accounts it shares; the hook goes on to ask
\* for its capabilities.
ExtAccepts(c) ==
  /\ Quiet
  /\ call[c].kind = "connecting" /\ call[c].wallet = Extension
  /\ call' = [call EXCEPT ![c].kind = "asking", ![c].accounts = extAccounts]
  /\ UNCHANGED <<slushVars, store, saved, extAccounts, attempted, checking, source, orphan, events>>

\* It has answered that too, or one of the two was refused.
ExtFinishes(c, ok) ==
  /\ Quiet
  /\ call[c].wallet = Extension
  /\ call[c].kind \in IF ok THEN {"asking"} ELSE {"connecting", "asking"}
  /\ Finish(c, ok, call[c].accounts)
  /\ UNCHANGED <<slushVars, extAccounts, attempted, checking, events>>

ExtDisconnects(c) ==
  /\ Quiet
  /\ call[c].kind = "disconnecting"
  /\ call' = [call EXCEPT ![c] = Idle]
  /\ Write(SetDisconnected(store))
  /\ UNCHANGED <<slushVars, extAccounts, attempted, checking, source, orphan, events>>

\* Its user shares other accounts: a 'change' event.
ExtChanges(accounts) ==
  /\ Quiet /\ Spend
  /\ accounts # extAccounts
  /\ extAccounts' = accounts
  /\ call' = [c \in Channels |->
                [call[c] EXCEPT !.changed = @ \/ call[c].kind = "asking"]]
  /\ IF Subscribed(Extension)
     THEN Write(UpdateAccounts(store, accounts)) /\ source' = "change"
     ELSE UNCHANGED <<store, saved, source>>
  /\ UNCHANGED <<slushVars, attempted, checking, orphan>>

-----------------------------------------------------------------------------
(* Wallets that come and go. *)

\* The connects of a wallet that leaves go on.
Leave(w) ==
  call' = [c \in Channels |->
             [call[c] EXCEPT !.left = @ \/ (call[c].wallet = w
                                            /\ call[c].kind \in {"connecting", "asking"})]]

\* The extension registers; the listener of registerSlushWallet unregisters
\* the web wallet in the same task (again, if it has been before).
ExtAppears ==
  /\ Quiet /\ Spend
  /\ Extension \notin store.wallets
  /\ Write(SetUnregistered(store, {Extension}, Slush))
  /\ Leave(Slush)
  /\ UNCHANGED <<slushVars, extAccounts, attempted, checking, source, orphan>>

ExtLeaves ==
  /\ Quiet /\ Spend
  /\ Extension \in store.wallets
  /\ Write(SetUnregistered(store, store.wallets \ {Extension}, Extension))
  /\ Leave(Extension)
  /\ UNCHANGED <<slushVars, extAccounts, attempted, checking, source, orphan>>

\* The metadata arrives and says that the web wallet is disabled, or not.
SlushChecked(enabled) ==
  /\ Quiet /\ Spend
  /\ checking
  /\ checking' = FALSE
  /\ IF enabled THEN UNCHANGED <<store, saved, call>>
     ELSE /\ Write(SetUnregistered(store, store.wallets \ {Slush}, Slush))
          /\ Leave(Slush)
  /\ UNCHANGED <<slushVars, extAccounts, attempted, source, orphan>>

-----------------------------------------------------------------------------
\* The popup is another window: it does not wait for the page.
Popup(c) ==
  /\ \/ PopupCloses(c)
     \/ \E answer \in Answers(c), closes \in BOOLEAN : WalletAnswers(c, answer, closes)
  /\ UNCHANGED <<session, slushAccounts, pageVars, extAccounts, events>>

Next ==
  \/ AutoConnect
  \/ Reload
  \/ OtherTab
  \/ ExtAppears
  \/ ExtLeaves
  \/ \E m \in mail : Deliver(m)
  \/ \E a \in Accounts : Switch(a)
  \/ \E s \in AccountLists : ExtChanges(s)
  \/ \E ok \in BOOLEAN : SlushChecked(ok)
  \/ \E c \in Channels : Tick(c)
  \/ \E c \in Channels : Sign(c)
  \/ \E c \in Channels, ok \in BOOLEAN : Serialized(c, ok)
  \/ \E c \in Channels, w \in Wallets : Connect(c, w)
  \/ ConnectBlocked
  \/ \E c \in Channels : Disconnect(c)
  \/ \E c \in Channels : ExtAccepts(c)
  \/ \E c \in Channels, ok \in BOOLEAN : ExtFinishes(c, ok)
  \/ \E c \in Channels : ExtDisconnects(c)
  \/ \E c \in Channels : Popup(c)

\* Renders and timers run, and message events are dispatched; the user, the
\* wallets and the dapp owe nothing.
Fairness ==
  /\ WF_vars(AutoConnect)
  /\ \A c \in Channels : WF_vars(Tick(c))

Spec == Init /\ [][Next]_vars /\ Fairness

-----------------------------------------------------------------------------
(* Properties. *)

WalletTypeOK ==
  /\ SlushTypeOK
  /\ store \in StoreState
  /\ saved \in [wallet : Wallets \cup {NoWallet}, account : Accounts \cup {NoAccount}]
  /\ call \in [Channels -> Call]
  /\ extAccounts \in AccountLists
  /\ attempted.count \in 0..(Cardinality(Wallets) + 1)
  /\ checking \in BOOLEAN /\ source \in Sources /\ orphan \in BOOLEAN

\* A request is resolved with what the wallet answered to it, never with the
\* answer to another popup, and a settled request has removed its listener
\* and its timer (dapp-post-message-channel.ts #listener, #cleanup).
AnswersReachTheirRequest ==
  \A c \in Channels :
    LET ch == channel[c]
    IN /\ ch.promise.type = "resolve" => ch.promise = ch.answered
       /\ ch.promise # Pending => ~ch.watching /\ ~ch.listening

\* A request whose popup is closed settles: with the wallet's answer, or
\* because the timer finds the popup closed, whatever other popups do in the
\* meantime (or the page is loaded again and nobody waits for it).
RequestsSettle ==
  \A c \in Channels :
    (channel[c].popup = "closed" /\ channel[c].promise = Pending)
      ~> (channel[c].promise # Pending \/ channel[c].popup = "none")

\* A wallet that has been unregistered is not the current one, whenever it
\* left, unless it left while it was being connected: then the store takes a
\* wallet nobody can choose any more (walletStore.ts setWalletUnregistered
\* only looks at the current wallet).
GoneWalletsNotCurrent ==
  store.current \in store.wallets \cup {NoWallet} \/ orphan

\* While the hooks show a connected wallet, the accounts of the store are
\* those the wallet object has now, whoever connected, disconnected, changed
\* accounts or was registered in between: those of an rtd chain when
\* useConnectWallet was the last to store them, and all of them after a
\* 'change' event, which updateWalletAccounts does not filter. The current
\* account is one of the store's or, once it was switched, of the wallet's.
\* Not so when the accounts changed while useConnectWallet was waiting for
\* the capabilities: the hook then stores the accounts it got before.
ShownAccounts ==
  (IsConnected /\ source # "stale") =>
    LET shared == AccountsOf(store.current)
    IN /\ store.accounts = IF source = "connect" THEN OfRtd(store.current, shared) ELSE shared
       /\ store.account \in Elements(store.accounts) \cup Elements(shared) \cup
                            (IF store.accounts = <<>> THEN {NoAccount} ELSE {})
=============================================================================
