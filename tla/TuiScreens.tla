----------------------------- MODULE TuiScreens -----------------------------
(***************************************************************************)
(* The terminal screens of Aero (packages/sugar/src/tui: store.tsx,        *)
(* app.tsx, dialogs.tsx and screens/).  One screen is mounted, under a     *)
(* stack of dialogs; what it reads is answered later, when the user may    *)
(* have left it, switched the chain or connected another wallet, here or   *)
(* in another process.  A plan is built, reviewed, signed and broadcast    *)
(* from the action screen.                                                 *)
(***************************************************************************)
EXTENDS Integers, Sequences, FiniteSets

CONSTANTS
  Chains, Base, Wallets, NoWallet,
  MaxMounts,      \* bound: screens and contexts mounted
  MaxDepth,       \* bound: routes on the stack
  MaxAnswers,     \* bound: reads asked for
  MaxSends        \* bound: broadcasts

ASSUME TuiAssumption ==
  Base \in Chains /\ NoWallet \notin Wallets /\ MaxMounts \in Nat \ {0}

VARIABLES
  app,            \* chain, wallet, whether busy and whether it runs
  routes,         \* the stack of routes
  screen,         \* the mounted screen, on the top route
  dialogs,        \* open dialogs, with the closures they hold
  asks,           \* reads under way
  questions,          \* reads asked for
  sends,          \* broadcasts under way
  sentOnce        \* broadcasts begun

tuiVars == <<app, routes, screen, dialogs, asks, questions, sends, sentOnce>>

Holders == Wallets \cup {NoWallet}
Context == [chain : Chains, wallet : Holders]

\* A route, with the row it was opened from, if any, as the preset of its form.
Route == [name : {"home", "browse", "action"}, preset : SUBSET Context]
To(name) == [name |-> name, preset |-> {}]
Here == [chain |-> app.chain, wallet |-> app.wallet]

\* A form with what was picked into it, the plan or result it came to, and the
\* rows of a list; each with the context it is of, and none as long as it is {}.
Mounted(id, route) ==
  [id |-> id, route |-> route, phase |-> IF route.name = "action" THEN "form" ELSE "list",
   picked |-> {}, picking |-> FALSE, shows |-> {}]

TuiTypeOK ==
  /\ Here \in Context /\ app.busy \in BOOLEAN
  /\ routes # <<>> /\ screen.route = routes[Len(routes)] /\ screen.route \in Route
  /\ screen.phase \in {"form", "running", "result", "plan", "broadcast", "sent", "list"}
  /\ screen.picked \subseteq Context /\ screen.shows \subseteq Context
  /\ \A a \in asks : a.of \in 1..screen.id /\ a.context \in Context
  /\ \A s \in sends : s.plan.wallet \in Wallets /\ s.of <= screen.id
  /\ app.busy <=> screen.phase = "broadcast"

TuiInit ==
  /\ app = [chain |-> Base, wallet |-> NoWallet, busy |-> FALSE, runs |-> TRUE]
  /\ routes = <<To("home")>> /\ screen = Mounted(1, To("home"))
  /\ dialogs = <<>> /\ asks = {} /\ questions = 0 /\ sends = {} /\ sentOnce = 0

Keys == app.runs /\ dialogs = <<>>     \* the screen has the keyboard

-----------------------------------------------------------------------------
(* The stack of screens, and what they are mounted with *)

\* A screen that leaves is not busy any more, and its answers are for nobody.
Mount(stack, chain, wallet) ==
  /\ screen.id < MaxMounts
  /\ routes' = stack
  /\ screen' = Mounted(screen.id + 1, stack[Len(stack)])
  /\ app' = [app EXCEPT !.chain = chain, !.wallet = wallet, !.busy = FALSE]

\* The menus, and the palette over any screen; the rebalance of an index, which
\* takes no row along, selects its chain.
Push ==
  /\ Keys /\ Len(routes) < MaxDepth
  /\ \/ \E name \in {"home", "browse", "action"} :
          Mount(Append(routes, To(name)), app.chain, app.wallet)
     \/ screen.phase = "list" /\ Mount(Append(routes, To("action")), Base, app.wallet)
  /\ UNCHANGED <<dialogs, asks, questions, sends, sentOnce>>

Pop ==
  /\ Keys /\ screen.phase \in {"form", "sent", "list"} /\ Len(routes) > 1
  /\ Mount(SubSeq(routes, 1, Len(routes) - 1), app.chain, app.wallet)
  /\ UNCHANGED <<dialogs, asks, questions, sends, sentOnce>>

\* Faulty variant: a screen stays mounted as long as its route.
RemountOn(chain, wallet) ==
  /\ screen.id < MaxMounts /\ UNCHANGED <<routes, screen>>
  /\ app' = [app EXCEPT !.chain = chain, !.wallet = wallet]

\* The key of the action screen, and the effects of the lists, are of the chain
\* and the wallet: another one mounts it again.
Remount(chain, wallet) == Mount(routes, chain, wallet)

SwitchChain ==
  /\ Keys
  /\ \E c \in Chains \ {app.chain} : Remount(c, app.wallet)
  /\ UNCHANGED <<dialogs, asks, questions, sends, sentOnce>>

\* onWalletChange: also while a dialog is open or a plan is sent.
RefreshWallet ==
  /\ app.runs
  /\ \E w \in Holders \ {app.wallet} : Remount(app.chain, w)
  /\ UNCHANGED <<dialogs, asks, questions, sends, sentOnce>>

-----------------------------------------------------------------------------
(* Reads, and their answers *)

AskAction(what, others) ==
  /\ questions < MaxAnswers /\ questions' = questions + 1
  /\ asks' = others \cup {[id |-> questions', of |-> screen.id, what |-> what, context |-> Here]}

\* useAction and the like: a list subscribes, and reloads on request, which ends
\* the subscription before and drops the rows.
Subscribe ==
  /\ app.runs /\ screen.phase = "list" /\ AskAction("rows", {a \in asks : a.of # screen.id})
  /\ screen' = [screen EXCEPT !.shows = {}]
  /\ UNCHANGED <<app, routes, dialogs, sends, sentOnce>>

\* run: the form's parameters, for this chain and wallet.
RunForm ==
  /\ Keys /\ screen.phase \in {"form", "result"} /\ AskAction("run", asks)
  /\ screen' = [screen EXCEPT !.phase = "running", !.shows = {}]
  /\ UNCHANGED <<app, routes, dialogs, sends, sentOnce>>

\* One picker is loading at a time.
OpenPicker ==
  /\ Keys /\ screen.phase = "form" /\ ~screen.picking /\ AskAction("pick", asks)
  /\ screen' = [screen EXCEPT !.picking = TRUE]
  /\ UNCHANGED <<app, routes, dialogs, sends, sentOnce>>

Dialog(kind, context) == [kind |-> kind, of |-> screen.id, context |-> context]

\* What an answer does to the screen it is for: rows, a result, or a plan for
\* the wallet of this chain; a transaction without a wallet is not planned.
FormShown(a) ==
  \/ /\ a.what = "rows"
     /\ screen' = [screen EXCEPT !.shows = {a.context}] /\ UNCHANGED dialogs
  \/ /\ a.what = "run" /\ UNCHANGED dialogs
     /\ \/ screen' = [screen EXCEPT !.phase = "form"]
        \/ screen' = [screen EXCEPT !.phase = "result", !.shows = {a.context}]
        \/ /\ a.context.wallet # NoWallet
           /\ screen' = [screen EXCEPT !.phase = "plan", !.shows = {a.context}]
  \/ /\ a.what = "pick" /\ screen' = [screen EXCEPT !.picking = FALSE]
     /\ \/ dialogs' = Append(dialogs, Dialog("pick", a.context))
        \/ UNCHANGED dialogs

\* Faulty variant: any answer is shown.
AnyScreen(a) == TRUE

\* alive, and the subscription that is not cancelled
IsFor(a) == a.of = screen.id

AnswerAction(a) ==
  /\ app.runs /\ asks' = asks \ {a}
  /\ IF IsFor(a) THEN FormShown(a) ELSE UNCHANGED <<screen, dialogs>>
  /\ UNCHANGED <<app, routes, questions, sends, sentOnce>>

-----------------------------------------------------------------------------
(* Dialogs: the topmost has the keyboard *)

TopDialog == dialogs[Len(dialogs)]
Closed == SubSeq(dialogs, 1, Len(dialogs) - 1)

CloseDialog ==
  /\ app.runs /\ dialogs # <<>> /\ dialogs' = Closed
  /\ UNCHANGED <<app, routes, screen, asks, questions, sends, sentOnce>>

\* An item's onSelect sets the values of the form that opened the picker.
PickChoice ==
  /\ app.runs /\ dialogs # <<>> /\ TopDialog.kind = "pick" /\ dialogs' = Closed
  /\ screen' = IF TopDialog.of = screen.id THEN [screen EXCEPT !.picked = {TopDialog.context}] ELSE screen
  /\ UNCHANGED <<app, routes, asks, questions, sends, sentOnce>>

\* The actions of a row: a form with it as preset, on whatever screen is mounted.
OpenRow ==
  /\ Keys /\ screen.phase = "list"
  /\ \E row \in screen.shows : dialogs' = Append(dialogs, Dialog("row", row))
  /\ UNCHANGED <<app, routes, screen, asks, questions, sends, sentOnce>>

PickRow ==
  /\ app.runs /\ dialogs # <<>> /\ TopDialog.kind = "row" /\ dialogs' = Closed
  /\ Len(routes) < MaxDepth
  /\ Mount(Append(routes, [name |-> "action", preset |-> {TopDialog.context}]), app.chain, app.wallet)
  /\ UNCHANGED <<asks, questions, sends, sentOnce>>

-----------------------------------------------------------------------------
(* Signing *)

\* broadcast: the plan is of the chain and wallet its closure knows.
BroadcastForm(plan, of) ==
  /\ sentOnce < MaxSends /\ sentOnce' = sentOnce + 1
  /\ sends' = sends \cup {[plan |-> plan, of |-> of, id |-> sentOnce']}
  /\ IF of = screen.id
     THEN /\ screen' = [screen EXCEPT !.phase = "broadcast"]
          /\ app' = [app EXCEPT !.busy = TRUE]
     ELSE UNCHANGED <<screen, app>>

\* sign: an external wallet at once, a local one when it is unlocked.
Sign ==
  /\ Keys /\ screen.phase = "plan"
  /\ \E plan \in screen.shows :
       \/ BroadcastForm(plan, screen.id) /\ UNCHANGED dialogs
       \/ /\ dialogs' = Append(dialogs, Dialog("passphrase", plan))
          /\ UNCHANGED <<app, screen, sends, sentOnce>>
  /\ UNCHANGED <<routes, asks, questions>>

Unlocked ==
  /\ app.runs /\ dialogs # <<>> /\ TopDialog.kind = "passphrase" /\ dialogs' = Closed
  /\ BroadcastForm(TopDialog.context, TopDialog.of)
  /\ UNCHANGED <<routes, asks, questions>>

\* sendPlan is through, or failed: then the plan can be signed again.
BroadcastEnds(s) ==
  /\ app.runs /\ sends' = sends \ {s}
  /\ IF s.of = screen.id
     THEN /\ \E phase \in {"sent", "plan"} :
               screen' = [screen EXCEPT !.phase = phase,
                                        !.shows = IF phase = "plan" THEN {s.plan} ELSE {}]
          /\ app' = [app EXCEPT !.busy = FALSE]
     ELSE UNCHANGED <<screen, app>>
  /\ UNCHANGED <<routes, dialogs, asks, questions, sentOnce>>

\* Back from a result or a plan to the form.
BackToForm ==
  /\ Keys /\ screen.phase \in {"result", "plan"}
  /\ screen' = [screen EXCEPT !.phase = "form", !.shows = {}]
  /\ UNCHANGED <<app, routes, dialogs, asks, questions, sends, sentOnce>>

\* ctrl+c asks twice while it is busy; the palette and the home screen do not.
Quit ==
  /\ app.runs
  /\ app' = [app EXCEPT !.runs = FALSE]
  /\ UNCHANGED <<routes, screen, dialogs, asks, questions, sends, sentOnce>>

TuiNext ==
  \/ Push \/ Pop \/ SwitchChain \/ RefreshWallet \/ Subscribe \/ RunForm \/ OpenPicker
  \/ CloseDialog \/ PickChoice \/ OpenRow \/ PickRow \/ Sign \/ Unlocked \/ BackToForm \/ Quit
  \/ \E a \in asks : AnswerAction(a)
  \/ \E s \in sends : BroadcastEnds(s)

TuiSpec == TuiInit /\ [][TuiNext]_tuiVars

-----------------------------------------------------------------------------
(* What the screen shows - rows, a result, a plan to sign, or what was picked
   into its form - was read for the chain and the wallet that are selected now,
   however late it was answered and wherever the wallet was changed.  (The preset
   of a form's route is not: it stays when the chain is switched.) *)
ShownIsCurrent == screen.shows \cup screen.picked \subseteq {Here}
=============================================================================
