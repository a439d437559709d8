--------------------------- MODULE CustomerOrders ---------------------------
(* What a customer pays for: the bill of the cart (Billing of the Settings   *)
(* tab), the order of the cart with its form (Order tab), and servers        *)
(* ordered from a provider into the workspace (search dialog of a device).   *)
EXTENDS Naturals, FiniteSets

CONSTANTS
  Shops,             \* workspaces
  Machines, Apps,    \* devices and roles of the cart
  Offers,            \* of the providers
  NoShop, NoAlias,
  MaxBuys            \* actions of the user

Plans == {"community", "team"}
DefaultPlan == "team"       \* default_plan_id of the roles
FirstPlan == "community"    \* the first plan of their first offering
Seats == 1..2

ASSUME OrdersAssumption == MaxBuys \in Nat /\ NoShop \notin Shops

VARIABLES
  shop, carts,        \* the workspace that is open; what is selected in each of them
  team, teamNews,     \* users counted in localStorage; an event of it still to come
  bill,               \* BillingPanel
  quotes,             \* its requests for quotes: of one pass of the effect each
  tab, drafts,        \* OrderTabPanel; the forms in localStorage
  checkouts, orders,  \* its requests; the orders the API keeps
  search, servers,    \* the dialog; the devices the page lists
  hires, fleet,       \* its requests; the devices in the inventories
  buys,
  strayed             \* history: a server was reported to another workspace's page

billVars == <<team, teamNews, bill, quotes>>
formVars == <<tab, drafts, checkouts, orders>>
hireVars == <<search, servers, hires, fleet, strayed>>
ordersVars == <<shop, carts, billVars, formVars, hireVars, buys>>

\* A role is on a device or not; "unset" is a role whose plan nobody chose.
Selection == Plans \cup {"unset", "absent"}
Carts == [Machines \X Apps -> Selection]
cart == carts[shop]
Placed(c) == {p \in Machines \X Apps : c[p] # "absent"}
\* resolveRolePlan and findRolePrice: bill and order do not fall back on the same plan.
BilledPlan(choice) == IF choice = "unset" THEN DefaultPlan ELSE choice
OrderedPlan(choice) == IF choice = "unset" THEN FirstPlan ELSE choice
\* Devices that have the same role in the same plan are billed together.
Groups(c) ==
  {[app |-> p[2], plan |-> BilledPlan(c[p]),
    quantity |-> Cardinality({q \in Placed(c) : q[2] = p[2] /\ BilledPlan(c[q]) = BilledPlan(c[p])})]
     : p \in Placed(c)}
Items(c) == {[alias |-> p[1], role |-> p[2], plan |-> OrderedPlan(c[p])] : p \in Placed(c)}

\* A form is told by the workspaces for which something in it was typed.
EmptyForm == [typed |-> {}, complete |-> FALSE]
NoBill == [open |-> FALSE, seats |-> 1, rows |-> {}, loading |-> FALSE, due |-> FALSE]
NoTab == [open |-> FALSE, step |-> "overview", form |-> EmptyForm, submitting |-> FALSE,
          confirmed |-> NoShop]
NoSearch == [open |-> FALSE, target |-> NoAlias, offers |-> {}, loading |-> FALSE, busy |-> NoAlias]
\* The name of a server that is ordered without one is made of workspace and offer.
Aliases == Shops \X Offers

OrdersTypeOK ==
  /\ shop \in Shops /\ carts \in [Shops -> Carts] /\ {team, bill.seats} \subseteq Seats
  /\ {teamNews, bill.open, bill.loading, bill.due, tab.open, tab.submitting, search.open,
      search.loading, strayed} \subseteq BOOLEAN
  /\ drafts \in [Shops -> [typed : SUBSET Shops, complete : BOOLEAN]]
  /\ tab.step \in {"overview", "form"} /\ tab.confirmed \in Shops \cup {NoShop}
  /\ search.target \in Aliases \cup {NoAlias} /\ search.busy \in Offers \cup {NoAlias}
  /\ servers \subseteq Aliases /\ fleet \in [Shops -> SUBSET Aliases]
  /\ buys \in 0..MaxBuys

OrdersInit ==
  /\ shop = (CHOOSE s \in Shops : TRUE) /\ team = 1 /\ teamNews = FALSE
  /\ carts \in [Shops -> {[p \in Machines \X Apps |-> c] : c \in {"unset", "absent"}}]
  /\ bill = NoBill /\ quotes = {}
  /\ tab = NoTab /\ drafts = [s \in Shops |-> EmptyForm] /\ checkouts = {} /\ orders = {}
  /\ search = NoSearch /\ servers = {} /\ hires = {} /\ fleet = [s \in Shops |-> {}]
  /\ buys = 0 /\ strayed = FALSE

Buy == buys < MaxBuys /\ buys' = buys + 1
NotSearching == ~search.open

-----------------------------------------------------------------------------
(* The bill.                                                                 *)
Due(b) == [b EXCEPT !.due = b.open]

\* Roles and plans are chosen in the Software tab, also while quotes are asked for.
ChangeCart(p, choice) ==
  /\ Buy /\ NotSearching /\ cart[p] # choice /\ carts' = [carts EXCEPT ![shop][p] = choice]
  /\ bill' = Due(bill)
  /\ UNCHANGED <<shop, team, teamNews, quotes, formVars, hireVars>>

\* The users of the workspace are counted anew; the panel hears of it by an event.
CountUsers(n) ==
  /\ Buy /\ team' = n /\ team # n /\ teamNews' = TRUE
  /\ UNCHANGED <<shop, carts, bill, quotes, formVars, hireVars>>
UsersUpdated ==
  /\ teamNews /\ teamNews' = FALSE
  /\ bill' = IF bill.open /\ bill.seats # team THEN Due([bill EXCEPT !.seats = team]) ELSE bill
  /\ UNCHANGED <<shop, carts, team, quotes, formVars, hireVars, buys>>

OpenBilling ==
  /\ Buy /\ NotSearching /\ ~bill.open /\ bill' = [NoBill EXCEPT !.open = TRUE, !.due = TRUE]
  /\ UNCHANGED <<shop, carts, team, teamNews, quotes, formVars, hireVars>>
LeaveBilling ==
  /\ Buy /\ NotSearching /\ bill.open /\ bill' = NoBill /\ quotes' = {}
  /\ UNCHANGED <<shop, carts, team, teamNews, formVars, hireVars>>

\* The effect of a rendering: requests of the one before are given up, one is
\* sent for each group; users are counted first, which renders the panel again.
FetchQuotesOver ==  \* (Defect: requests of an earlier rendering are not given up.)
  LET groups == Groups(cart) IN
  /\ bill.due
  /\ bill' = [bill EXCEPT !.seats = team, !.due = (bill.seats # team), !.loading = (groups # {}),
                          !.rows = IF groups = {} THEN {} ELSE @]
  /\ quotes' = IF groups = {} THEN quotes
               ELSE quotes \cup {[groups |-> groups, seats |-> bill.seats]}
  /\ UNCHANGED <<shop, carts, team, teamNews, formVars, hireVars, buys>>
FetchQuotes ==
  LET groups == Groups(cart) IN
  /\ bill.due
  /\ bill' = [bill EXCEPT !.seats = team, !.due = (bill.seats # team), !.loading = (groups # {}),
                          !.rows = IF groups = {} THEN {} ELSE @]
  /\ quotes' = IF groups = {} THEN {}
               ELSE {[groups |-> groups, seats |-> bill.seats]}
  /\ UNCHANGED <<shop, carts, team, teamNews, formVars, hireVars, buys>>

\* All quotes of a pass are there; one that failed is a row with a note.
Row(g, seats) == [group |-> g, seats |-> seats]
Quoted(q) ==
  /\ q \in quotes /\ quotes' = quotes \ {q}
  /\ \E failed \in SUBSET q.groups :
       bill' = [bill EXCEPT !.loading = FALSE, !.rows = 
                  {Row(g, IF g \in failed THEN 0 ELSE q.seats) : g \in q.groups}]
  /\ UNCHANGED <<shop, carts, team, teamNews, formVars, hireVars, buys>>

-----------------------------------------------------------------------------
(* The order of the cart.                                                    *)
\* The draft of the workspace is read as the tab opens and as workspaces change.
OpenOrderTab ==
  /\ Buy /\ NotSearching /\ ~tab.open /\ tab' = [NoTab EXCEPT !.open = TRUE, !.form = drafts[shop]]
  /\ UNCHANGED <<shop, carts, billVars, drafts, checkouts, orders, hireVars>>
\* A request goes on without the tab; its answer reaches only localStorage.
LeaveOrderTab ==
  /\ Buy /\ NotSearching /\ tab.open /\ tab' = NoTab
  /\ checkouts' = {[c EXCEPT !.shown = FALSE] : c \in checkouts}
  /\ UNCHANGED <<shop, carts, billVars, drafts, orders, hireVars>>

Checkout(step) ==
  /\ Buy /\ NotSearching /\ tab.open /\ tab.step # step
  /\ step = "form" => Placed(cart) # {}
  /\ tab' = [tab EXCEPT !.step = step]
  /\ UNCHANGED <<shop, carts, billVars, drafts, checkouts, orders, hireVars>>

UpdateField(complete) ==
  LET form == [typed |-> tab.form.typed \cup {shop}, complete |-> complete] IN
  /\ Buy /\ NotSearching /\ tab.open /\ tab.step = "form"
  /\ tab' = [tab EXCEPT !.form = form, !.confirmed = NoShop]
  /\ drafts' = [drafts EXCEPT ![shop] = form]
  /\ UNCHANGED <<shop, carts, billVars, checkouts, orders, hireVars>>

\* submit; a form that is not complete, or an empty cart, is only complained of.
Submit ==
  /\ Buy /\ NotSearching /\ tab.open /\ tab.step = "form" /\ ~tab.submitting
  /\ tab.form.complete /\ Placed(cart) # {}
  /\ tab' = [tab EXCEPT !.submitting = TRUE]
  /\ checkouts' = checkouts \cup {[shop |-> shop, form |-> tab.form, items |-> Items(cart),
                                   state |-> "sent", shown |-> TRUE]}
  /\ UNCHANGED <<shop, carts, billVars, drafts, orders, hireVars>>

\* place_order: the API keeps the order, or refuses it.
PlaceOrder(c) ==
  /\ c \in checkouts /\ c.state = "sent"
  /\ \E state \in {"placed", "refused"} :
       /\ checkouts' = (checkouts \ {c}) \cup {[c EXCEPT !.state = state]}
       /\ orders' = IF state = "refused" THEN orders
                    ELSE orders \cup {[shop |-> c.shop, form |-> c.form, items |-> c.items]}
  /\ UNCHANGED <<shop, carts, billVars, tab, drafts, hireVars, buys>>
\* The draft of an order that was placed is forgotten; an answer may be lost.
OrderAnswered(c) ==
  /\ c \in checkouts /\ c.state # "sent" /\ checkouts' = checkouts \ {c}
  /\ \E confirmed \in {c.state = "placed", FALSE} :
       /\ drafts' = IF confirmed THEN [drafts EXCEPT ![c.shop] = EmptyForm] ELSE drafts
       /\ tab' = IF c.shown
                 THEN [tab EXCEPT !.submitting = FALSE,
                                  !.confirmed = IF confirmed THEN c.shop ELSE @]
                 ELSE tab
  /\ UNCHANGED <<shop, carts, billVars, orders, hireVars, buys>>

-----------------------------------------------------------------------------
(* Servers of a provider.                                                    *)
OpenSearch(target) ==
  /\ Buy /\ NotSearching /\ target \in servers \cup {NoAlias}
  /\ search' = [NoSearch EXCEPT !.open = TRUE, !.target = target, !.loading = TRUE]
  /\ UNCHANGED <<shop, carts, billVars, formVars, servers, hires, fleet, strayed>>
OffersLoaded ==
  /\ search.loading
  /\ \E offers \in {Offers, {}} :
       search' = [search EXCEPT !.loading = FALSE, !.offers = offers]
  /\ UNCHANGED <<shop, carts, billVars, formVars, servers, hires, fleet, buys, strayed>>
CloseSearch ==
  /\ Buy /\ search.open /\ search' = NoSearch
  /\ hires' = {[h EXCEPT !.shown = FALSE] : h \in hires}
  /\ UNCHANGED <<shop, carts, billVars, formVars, servers, fleet, strayed>>

\* The button of an offer is off while that offer is ordered, and of no other.
PlaceServerOrder(offer) ==
  /\ Buy /\ offer \in search.offers /\ search.busy # offer
  /\ search' = [search EXCEPT !.busy = offer]
  /\ hires' = hires \cup {[shop |-> shop, state |-> "sent", shown |-> TRUE,
       alias |-> IF search.target = NoAlias THEN <<shop, offer>> ELSE search.target]}
  /\ UNCHANGED <<shop, carts, billVars, formVars, servers, fleet, strayed>>
\* order_server writes the device into the inventory of the workspace.
ServerOrdered(h) ==
  /\ h \in hires /\ h.state = "sent"
  /\ \E state \in {"ordered", "refused"} :
       /\ hires' = (hires \ {h}) \cup {[h EXCEPT !.state = state]}
       /\ fleet' = IF state = "refused" THEN fleet
                   ELSE [fleet EXCEPT ![h.shop] = @ \cup {h.alias}]
  /\ UNCHANGED <<shop, carts, billVars, formVars, search, servers, buys, strayed>>
\* handleProviderOrderedServer adds the device to the page, whatever it shows by now.
ServerReported(h) ==
  /\ h \in hires /\ h.state # "sent" /\ hires' = hires \ {h}
  /\ \E reported \in {h.state = "ordered", FALSE} :
       /\ servers' = IF reported THEN servers \cup {h.alias} ELSE servers
       /\ strayed' = (strayed \/ (reported /\ h.shop # shop))
  /\ search' = IF h.shown THEN [search EXCEPT !.busy = NoAlias] ELSE search
  /\ UNCHANGED <<shop, carts, billVars, formVars, fleet, buys>>

-----------------------------------------------------------------------------
\* Another workspace: its cart, devices and draft; the dialog closes.
SwitchShop(s) ==
  /\ Buy /\ NotSearching /\ s # shop /\ shop' = s
  /\ bill' = Due(bill) /\ servers' = fleet[s] /\ strayed' = FALSE
  /\ tab' = IF tab.open THEN [tab EXCEPT !.form = drafts[s], !.confirmed = NoShop] ELSE tab
  /\ UNCHANGED <<carts, team, teamNews, quotes, drafts, checkouts, orders, search, hires, fleet>>

OrdersNext ==
  \/ \E p \in Machines \X Apps, choice \in Selection : ChangeCart(p, choice)
  \/ \E s \in Shops : SwitchShop(s)
  \/ \E n \in Seats : CountUsers(n)
  \/ UsersUpdated \/ OpenBilling \/ LeaveBilling \/ FetchQuotes \/ \E q \in quotes : Quoted(q)
  \/ OpenOrderTab \/ LeaveOrderTab \/ Submit
  \/ \E step \in {"overview", "form"} : Checkout(step)
  \/ \E complete \in BOOLEAN : UpdateField(complete)
  \/ \E c \in checkouts : PlaceOrder(c) \/ OrderAnswered(c)
  \/ \E target \in servers \cup {NoAlias} : OpenSearch(target)
  \/ OffersLoaded \/ CloseSearch \/ \E offer \in Offers : PlaceServerOrder(offer)
  \/ \E h \in hires : ServerOrdered(h) \/ ServerReported(h)

OrdersSpec == OrdersInit /\ [][OrdersNext]_ordersVars

-----------------------------------------------------------------------------
\* A bill that is not marked as loading is the one of the cart and the users
\* there are, in whatever order quotes are answered while roles, plans, users
\* and workspaces change (BillingPanel.tsx, the effect that fetches quotes).
BillOfCart ==
  (bill.open /\ ~bill.due /\ ~bill.loading /\ ~teamNews) =>
    /\ {r.group : r \in bill.rows} = Groups(cart)
    /\ \A r \in bill.rows : r.seats \in {0, team}

\* What is typed for one workspace is in no draft and no order of another one,
\* though one form serves them all (OrderTabPanel.tsx), and a device the page
\* lists is in the inventory of the workspace that is open, unless the answer to
\* its order came after a switch (handleProviderOrderedServer).
OrdersStayHome ==
  /\ \A s \in Shops : drafts[s].typed \subseteq {s}
  /\ \A o \in orders : o.form.typed \subseteq {o.shop}
  /\ ~strayed => servers \subseteq fleet[shop]

\* What is ordered and billed is what the page shows of its workspace, see both
\* (BillingPanel.tsx, OrderTabPanel.tsx).
OrdersAgree == BillOfCart /\ OrdersStayHome
=============================================================================
