---------------------------- MODULE MCDemoTenant ----------------------------
(***************************************************************************)
(* An instance of DemoTenant for TLC: two stores with two products each,   *)
(* on two days, and a key for the store that a rebuild makes.              *)
(***************************************************************************)
EXTENDS DemoTenant, TLC

CONSTANTS demo, demo2, shop, r1, r2, r3

First == 3
MCProductOf == [v \in {1, 2} |-> v]
MCOpening == [v \in {1, 2} |-> 4]
Price == [v \in {1, 2} |-> 4 + v]
Cost == [v \in {1, 2} |-> 2 + v]
Of(v, units, discount) ==
  [variant |-> v, units |-> units, discount |-> discount, price |-> Price[v], cost |-> Cost[v]]

MCLines ==
  <<  <<Of(1, 1, 1), Of(2, 1, 0)>>, <<Of(2, 2, 0)>>, <<Of(1, 1, 0)>>, <<Of(1, 2, 3)>>,
     <<Of(2, 3, 0)>>, << >>, <<Of(2, 1, 0)>>, <<Of(1, 2, 3), Of(2, 1, 0)>> >>

\* A completed sale of an earlier day, one of today, a cancelled one, a draft.
MCSaleSpecs ==
  << [ago |-> 1, status |-> "completed", channel |-> "shop", basket |-> 1],
     [ago |-> 0, status |-> "completed", channel |-> "web", basket |-> 2],
     [ago |-> 1, status |-> "cancelled", channel |-> "web", basket |-> 3],
     [ago |-> 0, status |-> "draft", channel |-> "shop", basket |-> 4] >>

MCShopSales ==
  (<<shop, 1>> :> [status |-> "completed", number |-> 1, channel |-> "web",
                   basket |-> 3, made |-> 1, done |-> 1])
  @@ (<<shop, 2>> :> [status |-> "draft", number |-> 0, channel |-> "shop",
                      basket |-> 5, made |-> 2, done |-> Never])
  @@ (<<shop, 3>> :> [status |-> "draft", number |-> 0, channel |-> "web",
                      basket |-> 2, made |-> 1, done |-> Never])

LoginNow == [kind |-> "login"]
Seed(reset, s) == [kind |-> "seed", reset |-> reset, store |-> s]
Draft(s, i) ==
  [kind |-> "create", sale |-> <<s, i>>, channel |-> "web"]
Put(s, i) ==
  [kind |-> "add", sale |-> <<s, i>>, variant |-> 2, units |-> 1, discount |-> 0]
Sell(s, i) == [kind |-> "complete", sale |-> <<s, i>>]
Undo(s, i) == [kind |-> "cancel", sale |-> <<s, i>>]
Read(kind, s, from, to) == [kind |-> kind, store |-> s, from |-> from, to |-> to]

Together(a, b, c) == (r1 :> a) @@ (r2 :> b) @@ (r3 :> c)

MCTraffic ==
  { Together(LoginNow, LoginNow, Undo(demo, 2)),
    Together(LoginNow, LoginNow, Sell(demo, 4)),
    Together(LoginNow, Seed(TRUE, demo2), Sell(demo, 4)),
    Together(Put(demo, 5), Draft(demo, 5), Sell(demo, 5)),
    Together(Put(demo, 4), Seed(TRUE, demo2), Sell(demo, 4)),
    Together(Put(demo, 4), Read("report", demo, 0, Today), Sell(demo, 4)),
    Together(LoginNow, Seed(FALSE, demo), Seed(TRUE, demo2)),
    Together(Seed(TRUE, demo2), Draft(demo, 5), Undo(demo, 1)),
    Together(Seed(TRUE, demo2), Sell(shop, 2), Undo(shop, 1)),
    Together(Read("report", demo, 0, Today), Sell(demo, 4), Undo(demo, 2)),
    Together(Read("report", demo, Today, Today), Seed(TRUE, demo2), Read("report", shop, 1, 0)),
    Together(Read("dashboard", shop, Today, Today), Sell(shop, 2), Sell(shop, 3)) }
=============================================================================
