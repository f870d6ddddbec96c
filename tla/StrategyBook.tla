---------------------------- MODULE StrategyBook ----------------------------
(***************************************************************************)
(* isolation/strategy_book.cpp: several strategies on one account, each    *)
(* with its own virtual positions, under one exposure cap.  The account's  *)
(* true position, the orders that were admitted and not yet filled and the *)
(* flattening orders on their way are the world around the book.           *)
(***************************************************************************)
EXTENDS Integers, FiniteSetsExt

CONSTANTS Strategies, Symbols,
          Mark, Marks,  \* the mark price of each symbol at first, and what marks may be
          OrderPrices,  \* the prices callers put on an order, whatever its mark is
          FillPrices,   \* the prices orders fill at
          OrderSizes,   \* signed quantities strategies ask for
          Cap,          \* account_max_exposure
          MaxOrders     \* bound on the admitted orders

\* Prices of an exchange are not negative.
ASSUME BookAssumption ==
    /\ IsFiniteSet(Strategies) /\ IsFiniteSet(Symbols)
    /\ Mark \in [Symbols -> Nat] /\ Marks \subseteq Nat
    /\ OrderPrices \subseteq Nat /\ FillPrices \subseteq Nat
    /\ OrderSizes \subseteq Int /\ Cap \in Int

VARIABLES strategies,   \* [strategy -> [positions, active]]
          account,      \* the account's true net quantity of each symbol
          pending,      \* admitted orders that have not filled: [id, s, x, f]
          flattening,   \* signed quantity of flattening orders on their way
          cash,         \* per position, paid in and out since its last square-off (history)
          slack,        \* per position, the paise its blends may have rounded away (history)
          overlap,      \* an order was admitted while another was pending (history)
          mark,         \* what the mark-price seam answers
          loose,        \* an order was priced under its mark, or a mark moved (history)
          admitted      \* how many orders were admitted (bound)

sbVars == <<strategies, account, pending, flattening, cash, slack, overlap, mark, loose, admitted>>

Flat == [net_qty |-> 0, avg_cost |-> 0, realized_pnl |-> 0]
abs64(n) == IF n < 0 THEN -n ELSE n
Smaller(a, b) == IF a < b THEN a ELSE b
\* Division of C++, towards zero; its operands here are not negative.
Blend(n, avg, f, price) == (abs64(n) * avg + abs64(f) * price) \div (abs64(n) + abs64(f))

\* Mutant of apply_fill: a fill through zero keeps the old average.
FillKeepsAverage(pos, f, price) ==
    LET n == pos.net_qty
    IN  IF n = 0 \/ (n > 0) = (f > 0)
        THEN [pos EXCEPT !.net_qty = n + f, !.avg_cost = Blend(n, @, f, price)]
        ELSE [pos EXCEPT !.net_qty = n + f,
                         !.realized_pnl = @ + (price - pos.avg_cost) *
                                          Smaller(abs64(f), abs64(n)) * (IF n > 0 THEN 1 ELSE -1)]

apply_fill(pos, f, price) ==
    LET n      == pos.net_qty
        closed == Smaller(abs64(f), abs64(n))
        sign   == IF n > 0 THEN 1 ELSE -1
    IN  IF f = 0 THEN pos
        ELSE IF n = 0 \/ (n > 0) = (f > 0)
        THEN [pos EXCEPT !.net_qty = n + f, !.avg_cost = Blend(n, @, f, price)]
        ELSE [net_qty      |-> n + f,
              realized_pnl |-> pos.realized_pnl + (price - pos.avg_cost) * closed * sign,
              avg_cost     |-> IF n + f = 0 THEN 0
                               ELSE IF abs64(f) > abs64(n) THEN price ELSE pos.avg_cost]

Net(s, x) == strategies[s].positions[x].net_qty
account_net(x) == MapThenSumSet(LAMBDA s : Net(s, x), Strategies)

Squared(pos) == IF pos.net_qty = 0 THEN pos ELSE [pos EXCEPT !.net_qty = 0, !.avg_cost = 0]

account_exposure ==
    MapThenSumSet(LAMBDA sx : abs64(Net(sx[1], sx[2])) * mark[sx[2]], Strategies \X Symbols)

is_active(s) == strategies[s].active

\* Mutant of check_new_order: the strategy's own exposure against the cap.
CheckOwnOnly(s, x, f, price) ==
    /\ is_active(s)
    /\ Cap >= 0
    /\ Cap = 0 \/ abs64(Net(s, x)) * mark[x] + abs64(f) * price <= Cap

check_new_order(s, x, f, price) ==
    /\ is_active(s)
    /\ Cap >= 0
    /\ Cap = 0 \/ account_exposure + abs64(f) * price <= Cap

-----------------------------------------------------------------------------
BookInit ==
    /\ strategies = [s \in Strategies |-> [positions |-> [x \in Symbols |-> Flat],
                                           active |-> TRUE]]
    /\ account = [x \in Symbols |-> 0]
    /\ flattening = [x \in Symbols |-> 0]
    /\ pending = {}
    /\ cash = [s \in Strategies |-> [x \in Symbols |-> 0]]
    /\ slack = [s \in Strategies |-> [x \in Symbols |-> 0]]
    /\ mark = Mark
    /\ overlap = FALSE /\ loose = FALSE /\ admitted = 0

\* The caller's price counts, not the mark of the order's own symbol.
Admit(s, x, f, price) ==
    /\ admitted < MaxOrders
    /\ check_new_order(s, x, f, price)
    /\ pending' = pending \union {[id |-> admitted, s |-> s, x |-> x, f |-> f]}
    /\ admitted' = admitted + 1
    /\ overlap' = (overlap \/ pending # {})
    /\ loose' = (loose \/ price < mark[x])
    /\ UNCHANGED <<strategies, account, flattening, cash, slack, mark>>

\* An admitted order fills: the account moves, then the book is told.
OrderFills(o, price) ==
    LET pos == strategies[o.s].positions[o.x]
    IN  /\ pending' = pending \ {o}
        /\ account' = [account EXCEPT ![o.x] = @ + o.f]
        /\ strategies' = [strategies EXCEPT ![o.s].positions[o.x] = apply_fill(@, o.f, price)]
        /\ cash' = [cash EXCEPT ![o.s][o.x] = @ - o.f * price]
        /\ slack' = [slack EXCEPT ![o.s][o.x] =
                        @ + IF (pos.net_qty > 0) = (o.f > 0) /\ pos.net_qty # 0
                            THEN abs64(pos.net_qty + o.f) - 1 ELSE 0]
        /\ UNCHANGED <<flattening, overlap, mark, loose, admitted>>

OrderLapses(o) ==
    /\ pending' = pending \ {o}
    /\ UNCHANGED <<strategies, account, flattening, cash, slack, overlap, mark, loose, admitted>>

\* Without netting the strategy's own positions, with it the account's net; the
\* book is zeroed at once, the offsetting orders are the caller's to send.
Legs(s, netting) ==
    [x \in Symbols |-> IF netting THEN -account_net(x) ELSE -Net(s, x)]

\* Mutant of Zeroed: netting zeroes the strategy it was asked for.
ZeroedOwn(s, netting) ==
    [strategies EXCEPT ![s].positions = [x \in Symbols |-> Squared(@[x])]]

Zeroed(s, netting) ==
    [t \in Strategies |->
        IF netting \/ t = s
        THEN [strategies[t] EXCEPT !.positions = [x \in Symbols |-> Squared(@[x])]]
        ELSE strategies[t]]

square_off(s, netting) ==
    /\ strategies' = Zeroed(s, netting)
    /\ flattening' = [x \in Symbols |-> flattening[x] + Legs(s, netting)[x]]
    /\ cash' = [t \in Strategies |-> [x \in Symbols |->
                   IF strategies'[t].positions[x].net_qty = Net(t, x) THEN cash[t][x]
                   ELSE strategies[t].positions[x].realized_pnl]]
    /\ slack' = [t \in Strategies |-> [x \in Symbols |->
                   IF strategies'[t].positions[x].net_qty = Net(t, x) THEN slack[t][x] ELSE 0]]
    /\ strategies' # strategies
    /\ UNCHANGED <<account, pending, overlap, mark, loose, admitted>>

FlattenFills(x) ==
    /\ flattening[x] # 0
    /\ account' = [account EXCEPT ![x] = @ + flattening[x]]
    /\ flattening' = [flattening EXCEPT ![x] = 0]
    /\ UNCHANGED <<strategies, pending, cash, slack, overlap, mark, loose, admitted>>

stop_strategy(s) ==
    /\ is_active(s)
    /\ strategies' = [strategies EXCEPT ![s].active = FALSE]
    /\ UNCHANGED <<account, pending, flattening, cash, slack, overlap, mark, loose, admitted>>

resume_strategy(s) ==
    /\ ~is_active(s)
    /\ strategies' = [strategies EXCEPT ![s].active = TRUE]
    /\ UNCHANGED <<account, pending, flattening, cash, slack, overlap, mark, loose, admitted>>

MarkMoves(x, p) ==
    /\ mark[x] # p
    /\ mark' = [mark EXCEPT ![x] = p] /\ loose' = TRUE
    /\ UNCHANGED <<strategies, account, pending, flattening, cash, slack, overlap, admitted>>

BookNext ==
    \/ \E s \in Strategies, x \in Symbols, f \in OrderSizes, p \in OrderPrices : Admit(s, x, f, p)
    \/ \E o \in pending, p \in FillPrices : OrderFills(o, p)
    \/ \E o \in pending : OrderLapses(o)
    \/ \E s \in Strategies, n \in BOOLEAN : square_off(s, n)
    \/ \E x \in Symbols : FlattenFills(x)
    \/ \E s \in Strategies : stop_strategy(s)
    \/ \E s \in Strategies : resume_strategy(s)
    \/ \E x \in Symbols, p \in Marks : MarkMoves(x, p)

-----------------------------------------------------------------------------
BookTypeOK ==
    /\ \A s \in Strategies : DOMAIN strategies[s].positions = Symbols
    /\ \A s \in Strategies, x \in Symbols :
          strategies[s].positions[x].net_qty = 0 => strategies[s].positions[x].avg_cost = 0

\* The strategies' virtual positions always add up to the account's true position
\* once the flattening orders on their way are counted: no fill and no square-off,
\* netted or not, loses or doubles a quantity between two books.
BookMatchesAccount ==
    \A x \in Symbols : account_net(x) = account[x] + flattening[x]

\* Money is conserved: what a position has realised plus what it carries at cost
\* is what was paid in and out for it, up to the paise its average-cost blends
\* rounded away, also through partial closes and fills through zero.
PnlIsConserved ==
    \A s \in Strategies, x \in Symbols :
        LET pos == strategies[s].positions[x]
            gap == pos.realized_pnl - (cash[s][x] + pos.net_qty * pos.avg_cost)
        IN  abs64(gap) <= slack[s][x]

\* What check_new_order's cap is worth afterwards: while no two admitted orders were
\* pending at once, none was priced under its symbol's mark and no mark has moved, the
\* strategies together carry no more than the cap, however fills and square-offs
\* combine.  Without any one of the three the exposure may pass the cap.
CapHoldsOneAtATime == ~overlap /\ ~loose /\ Cap > 0 => account_exposure <= Cap

\* The book as a whole: quantities and money are conserved between strategies
\* and account, and the cap holds for orders admitted one at a time at their mark or above.
BookIsSound == BookTypeOK /\ BookMatchesAccount /\ PnlIsConserved /\ CapHoldsOneAtATime
=============================================================================
