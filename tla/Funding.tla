------------------------------ MODULE Funding ------------------------------
(***************************************************************************)
(* The end of a file: its funding, the commission it earns and the renewal *)
(* it will be: src/http/routes/funding.ts, src/domain/money.ts and         *)
(* commissionPayoutBlockers of src/services/compliance.ts, for one file.   *)
(*                                                                         *)
(* A route reads and checks with no transaction and then writes, so a      *)
(* request is at least two steps.  Amounts are cents, a few of them; dates *)
(* are days.                                                               *)
(***************************************************************************)
EXTENDS Integers, FiniteSets, Sequences

CONSTANTS
  Commissions, Renewals,  \* bound: rows a confirmation may make
  Workers,    \* bound: requests at the same time
  Amounts,    \* cents
  Days,
  MaxSteps,   \* bound: requests
  None

(* DEFAULT_MILESTONES, in days before maturity.                            *)
Before == [t_minus_3m |-> 2, t_minus_45d |-> 1]
Milestones == DOMAIN Before
Paid == {"received", "reconciled", "closed"}
Statuses == Paid \cup {"expected", "variance"}
Open == {"upcoming", "in_progress"}

(* A share: a fixed amount off the top, or a percentage of what is left.   *)
Fixed(n) == [amount |-> n, percent |-> None]
Percent(n) == [amount |-> None, percent |-> n]
Tables == {<<Fixed(1), Percent(50), Percent(50)>>, <<Percent(33), Percent(33), Percent(34)>>,
    <<Fixed(1)>>}

(* The rows of the three tables, and none of them is None.                 *)
FundingRow == [amount : Amounts, maturity : Days, confirmed : BOOLEAN]
CommissionRow ==
  [expected : Amounts, received : Amounts \cup {None}, variance : Int \cup {None},
   status : Statuses, note : BOOLEAN, base : Amounts, table : Tables, splits : Seq(Int)]
RenewalRow ==
  [maturity : Days, status : Open \cup {"renewed_with_us"},
   milestones : [Milestones ->
     [due : Int, status : {"pending", "skipped", "cancelled"}]]]

FundingAssumption ==
  /\ Amounts \subseteq Nat /\ Days \subseteq Int /\ MaxSteps \in Nat
  /\ None \notin Int \cup FundingRow \cup CommissionRow \cup RenewalRow

VARIABLES
  funding,     \* the row of funding_records, or None
  won,         \* the file is in the won stage
  commission,  \* commission[c]: a row of commission_records with its splits, or None
  renewal,     \* renewal[r]: a row of renewal_records with its milestones, or None
  complete,    \* no required item of the compliance case is outstanding or rejected
  work,        \* work[w]: the request under way
  steps,
  overlapped,  \* ghost: what two requests that overlapped have both written
  reopened     \* ghost: renewals opened again after they were resolved

vars == <<funding, won, commission, renewal, complete, work, steps, overlapped, reopened>>

Idle == [kind |-> "idle"]

Init ==
  /\ funding \in {None} \cup [amount : Amounts, maturity : Days, confirmed : {FALSE}]
  /\ won = FALSE /\ complete \in BOOLEAN
  /\ commission = [c \in Commissions |-> None] /\ renewal = [r \in Renewals |-> None]
  /\ work = [w \in Workers |-> Idle] /\ steps = 0 /\ overlapped = {} /\ reopened = {}

Start(w, op) ==
  /\ work[w] = Idle /\ steps < MaxSteps
  /\ steps' = steps + 1
  /\ work' = [work EXCEPT ![w] = op]
  /\ UNCHANGED <<funding, won, commission, renewal, complete, overlapped, reopened>>

Done(w) == work' = [work EXCEPT ![w] = Idle]

(* Requests still to write what is written now will write over it.         *)
Others(w, what) == \E v \in Workers \ {w} : work[v] # Idle /\ work[v].on = what

-----------------------------------------------------------------------------
(* divideCommission.                                                       *)

Rounded(cents, percent) == (2 * cents * percent + 100) \div 200

Total(amounts) ==
  LET upTo[i \in 0 .. Len(amounts)] == IF i = 0 THEN 0 ELSE upTo[i - 1] + amounts[i] IN
          upTo[Len(amounts)]

(* Fault: what the rounding left over goes to nobody.                      *)
LeaveRest(amounts, rest) == amounts

(* The largest share takes what the rounding left over.                    *)
GiveRest(amounts, rest) ==
  LET i == CHOOSE i \in DOMAIN amounts : \A j \in DOMAIN amounts :
             amounts[j] < amounts[i] \/ (amounts[j] = amounts[i] /\ i <= j)
  IN [amounts EXCEPT ![i] = @ + rest]

FixedTotal(table) == Total([i \in DOMAIN table |-> IF table[i].amount = None THEN 0
    ELSE table[i].amount])

Shares(gross, table) ==
  LET pool == IF gross > FixedTotal(table) THEN gross - FixedTotal(table) ELSE 0
      shares == [i \in DOMAIN table |-> IF table[i].amount # None THEN table[i].amount
                                        ELSE Rounded(pool, table[i].percent)]
      rest == gross - Total(shares)
  IN IF rest # 0 /\ rest <= Len(table) /\ -rest <= Len(table) THEN GiveRest(shares, rest)
      ELSE shares

(* The percentages of Tables come to 100.                                  *)
Problems(gross, table) == FixedTotal(table) > gross

-----------------------------------------------------------------------------
(* Recording and confirming the funding.                                   *)

AskFunding(w, amount, maturity, admin) ==
  /\ funding # None /\ funding.confirmed => admin
  /\ Start(w, [kind |-> "fund", on |-> "funding", new |-> (funding = None), amount |-> amount,
               maturity |-> maturity])

(* A second first record meets the unique application and fails.           *)
WriteFunding(w) ==
  LET op == work[w] IN
  /\ op.kind = "fund"
  /\ funding' = IF op.new /\ funding # None THEN funding
                ELSE [amount |-> op.amount, maturity |-> op.maturity,
                      confirmed |-> IF op.new THEN FALSE ELSE funding.confirmed]
  /\ overlapped' = IF Others(w, "funding") \/ (~op.new /\ funding.confirmed)
                     THEN overlapped \cup {"funding"} ELSE overlapped
  /\ Done(w)
  /\ UNCHANGED <<won, commission, renewal, complete, steps, reopened>>

(* Fault: a confirmed funding may be confirmed again.                      *)
ConfirmAgain == TRUE

NotConfirmed == ~funding.confirmed

AskConfirm(w, table) ==
  /\ funding # None /\ NotConfirmed
  /\ ~Problems(funding.amount, table) /\ Total(Shares(funding.amount, table)) = funding.amount
  /\ Start(w, [kind |-> "confirm", on |-> "funding", saw |-> funding, table |-> table])

(* today is any day.                                                       *)
MilestonesFor(maturity, today) ==
  [m \in Milestones |-> [due |-> maturity - Before[m],
                         status |-> IF maturity - Before[m] < today THEN "skipped" ELSE "pending"]]

(* The row confirmed, the file won, the commission expected and the        *)
(* renewal planned, in one transaction, from the figures read before it.   *)
Confirm(w) ==
  LET op == work[w]
      c == CHOOSE x \in Commissions : commission[x] = None
      r == CHOOSE x \in Renewals : renewal[x] = None IN
  /\ op.kind = "confirm"
  /\ \E x \in Commissions : commission[x] = None
  /\ \E x \in Renewals : renewal[x] = None
  /\ funding' = [funding EXCEPT !.confirmed = TRUE]
  /\ won' = TRUE
  /\ commission' = [commission EXCEPT ![c] =
       [expected |-> op.saw.amount, received |-> None, variance |-> None, status |-> "expected",
        note |-> FALSE, base |-> op.saw.amount, table |-> op.table,
        splits |-> Shares(op.saw.amount, op.table)]]
  /\ \E today \in Days :
       renewal' = [renewal EXCEPT ![r] = [maturity |-> op.saw.maturity, status |-> "upcoming",
                                          milestones |-> MilestonesFor(op.saw.maturity, today)]]
  /\ overlapped' = IF Others(w, "funding") \/ funding # op.saw THEN overlapped \cup {"funding"}
         ELSE overlapped
  /\ Done(w)
  /\ UNCHANGED <<complete, steps, reopened>>

-----------------------------------------------------------------------------
(* PUT /commissions/:id.                                                   *)

Difference(expected, received) == IF received = None THEN None ELSE received - expected

Differs(expected, received) == received # None /\ received # expected

(* Fault: what arrived short is received.                                  *)
StatusAsSaid(status, expected, received) == status

StatusAfter(status, expected, received) ==
  IF status = "received" /\ Differs(expected, received) THEN "variance" ELSE status

(* What the request says wins over the record; the splits may be replaced. *)
AskCommission(w, c, said, received, note, table) ==
  LET row == commission[c]
      got == IF received = None THEN row.received ELSE received
      status == IF said = None THEN row.status ELSE said IN
  /\ row # None
  /\ status = "reconciled" /\ Differs(row.expected, got) => note
  /\ note => Differs(row.expected, got)
  /\ table # None => ~Problems(IF got # None THEN got ELSE row.expected, table)
  /\ Start(w, [kind |-> "commission", on |-> c, at |-> "check", expected |-> row.expected,
         received |-> got,
               status |-> StatusAfter(status, row.expected, got), note |-> note, table |-> table,
               was |-> row.status, late |-> FALSE])

(* Fault: closing a commission does not ask about compliance.              *)
AsksUnlessClosed(op) == op.status \in Paid \ {"closed"} /\ op.was \notin Paid

MustAsk(op) == op.status \in Paid /\ op.was \notin Paid

(* commissionPayoutBlockers, on the way in to a paid state only.           *)
CheckBlockers(w) ==
  LET op == work[w] IN
  /\ op.kind = "commission" /\ op.at = "check"
  /\ work' = [work EXCEPT ![w] = IF MustAsk(op) /\ ~complete THEN Idle
                                 ELSE [@ EXCEPT !.at = IF op.table = None THEN "write"
                                     ELSE "split"]]
  /\ UNCHANGED <<funding, won, commission, renewal, complete, steps, overlapped, reopened>>

ReplaceSplits(w) ==
  LET op == work[w]  base == IF op.received # None THEN op.received ELSE op.expected IN
  /\ op.kind = "commission" /\ op.at = "split"
  /\ commission' = [commission EXCEPT ![op.on].splits = Shares(base, op.table),
         ![op.on].table = op.table,
                                      ![op.on].base = base]
  /\ work' = [work EXCEPT ![w].at = "write"]
  /\ UNCHANGED <<funding, won, renewal, complete, steps, overlapped, reopened>>

WriteCommission(w) ==
  LET op == work[w]  c == op.on IN
  /\ op.kind = "commission" /\ op.at = "write"
  /\ commission' = [commission EXCEPT
       ![c].expected = op.expected, ![c].received = op.received, ![c].status = op.status,
       ![c].variance = Difference(op.expected, op.received), ![c].note = @ \/ op.note]
  /\ work' = [v \in Workers |-> IF v = w THEN Idle
                                ELSE IF work[v] # Idle /\ work[v].on = c
                                    /\ work[v].kind = "commission"
                                  THEN [work[v] EXCEPT !.late = TRUE] ELSE work[v]]
  /\ UNCHANGED <<funding, won, renewal, complete, steps, overlapped, reopened>>

(* The compliance case is completed, or asks for more.                     *)
Compliance ==
  /\ steps < MaxSteps /\ steps' = steps + 1
  /\ complete' = ~complete
  /\ work' = [w \in Workers |-> IF work[w].kind = "commission" THEN
         [work[w] EXCEPT !.late = TRUE] ELSE work[w]]
  /\ UNCHANGED <<funding, won, commission, renewal, overlapped, reopened>>

-----------------------------------------------------------------------------
(* POST /renewals/:id.                                                     *)

AskRenewal(w, r, status, maturity) ==
  /\ renewal[r] # None /\ (status # None \/ maturity # None)
  /\ Start(w, [kind |-> "renewal", on |-> r, status |-> status, maturity |-> maturity,
               was |-> renewal[r].maturity])

(* Fault: the milestones keep the dates they had.                          *)
LeftBehind(row, maturity, today) == row.milestones

Redated(row, maturity, today) ==
  [m \in Milestones |-> IF row.milestones[m].status = "pending" THEN
      MilestonesFor(maturity, today)[m]
                        ELSE row.milestones[m]]

Stopped(row) ==
  [m \in Milestones |-> IF row.milestones[m].status = "pending"
     THEN [row.milestones[m] EXCEPT !.status = "cancelled"] ELSE row.milestones[m]]

(* Whether the date moved is judged by the date read before.               *)
WriteRenewal(w) ==
  LET op == work[w]  r == op.on  row == renewal[r]
      resolving == op.status # None /\ op.status \notin Open
      moved == op.maturity # None /\ op.maturity # op.was IN
  /\ op.kind = "renewal"
  /\ \E today \in Days : renewal' = [renewal EXCEPT ![r] =
       [status |-> IF op.status = None THEN row.status ELSE op.status,
        maturity |-> IF op.maturity = None THEN row.maturity ELSE op.maturity,
        milestones |-> IF resolving THEN Stopped(row)
                       ELSE IF moved THEN Redated(row, op.maturity, today) ELSE row.milestones]]
  /\ overlapped' = IF op.maturity # None /\ row.maturity # op.was THEN overlapped \cup {r}
         ELSE overlapped
  /\ reopened' = IF op.status \in Open /\ row.status \notin Open THEN reopened \cup {r}
         ELSE reopened
  /\ Done(w)
  /\ UNCHANGED <<funding, won, commission, complete, steps>>

-----------------------------------------------------------------------------
(* The request ends with the process or its connection.                    *)
Exit(w) ==
  /\ work[w] # Idle /\ Done(w)
  /\ UNCHANGED <<funding, won, commission, renewal, complete, steps, overlapped, reopened>>

Ask(w) ==
  \/ \E amount \in Amounts, maturity \in Days, admin \in BOOLEAN :
         AskFunding(w, amount, maturity, admin)
  \/ \E table \in Tables : AskConfirm(w, table)
  \/ \E c \in Commissions, said \in Statuses \cup {None}, received \in Amounts \cup {None},
        note \in BOOLEAN, table \in Tables \cup {None} : commission[c] # None
            /\ AskCommission(w, c, said, received, note, table)
  \/ \E r \in Renewals, status \in Open \cup {"renewed_with_us", None}, maturity \in Days
         \cup {None} :
       AskRenewal(w, r, status, maturity)

Next ==
  \/ \E w \in Workers : \/ steps < MaxSteps /\ work[w] = Idle /\ Ask(w)
                        \/ Exit(w)
                        \/ WriteFunding(w) \/ Confirm(w) \/ WriteRenewal(w)
                        \/ CheckBlockers(w) \/ ReplaceSplits(w) \/ WriteCommission(w)
  \/ Compliance

Spec == Init /\ [][Next]_vars

-----------------------------------------------------------------------------
(* Properties.                                                             *)

TypeOK ==
  /\ funding \in {None} \cup FundingRow /\ won \in BOOLEAN /\ complete \in BOOLEAN
  /\ commission \in [Commissions -> {None} \cup CommissionRow]
  /\ renewal \in [Renewals -> {None} \cup RenewalRow]
  /\ \A c \in Commissions : commission[c] # None => won /\ funding # None /\ funding.confirmed

(* A file is confirmed once, its commission is expected on the amount, and *)
(* its renewal planned for the date, that the funding has, unless requests *)
(* overlapped or an admin amended it since.                                *)
ConfirmedOnce ==
  "funding" \notin overlapped =>
    /\ Cardinality({c \in Commissions : commission[c] # None}) <= 1
    /\ Cardinality({r \in Renewals : renewal[r] # None}) <= 1
    /\ \A c \in Commissions : commission[c] # None => commission[c].expected = funding.amount

(* A table of splits never pays out more than was divided, pays nobody     *)
(* less than nothing, and with a percentage in it pays out every cent; the *)
(* difference that is recorded is the one between the amounts recorded,    *)
(* and nothing that came short is received, or reconciled unexplained:     *)
(* however requests on one commission overlap.                             *)
MoneyAddsUp ==
  \A c \in Commissions : commission[c] # None => LET row == commission[c] IN
    /\ Total(row.splits) <= row.base /\ \A i \in DOMAIN row.splits : row.splits[i] >= 0
    /\ (\E i \in DOMAIN row.table : row.table[i].percent # None) => Total(row.splits) = row.base
    /\ row.variance = Difference(row.expected, row.received)
    /\ Differs(row.expected, row.received) =>
         row.status # "received" /\ (row.status = "reconciled" => row.note)

(* A commission becomes paid while compliance is incomplete only if the    *)
(* case or the record changed after the request had looked.                *)
PaysWhenComplete ==
  \A c \in Commissions :
    /\ commission[c] # None
    /\ commission'[c].status \in Paid /\ commission[c].status \notin Paid
    => \/ complete
       \/ \E w \in Workers : work[w] # Idle /\ work[w].kind = "commission" /\
            work[w].on = c /\ work[w].late
PaidWhenComplete == [][PaysWhenComplete]_vars

(* A milestone still to come is the days before the renewal's own date,    *)
(* whatever order requests move it, and a renewal has pending milestones   *)
(* or cancelled ones according to whether it is open.                      *)
MilestonesFollow ==
  \A r \in Renewals : renewal[r] # None => \A m \in Milestones :
    LET row == renewal[r]  one == row.milestones[m] IN
    /\ one.status = "pending" /\ r \notin overlapped => one.due = row.maturity - Before[m]
    /\ row.status \notin Open => one.status # "pending"
    /\ row.status \in Open /\ r \notin reopened => one.status # "cancelled"
=============================================================================
