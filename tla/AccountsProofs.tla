--------------------------- MODULE AccountsProofs ---------------------------
(***************************************************************************)
(* Theorems about CustomerAccounts for every value of its constants.       *)
(* AccountsInv is shown inductive.  Its bounds only grow: points are given *)
(* and sales recorded, never taken back, so that a row that was within     *)
(* them when it was read still is when it is written (lemma StillEarned).  *)
(***************************************************************************)
EXTENDS AccountsInvariant, FiniteSetTheorems, TLAPS

----------------------------------------------------------------------------
(* Types *)

\* An idle job slot is a job row.
LEMMA IdleType == IdleJob \in JobRow
<1>1. NewCustomer \in CustomerRow
  BY DEF NewCustomer, CustomerRow
<1> QED
  BY <1>1 DEF JobRow, IdleJob, PC

\* The fields of a job row.
LEMMA JobFields ==
  ASSUME NEW h \in JobRow
  PROVE  /\ h.pc \in PC
         /\ h.customer \in Customer \cup {NoCustomer}
         /\ h.row \in CustomerRow
         /\ h.n \in Nat
         /\ h.active \in BOOLEAN
         /\ h.sale \in Sale \cup {NoSale}
         /\ h.todo \in SUBSET Customer
         /\ h.shot \in [Customer -> Nat]
  BY DEF JobRow

\* The fields of a customer row.
LEMMA RowFields ==
  ASSUME NEW row \in CustomerRow
  PROVE  /\ row.points \in Nat
         /\ row.spent \in Nat
         /\ row.tier \in SUBSET Rank
         /\ row.active \in BOOLEAN
         /\ row.deleted \in BOOLEAN
  BY DEF CustomerRow

----------------------------------------------------------------------------
(* Ranks and sales *)

\* A higher total reaches the ranks of a lower one.
LEMMA ReachedGrows ==
  ASSUME NEW table \in [Rank -> Nat], NEW m \in Nat, NEW n \in Nat, m <= n
  PROVE  Reached(table, m) \subseteq Reached(table, n)
<1> SUFFICES ASSUME NEW k \in Rank, table[k] <= m PROVE table[k] <= n
  BY DEF Reached
<1>1. table[k] \in Nat
  OBVIOUS
<1> QED
  BY <1>1

\* Ranks are reached among the ranks.
LEMMA ReachedType == \A table, n : Reached(table, n) \in SUBSET Rank
  BY DEF Reached

\* A set of sales has a number of elements, and a subset no more of them.
LEMMA SaleCount ==
  ASSUME NEW A \in SUBSET Sale, NEW B \in SUBSET A
  PROVE  /\ Cardinality(A) \in Nat
         /\ Cardinality(B) \in Nat
         /\ Cardinality(B) <= Cardinality(A)
<1>1. IsFiniteSet(A)
  BY FS_Subset, AccountsAssumption
<1>2. IsFiniteSet(B) /\ Cardinality(B) <= Cardinality(A)
  BY <1>1, FS_Subset
<1> QED
  BY <1>1, <1>2, FS_CardinalityType

\* Several sales are worth more than fewer.
LEMMA PriceTimes ==
  ASSUME NEW m \in Nat, NEW n \in Nat, m <= n
  PROVE  /\ Price * m \in Nat
         /\ Price * n \in Nat
         /\ Price * m <= Price * n
<1>1. Price \in Nat
  BY AccountsAssumption
<1>2. PICK d \in Nat : n = m + d
  <2>1. n - m \in Nat /\ n = m + (n - m)
    OBVIOUS
  <2> QED
    BY <2>1
<1>3. Price * n = Price * m + Price * d
  BY <1>1, <1>2
<1>4. Price * m \in Nat /\ Price * d \in Nat
  BY <1>1, <1>2
<1> QED
  BY <1>3, <1>4

\* What bounds a customer's total is a number.
LEMMA WorthType ==
  ASSUME TypeOK, NEW c \in Customer
  PROVE  Worth(c) \in Nat
<1>1. Cardinality(SoldTo(c)) \in Nat
  BY SaleCount DEF SoldTo
<1>2. Price * Cardinality(SoldTo(c)) \in Nat
  BY <1>1, PriceTimes
<1> QED
  BY <1>2 DEF Worth, TypeOK

----------------------------------------------------------------------------
(* What every action keeps *)

\* A sale that was made stays, with its customer; points and cents that
\* were given stay given.
Frame ==
  /\ \A s \in Sale : sales[s].status # "none" =>
        sales'[s].status # "none" /\ sales'[s].customer = sales[s].customer
  /\ granted' \in [Customer -> Nat]
  /\ \A c \in Customer : granted[c] <= granted'[c]
  /\ cents' \in [Customer -> Nat]
  /\ \A c \in Customer : cents[c] <= cents'[c]

\* Under Frame, what bounds a customer's total does not fall.
LEMMA WorthGrows ==
  ASSUME TypeOK, Frame, NEW c \in Customer
  PROVE  Worth(c)' \in Nat /\ Worth(c) <= Worth(c)'
<1>1. SoldTo(c) \subseteq SoldTo(c)' /\ SoldTo(c)' \in SUBSET Sale
  BY DEF Frame, SoldTo
<1>2. /\ Cardinality(SoldTo(c)) \in Nat /\ Cardinality(SoldTo(c)') \in Nat
      /\ Cardinality(SoldTo(c)) <= Cardinality(SoldTo(c)')
  BY <1>1, SaleCount
<1>3. PICK m \in Nat : m = Price * Cardinality(SoldTo(c))
  BY <1>2, PriceTimes
<1>4. PICK n \in Nat : n = Price * Cardinality(SoldTo(c)') /\ m <= n
  BY <1>2, <1>3, PriceTimes
<1>5. cents[c] \in Nat /\ cents'[c] \in Nat /\ cents[c] <= cents'[c]
  BY DEF TypeOK, Frame
<1>6. Worth(c) = m + cents[c] /\ Worth(c)' = n + cents'[c]
  BY <1>3, <1>4 DEF Worth
<1> QED
  BY <1>4, <1>5, <1>6

\* The ranks a row may have, which is what Earned says of its tier.
Allowed(c) == TierOf(Worth(c)) \cup Reached(PageSpending, Worth(c))

LEMMA AllowedGrows ==
  ASSUME TypeOK, Frame, NEW c \in Customer
  PROVE  Allowed(c) \subseteq Allowed(c)'
<1>1. /\ Worth(c) \in Nat /\ Worth(c)' \in Nat
      /\ Worth(c) <= Worth(c)'
  BY WorthType, WorthGrows
<1>2. Reached(Spending, Worth(c)) \subseteq Reached(Spending, Worth(c)')
  BY <1>1, ReachedGrows, AccountsAssumption
<1>3. Reached(PageSpending, Worth(c))
         \subseteq Reached(PageSpending, Worth(c)')
  BY <1>1, ReachedGrows, AccountsAssumption
<1> QED
  BY <1>2, <1>3 DEF Allowed, TierOf, Reached

\* Under Frame, a row that was earned still is.
LEMMA StillEarned ==
  ASSUME TypeOK, Frame, NEW c \in Customer, NEW row \in CustomerRow,
         Earned(c, row)
  PROVE  Earned(c, row)'
<1>1. row.points <= granted'[c]
  BY RowFields DEF Earned, TypeOK, Frame
<1>2. row.spent <= Worth(c)'
  BY RowFields, WorthType, WorthGrows DEF Earned
<1>3. row.tier \subseteq Allowed(c)'
  BY AllowedGrows DEF Earned, Allowed
<1> QED
  BY <1>1, <1>2, <1>3 DEF Earned, Allowed

\* A row with a tier of its own total has earned it.
LEMMA TierEarned ==
  ASSUME TypeOK, NEW c \in Customer, NEW row \in CustomerRow, Earned(c, row)
  PROVE  /\ TierOf(row.spent) \subseteq Allowed(c)
         /\ Reached(PageSpending, row.spent) \subseteq Allowed(c)
<1>1. row.spent \in Nat /\ Worth(c) \in Nat /\ row.spent <= Worth(c)
  BY RowFields, WorthType DEF Earned
<1>2. Reached(Spending, row.spent) \subseteq Reached(Spending, Worth(c))
  BY <1>1, ReachedGrows, AccountsAssumption
<1>3. Reached(PageSpending, row.spent)
         \subseteq Reached(PageSpending, Worth(c))
  BY <1>1, ReachedGrows, AccountsAssumption
<1> QED
  BY <1>2, <1>3 DEF Allowed, TierOf

\* Under Frame, what a handler holds stays true.
LEMMA StillHeld ==
  ASSUME TypeOK, Frame, NEW h \in JobRow, JobHeld(h)
  PROVE  JobHeld(h)'
<1> USE JobFields
<1>1. h.pc \in Reading => h.customer \in Customer /\ Earned(h.customer, h.row)'
  BY StillEarned DEF JobHeld
<1>2. h.pc = "voidCommit" =>
         h.sale \in Sale /\ sales'[h.sale].status # "none"
  BY DEF JobHeld, Frame
<1>3. \A c \in Customer : h.shot[c] <= granted'[c]
  BY DEF JobHeld, Frame, TypeOK
<1>4. h.pc = "redeemSave" => h.n <= h.row.points
  BY DEF JobHeld
<1> QED
  BY <1>1, <1>2, <1>3, <1>4 DEF JobHeld, Reading

\* An idle slot holds nothing.
LEMMA IdleHeld == TypeOK' => JobHeld(IdleJob)'
  BY DEF JobHeld, IdleJob, Reading, TypeOK

\* The job slots after a step that changes one of them.
LEMMA JobsKept ==
  ASSUME AccountsInv, Frame, NEW j \in Job, NEW h \in JobRow, JobHeld(h)',
         job' = [job EXCEPT ![j] = h]
  PROVE  Held' /\ job' \in [Job -> JobRow]
<1>1. job' \in [Job -> JobRow]
  BY DEF AccountsInv, TypeOK
<1>2. Held'
  <2> SUFFICES ASSUME NEW k \in Job, NEW g \in JobRow, g = job'[k]
               PROVE  JobHeld(g)'
    BY <1>1 DEF Held, JobHeld, Earned
  <2>1. CASE k = j
    BY <2>1 DEF AccountsInv, TypeOK
  <2>2. CASE k # j
    <3>1. g = job[k] /\ TypeOK
      BY <2>2 DEF AccountsInv, TypeOK
    <3>2. JobHeld(g)
      BY <3>1 DEF AccountsInv, Held
    <3> QED
      BY <3>1, <3>2, StillHeld
  <2> QED
    BY <2>1, <2>2
<1> QED
  BY <1>1, <1>2

\* What a step that changes no job slot has to do to keep AccountsInv.
LEMMA StatementKeeps ==
  ASSUME AccountsInv, Frame, UNCHANGED job,
         customers' \in [Customer -> CustomerRow],
         sales' \in [Sale -> SaleRow], SalesNamed',
         \A c \in Customer : \A row \in CustomerRow :
            row = customers'[c] => Earned(c, row)'
  PROVE  AccountsInv'
<1>1. TypeOK'
  BY DEF AccountsInv, TypeOK, Frame
<1>2. AccountsEarned'
  BY DEF AccountsEarned, Earned
<1>3. Held'
  <2> SUFFICES ASSUME NEW k \in Job, NEW g \in JobRow, g = job[k]
               PROVE  JobHeld(g)'
    BY DEF Held, JobHeld, Earned, AccountsInv, TypeOK
  <2>1. JobHeld(g) /\ TypeOK
    BY DEF AccountsInv, Held
  <2> QED
    BY <2>1, StillHeld
<1> QED
  BY <1>1, <1>2, <1>3 DEF AccountsInv

\* What a step of one handler has to do to keep AccountsInv.
LEMMA Keeps ==
  ASSUME AccountsInv, Frame, NEW j \in Job, NEW h \in JobRow, JobHeld(h)',
         job' = [job EXCEPT ![j] = h],
         customers' \in [Customer -> CustomerRow],
         sales' \in [Sale -> SaleRow], SalesNamed',
         \A c \in Customer : \A row \in CustomerRow :
            row = customers'[c] => Earned(c, row)'
  PROVE  AccountsInv'
<1>1. Held' /\ job' \in [Job -> JobRow]
  BY JobsKept
<1>2. TypeOK'
  BY <1>1 DEF AccountsInv, TypeOK, Frame
<1>3. AccountsEarned'
  BY DEF AccountsEarned, Earned
<1> QED
  BY <1>1, <1>2, <1>3 DEF AccountsInv

\* A row that is left as it is stays earned.
LEMMA SameEarned ==
  ASSUME AccountsInv, Frame, NEW c \in Customer, NEW row \in CustomerRow,
         row = customers[c]
  PROVE  Earned(c, row)'
<1>1. TypeOK /\ Earned(c, row)
  BY DEF AccountsInv, AccountsEarned
<1> QED
  BY <1>1, StillEarned

----------------------------------------------------------------------------
(* Steps that only read *)

\* Nothing written, and nothing held but what is so now.
LEMMA ReadKeeps ==
  ASSUME AccountsInv, UNCHANGED <<customers, sales, granted, cents>>,
         NEW j \in Job, NEW h \in JobRow, JobHeld(h),
         job' = [job EXCEPT ![j] = h]
  PROVE  AccountsInv'
<1>1. Frame /\ TypeOK
  <2>1. \A c \in Customer : granted[c] \in Nat /\ cents[c] \in Nat
    BY DEF AccountsInv, TypeOK
  <2> QED
    BY <2>1 DEF Frame, AccountsInv, TypeOK
<1>2. JobHeld(h)'
  BY <1>1, StillHeld
<1>3. SalesNamed'
  BY DEF AccountsInv, SalesNamed
<1>4. customers' \in [Customer -> CustomerRow] /\ sales' \in [Sale -> SaleRow]
  BY DEF AccountsInv, TypeOK
<1>5. \A c \in Customer : \A row \in CustomerRow :
         row = customers'[c] => Earned(c, row)'
  BY <1>1, SameEarned
<1> QED
  BY <1>1, <1>2, <1>3, <1>4, <1>5, Keeps

\* A handler that is done, or gives up, holds nothing.
LEMMA DoneKeeps ==
  ASSUME AccountsInv, NEW j \in Job, Done(j),
         UNCHANGED <<customers, sales, granted, cents>>
  PROVE  AccountsInv'
<1>1. JobHeld(IdleJob)
  BY DEF JobHeld, IdleJob, Reading, AccountsInv, TypeOK
<1> QED
  BY <1>1, IdleType, ReadKeeps DEF Done

\* A customer's row was earned when it is read.
LEMMA FoundEarned ==
  ASSUME AccountsInv, NEW c \in Customer
  PROVE  customers[c] \in CustomerRow /\ Earned(c, customers[c])
  BY DEF AccountsInv, AccountsEarned, TypeOK

LEMMA FindKeeps ==
  ASSUME AccountsInv, NEW j \in Job, NEW c \in Customer,
         NEW pc \in Reading \ {"voidCommit"}, NEW n \in Nat,
         NEW active \in BOOLEAN, Find(j, c, pc, n, active),
         pc = "redeemSave" => n <= customers[c].points
  PROVE  AccountsInv'
<1> DEFINE h == [IdleJob EXCEPT !.pc = pc, !.customer = c, !.n = n,
                                !.row = customers[c], !.active = active]
<1>1. customers[c] \in CustomerRow /\ Earned(c, customers[c])
  BY FoundEarned
<1>2. h \in JobRow
  BY <1>1, IdleType DEF JobRow, PC, Reading, IdleJob
<1>3. /\ h.pc = pc /\ h.customer = c /\ h.n = n /\ h.row = customers[c]
      /\ h.shot = [x \in Customer |-> 0]
  BY DEF IdleJob
<1>4. \A x \in Customer : h.shot[x] <= granted[x]
  BY <1>3 DEF AccountsInv, TypeOK
<1>5. JobHeld(h)
  BY <1>1, <1>3, <1>4 DEF JobHeld
<1> HIDE DEF h
<1> QED
  BY <1>2, <1>5, ReadKeeps DEF Find, h

LEMMA VoidReadKeeps ==
  ASSUME AccountsInv, NEW j \in Job, NEW s \in Sale, VoidRead(j, s)
  PROVE  AccountsInv'
<1> DEFINE h == [IdleJob EXCEPT !.pc = "voidCommit", !.sale = s,
                    !.customer = sales[s].customer,
                    !.n = sales[s].earned,
                    !.row = customers[sales[s].customer]]
<1>0. sales[s].customer \in Customer /\ sales[s].earned \in Nat
  BY DEF VoidRead, AccountsInv, SalesNamed, TypeOK, SaleRow
<1>1. /\ customers[sales[s].customer] \in CustomerRow
      /\ Earned(sales[s].customer, customers[sales[s].customer])
  BY <1>0, FoundEarned
<1>2. h \in JobRow
  BY <1>0, <1>1, IdleType DEF JobRow, PC, IdleJob
<1>3. /\ h.pc = "voidCommit" /\ h.customer = sales[s].customer
      /\ h.row = customers[sales[s].customer] /\ h.sale = s
      /\ h.shot = [x \in Customer |-> 0]
  BY DEF IdleJob
<1>4. \A x \in Customer : h.shot[x] <= granted[x]
  BY <1>3 DEF AccountsInv, TypeOK
<1>5. JobHeld(h)
  BY <1>0, <1>1, <1>3, <1>4 DEF JobHeld, VoidRead
<1> HIDE DEF h
<1> QED
  BY <1>2, <1>5, ReadKeeps DEF VoidRead, h

\* A slot of a run over several customers.
LEMMA ListKeeps ==
  ASSUME AccountsInv, UNCHANGED <<customers, sales, granted, cents>>,
         NEW j \in Job, NEW todo \in SUBSET Customer,
         NEW shot \in [Customer -> Nat], NEW pc \in {"cronCheck", "birthday"},
         \A c \in Customer : shot[c] <= granted[c],
         job' = [job EXCEPT ![j] = [IdleJob EXCEPT !.pc = pc, !.todo = todo,
                                                   !.shot = shot]]
  PROVE  AccountsInv'
<1> DEFINE h == [IdleJob EXCEPT !.pc = pc, !.todo = todo, !.shot = shot]
<1>1. h \in JobRow
  BY IdleType DEF JobRow, PC, IdleJob
<1>2. h.pc = pc /\ h.shot = shot
  BY DEF IdleJob
<1>3. JobHeld(h)
  BY <1>2 DEF JobHeld, Reading
<1> HIDE DEF h
<1> QED
  BY <1>1, <1>3, ReadKeeps DEF h

\* The customers that a run of tiers has still to visit.
LEMMA CronListKeeps ==
  ASSUME AccountsInv, UNCHANGED <<customers, sales, granted, cents>>,
         NEW j \in Job, NEW todo \in SUBSET Customer,
         job' = [job EXCEPT ![j] = [IdleJob EXCEPT !.pc = "cronCheck",
                                                   !.todo = todo]]
  PROVE  AccountsInv'
<1> DEFINE h == [IdleJob EXCEPT !.pc = "cronCheck", !.todo = todo]
<1>1. h \in JobRow
  BY IdleType DEF JobRow, PC, IdleJob
<1>2. h.pc = "cronCheck" /\ h.shot = [c \in Customer |-> 0]
  BY DEF IdleJob
<1>3. \A c \in Customer : h.shot[c] <= granted[c]
  BY <1>2 DEF AccountsInv, TypeOK
<1>4. JobHeld(h)
  BY <1>2, <1>3 DEF JobHeld, Reading
<1> HIDE DEF h
<1> QED
  BY <1>1, <1>4, ReadKeeps DEF h

LEMMA CronReadKeeps ==
  ASSUME AccountsInv, NEW j \in Job, CronRead(j)
  PROVE  AccountsInv'
  BY CronListKeeps DEF CronRead

LEMMA BirthdayReadKeeps ==
  ASSUME AccountsInv, NEW j \in Job, NEW listed \in SUBSET Customer,
         BirthdayRead(j, listed)
  PROVE  AccountsInv'
<1> DEFINE shot == [c \in Customer |-> IF c \in listed
                                       THEN customers[c].points ELSE 0]
<1>1. \A c \in Customer : /\ customers[c].points \in Nat
                          /\ granted[c] \in Nat
                          /\ customers[c].points <= granted[c]
  BY FoundEarned, RowFields DEF Earned, AccountsInv, TypeOK
<1>2. shot \in [Customer -> Nat] /\ \A c \in Customer : shot[c] <= granted[c]
  BY <1>1
<1>3. /\ job' = [job EXCEPT ![j] = [IdleJob EXCEPT !.pc = "birthday",
                                       !.todo = listed, !.shot = shot]]
      /\ UNCHANGED <<customers, sales, granted, cents>>
  BY DEF BirthdayRead
<1> HIDE DEF shot
<1> QED
  BY <1>2, <1>3, ListKeeps

LEMMA CronNextKeeps ==
  ASSUME AccountsInv, NEW j \in Job, NEW c \in Customer, CronNext(j, c),
         UNCHANGED <<customers, sales, granted, cents>>
  PROVE  AccountsInv'
<1>1. CASE job[j].todo = {c}
  BY <1>1, DoneKeeps DEF CronNext, Done
<1>2. CASE job[j].todo # {c}
  <2>1. job[j].todo \ {c} \in SUBSET Customer
    BY DEF AccountsInv, TypeOK, JobRow
  <2> QED
    BY <1>2, <2>1, CronListKeeps DEF CronNext
<1> QED
  BY <1>1, <1>2

LEMMA CronCheckKeeps ==
  ASSUME AccountsInv, NEW j \in Job, NEW c \in Customer, CronCheck(j, c)
  PROVE  AccountsInv'
<1> DEFINE g == job[j]
           h == [g EXCEPT !.pc = "cronSave", !.customer = c,
                          !.row = customers[c]]
<1>1. CASE Done(j)
  BY <1>1, DoneKeeps DEF CronCheck
<1>2. CASE CronNext(j, c)
  BY <1>2, CronNextKeeps DEF CronCheck
<1>3. CASE job' = [job EXCEPT ![j].pc = "cronSave", ![j].customer = c,
                              ![j].row = customers[c]]
  <2>1. customers[c] \in CustomerRow /\ Earned(c, customers[c])
    BY FoundEarned
  <2>2. g \in JobRow /\ JobHeld(g)
    BY DEF AccountsInv, TypeOK, Held
  <2>3. h \in JobRow
    BY <2>1, <2>2 DEF JobRow, PC
  <2>4. /\ h.pc = "cronSave" /\ h.customer = c /\ h.row = customers[c]
        /\ h.shot = g.shot
    BY <2>2 DEF JobRow
  <2>5. JobHeld(h)
    BY <2>1, <2>2, <2>4 DEF JobHeld
  <2>6. job' = [job EXCEPT ![j] = h]
    BY <1>3 DEF AccountsInv, TypeOK, JobRow
  <2>7. UNCHANGED <<customers, sales, granted, cents>>
    BY DEF CronCheck
  <2> HIDE DEF h, g
  <2> QED
    BY <2>3, <2>5, <2>6, <2>7, ReadKeeps
<1> QED
  BY <1>1, <1>2, <1>3 DEF CronCheck

\* The slot of the birthday run after a customer.
LEMMA BirthdayHeld ==
  ASSUME AccountsInv, NEW j \in Job, NEW c \in Customer,
         job[j].pc = "birthday", BirthdayNext(j, c)
  PROVE  \E h \in JobRow : JobHeld(h) /\ job' = [job EXCEPT ![j] = h]
<1> DEFINE g == job[j]
           h == [g EXCEPT !.todo = @ \ {c}, !.shot[c] = 0]
<1>1. CASE job[j].todo = {c}
  <2>1. JobHeld(IdleJob)
    BY DEF JobHeld, IdleJob, Reading, AccountsInv, TypeOK
  <2> QED
    BY <1>1, <2>1, IdleType DEF BirthdayNext
<1>2. CASE job[j].todo # {c}
  <2>1. g \in JobRow /\ JobHeld(g)
    BY DEF AccountsInv, TypeOK, Held
  <2>2. h \in JobRow
    BY <2>1 DEF JobRow
  <2>3. h.pc = "birthday" /\ h.shot = [g.shot EXCEPT ![c] = 0]
    BY <2>1 DEF JobRow
  <2>4. \A x \in Customer : h.shot[x] <= granted[x]
    BY <2>1, <2>3, JobFields DEF JobHeld, AccountsInv, TypeOK
  <2>5. JobHeld(h)
    BY <2>3, <2>4 DEF JobHeld, Reading
  <2>6. job' = [job EXCEPT ![j] = h]
    BY <1>2 DEF BirthdayNext
  <2> HIDE DEF h, g
  <2> QED
    BY <2>2, <2>5, <2>6
<1> QED
  BY <1>1, <1>2

LEMMA BirthdaySkipKeeps ==
  ASSUME AccountsInv, NEW j \in Job, NEW c \in Customer, BirthdaySkip(j, c)
  PROVE  AccountsInv'
<1>1. PICK h \in JobRow : JobHeld(h) /\ job' = [job EXCEPT ![j] = h]
  BY BirthdayHeld DEF BirthdaySkip
<1> QED
  BY <1>1, ReadKeeps DEF BirthdaySkip

----------------------------------------------------------------------------
(* Steps that write a customer's row *)

\* Without a sale, the frame is what becomes of the points given.
LEMMA NoSaleFrame ==
  ASSUME AccountsInv, UNCHANGED sales
  PROVE  /\ UNCHANGED <<granted, cents>> => Frame
         /\ \A c \in Customer, n \in Nat :
               Grant(c, n) /\ UNCHANGED cents => Frame
<1>1. granted \in [Customer -> Nat] /\ cents \in [Customer -> Nat]
  BY DEF AccountsInv, TypeOK
<1>2. \A c \in Customer : granted[c] \in Nat /\ cents[c] \in Nat
  BY <1>1
<1>3. UNCHANGED <<granted, cents>> => Frame
  BY <1>1, <1>2 DEF Frame
<1>4. ASSUME NEW c \in Customer, NEW n \in Nat, Grant(c, n),
             UNCHANGED cents
      PROVE  Frame
  BY <1>1, <1>2, <1>4 DEF Frame, Grant
<1> QED
  BY <1>3, <1>4

\* One row is written, with what was earned.
LEMMA SaveKeeps ==
  ASSUME AccountsInv, Frame, UNCHANGED sales,
         NEW c \in Customer, NEW row \in CustomerRow, Earned(c, row)',
         customers' = [customers EXCEPT ![c] = row],
         NEW j \in Job, NEW h \in JobRow, JobHeld(h)',
         job' = [job EXCEPT ![j] = h]
  PROVE  AccountsInv'
<1>1. customers \in [Customer -> CustomerRow] /\ sales \in [Sale -> SaleRow]
  BY DEF AccountsInv, TypeOK
<1>2. customers' \in [Customer -> CustomerRow] /\ sales' \in [Sale -> SaleRow]
  BY <1>1
<1>3. SalesNamed'
  BY DEF AccountsInv, SalesNamed
<1>4. ASSUME NEW d \in Customer, NEW r \in CustomerRow, r = customers'[d]
      PROVE  Earned(d, r)'
  <2>1. CASE d = c
    BY <1>1, <1>4, <2>1
  <2>2. CASE d # c
    BY <1>1, <1>4, <2>2, SameEarned
  <2> QED
    BY <2>1, <2>2
<1> QED
  BY <1>2, <1>3, <1>4, Keeps

\* An idle slot holds nothing after a step of this kind either.
LEMMA IdleStays ==
  ASSUME AccountsInv, Frame
  PROVE  JobHeld(IdleJob)'
<1>1. JobHeld(IdleJob) /\ TypeOK
  BY DEF JobHeld, IdleJob, Reading, AccountsInv, TypeOK
<1> QED
  BY <1>1, IdleType, StillHeld

\* What a handler that is about to write has read.
LEMMA HasRead ==
  ASSUME AccountsInv, NEW j \in Job, job[j].pc \in Reading
  PROVE  /\ job[j] \in JobRow
         /\ job[j].customer \in Customer
         /\ job[j].row \in CustomerRow
         /\ job[j].n \in Nat
         /\ job[j].active \in BOOLEAN
         /\ Earned(job[j].customer, job[j].row)
<1>1. job[j] \in JobRow /\ JobHeld(job[j])
  BY DEF AccountsInv, TypeOK, Held
<1> QED
  BY <1>1, JobFields DEF JobHeld

LEMMA AddSaveKeeps ==
  ASSUME AccountsInv, NEW j \in Job, NEW cent \in {0, 1}, AddSave(j, cent)
  PROVE  AccountsInv'
<1>0. PICK g \in JobRow : g = job[j]
  BY DEF AccountsInv, TypeOK
<1> DEFINE c == g.customer
           old == g.row
           row == [old EXCEPT !.points = @ + g.n,
                              !.spent = @ + cent,
                              !.tier = TierOf(old.spent)]
<1>1. c \in Customer /\ old \in CustomerRow /\ g.n \in Nat /\ Earned(c, old)
  BY <1>0, HasRead DEF AddSave, Reading
<1>2. /\ Grant(c, g.n) /\ UNCHANGED sales
      /\ cents' = [cents EXCEPT ![c] = @ + cent]
  BY <1>0 DEF AddSave
<1>3. Frame /\ TypeOK
  <2>1. granted \in [Customer -> Nat] /\ cents \in [Customer -> Nat]
    BY DEF AccountsInv, TypeOK
  <2>2. \A d \in Customer : granted[d] \in Nat /\ cents[d] \in Nat
    BY <2>1
  <2> HIDE DEF c
  <2> QED
    BY <1>1, <1>2, <2>1, <2>2 DEF Frame, Grant, AccountsInv
<1>4. /\ row \in CustomerRow
      /\ row.points = old.points + g.n
      /\ row.spent = old.spent + cent
      /\ row.tier = TierOf(old.spent)
  <2>1. TierOf(old.spent) \in SUBSET Rank
    BY DEF TierOf, Reached
  <2>2. old.points + g.n \in Nat /\ old.spent + cent \in Nat
    BY <1>1, RowFields
  <2> HIDE DEF old
  <2> QED
    BY <1>1, <2>1, <2>2 DEF CustomerRow
<1>5. row.points <= granted'[c]
  BY <1>1, <1>2, <1>3, <1>4, RowFields DEF Grant, Earned, TypeOK
<1>6. row.spent <= Worth(c)'
  <2>1. SoldTo(c)' = SoldTo(c)
    BY <1>2 DEF SoldTo
  <2>2. Cardinality(SoldTo(c)) \in Nat
    BY SaleCount DEF SoldTo
  <2>3. PICK m \in Nat : m = Price * Cardinality(SoldTo(c))
    BY <2>2, PriceTimes
  <2>4. cents[c] \in Nat /\ cents'[c] = cents[c] + cent
    BY <1>1, <1>2, <1>3 DEF TypeOK
  <2>5. Worth(c) = m + cents[c] /\ Worth(c)' = m + cents[c] + cent
    BY <2>1, <2>3, <2>4 DEF Worth
  <2>6. old.spent \in Nat /\ old.spent <= Worth(c)
    BY <1>1, RowFields DEF Earned
  <2> QED
    BY <1>4, <2>4, <2>5, <2>6
<1>7. row.tier \subseteq Allowed(c)'
  BY <1>1, <1>3, <1>4, TierEarned, AllowedGrows
<1>8. Earned(c, row)'
  BY <1>5, <1>6, <1>7 DEF Earned, Allowed
<1>9. customers' = [customers EXCEPT ![c] = row] /\ Done(j)
  BY <1>0 DEF AddSave, Save
<1> HIDE DEF c, row, old
<1> QED
  BY <1>1, <1>2, <1>3, <1>4, <1>8, <1>9, SaveKeeps, IdleStays, IdleType
     DEF Done

LEMMA RedeemSaveKeeps ==
  ASSUME AccountsInv, NEW j \in Job, RedeemSave(j)
  PROVE  AccountsInv'
<1>0. PICK g \in JobRow : g = job[j]
  BY DEF AccountsInv, TypeOK
<1> DEFINE c == g.customer
           old == g.row
           row == [old EXCEPT !.points = @ - g.n]
<1>1. c \in Customer /\ old \in CustomerRow /\ g.n \in Nat /\ Earned(c, old)
  BY <1>0, HasRead DEF RedeemSave, Reading
<1>2. g.n <= old.points
  BY <1>0 DEF RedeemSave, AccountsInv, Held, JobHeld
<1>3. UNCHANGED <<sales, granted, cents>> /\ Frame /\ TypeOK
  BY NoSaleFrame DEF AccountsInv, RedeemSave
<1>4. /\ row \in CustomerRow
      /\ row.points = old.points - g.n
      /\ row.spent = old.spent
      /\ row.tier = old.tier
  BY <1>1, <1>2, RowFields DEF CustomerRow
<1>5. Earned(c, old)'
  BY <1>1, <1>3, StillEarned
<1>6. granted'[c] \in Nat /\ old.points \in Nat
  BY <1>1, <1>3, RowFields DEF Frame
<1>7. row.points <= granted'[c]
  BY <1>1, <1>2, <1>4, <1>5, <1>6 DEF Earned
<1>8. Earned(c, row)'
  BY <1>4, <1>5, <1>7 DEF Earned
<1>9. customers' = [customers EXCEPT ![c] = row] /\ Done(j)
  BY <1>0 DEF RedeemSave, Save
<1> HIDE DEF c, row, old
<1> QED
  BY <1>1, <1>3, <1>4, <1>8, <1>9, SaveKeeps, IdleStays, IdleType DEF Done

LEMMA EditSaveKeeps ==
  ASSUME AccountsInv, NEW j \in Job, EditSave(j)
  PROVE  AccountsInv'
<1>0. PICK g \in JobRow : g = job[j]
  BY DEF AccountsInv, TypeOK
<1> DEFINE c == g.customer
           old == g.row
           row == [old EXCEPT !.active = g.active]
<1>1. /\ c \in Customer /\ old \in CustomerRow /\ Earned(c, old)
      /\ g.active \in BOOLEAN
  BY <1>0, HasRead DEF EditSave, Reading
<1>2. UNCHANGED <<sales, granted, cents>> /\ Frame /\ TypeOK
  BY NoSaleFrame DEF AccountsInv, EditSave
<1>3. /\ row \in CustomerRow
      /\ row.points = old.points
      /\ row.spent = old.spent
      /\ row.tier = old.tier
  BY <1>1 DEF CustomerRow
<1>4. Earned(c, row)'
  BY <1>1, <1>2, <1>3, StillEarned DEF Earned
<1>5. customers' = [customers EXCEPT ![c] = row] /\ Done(j)
  BY <1>0 DEF EditSave, Save
<1> HIDE DEF c, row, old
<1> QED
  BY <1>1, <1>2, <1>3, <1>4, <1>5, SaveKeeps, IdleStays, IdleType DEF Done

\* A row that is given the tier of its total.
LEMMA UpgradedEarned ==
  ASSUME AccountsInv, Frame, NEW c \in Customer, NEW old \in CustomerRow,
         Earned(c, old)
  PROVE  Upgraded(old) \in CustomerRow /\ Earned(c, Upgraded(old))'
<1> DEFINE row == Upgraded(old)
<1>1. /\ row \in CustomerRow
      /\ row.points = old.points
      /\ row.spent = old.spent
      /\ row.tier = TierOf(old.spent)
  BY ReachedType DEF CustomerRow, TierOf, Upgraded
<1>2. TypeOK
  BY DEF AccountsInv
<1>3. Earned(c, old)'
  BY <1>2, StillEarned
<1>4. row.tier \subseteq Allowed(c)'
  BY <1>1, <1>2, TierEarned, AllowedGrows
<1>5. row.points <= granted'[c] /\ row.spent <= Worth(c)'
  BY <1>1, <1>3 DEF Earned
<1> HIDE DEF row
<1>6. Earned(c, row)'
  BY <1>4, <1>5 DEF Earned, Allowed
<1> QED
  BY <1>1, <1>6 DEF row

LEMMA UpgradeSaveKeeps ==
  ASSUME AccountsInv, NEW j \in Job, UpgradeSave(j)
  PROVE  AccountsInv'
<1>0. PICK g \in JobRow : g = job[j]
  BY DEF AccountsInv, TypeOK
<1> DEFINE c == g.customer
           row == Upgraded(g.row)
<1>1. c \in Customer /\ g.row \in CustomerRow /\ Earned(c, g.row)
  BY <1>0, HasRead DEF UpgradeSave, Reading
<1>2. UNCHANGED <<sales, granted, cents>> /\ Frame
  BY NoSaleFrame DEF UpgradeSave
<1>3. row \in CustomerRow /\ Earned(c, row)'
  BY <1>1, <1>2, UpgradedEarned
<1>4. customers' = [customers EXCEPT ![c] = row] /\ Done(j)
  BY <1>0 DEF UpgradeSave, Save
<1> HIDE DEF c, row
<1> QED
  BY <1>1, <1>2, <1>3, <1>4, SaveKeeps, IdleStays, IdleType DEF Done

LEMMA CronSaveKeeps ==
  ASSUME AccountsInv, NEW j \in Job, CronSave(j)
  PROVE  AccountsInv'
<1>0. PICK g \in JobRow : g = job[j]
  BY DEF AccountsInv, TypeOK
<1> DEFINE c == g.customer
           row == Upgraded(g.row)
           h == [IdleJob EXCEPT !.pc = "cronCheck",
                                !.todo = g.todo \ {c}]
<1>1. c \in Customer /\ g.row \in CustomerRow /\ Earned(c, g.row)
  BY <1>0, HasRead DEF CronSave, Reading
<1>2. UNCHANGED <<sales, granted, cents>> /\ Frame /\ TypeOK
  BY NoSaleFrame DEF CronSave, AccountsInv
<1>3. row \in CustomerRow /\ Earned(c, row)'
  BY <1>1, <1>2, UpgradedEarned
<1>4. customers' = [customers EXCEPT ![c] = row] /\ CronNext(j, c)
  BY <1>0 DEF CronSave, Save
<1>5. CASE g.todo = {c}
  BY <1>0, <1>1, <1>2, <1>3, <1>4, <1>5, SaveKeeps, IdleStays, IdleType
     DEF CronNext
<1>6. CASE g.todo # {c}
  <2>1. g.todo \ {c} \in SUBSET Customer
    BY DEF JobRow
  <2>2. h \in JobRow
    BY <2>1, IdleType DEF JobRow, PC, IdleJob
  <2>3. h.pc = "cronCheck" /\ h.shot = [x \in Customer |-> 0]
    BY DEF IdleJob
  <2>4. \A x \in Customer : h.shot[x] <= granted[x]
    BY <1>2, <2>3 DEF TypeOK
  <2>5. JobHeld(h)
    BY <2>3, <2>4 DEF JobHeld, Reading
  <2>6. job' = [job EXCEPT ![j] = h]
    BY <1>0, <1>4, <1>6 DEF CronNext
  <2> HIDE DEF h, c, row
  <2>7. JobHeld(h)'
    BY <1>2, <2>2, <2>5, StillHeld
  <2> QED
    BY <1>1, <1>2, <1>3, <1>4, <2>2, <2>6, <2>7, SaveKeeps
<1> QED
  BY <1>5, <1>6

LEMMA BirthdayGiftKeeps ==
  ASSUME AccountsInv, NEW j \in Job, NEW c \in Customer, BirthdayGift(j, c)
  PROVE  AccountsInv'
<1>1. PICK h \in JobRow : JobHeld(h) /\ job' = [job EXCEPT ![j] = h]
  BY BirthdayHeld DEF BirthdayGift
<1>12. PICK old \in CustomerRow : old = customers[c]
  BY FoundEarned
<1>13. PICK shot \in Nat : shot = job[j].shot[c]
  BY DEF AccountsInv, TypeOK, JobRow
<1> DEFINE row == [old EXCEPT !.points = shot + Gift]
<1>2. Grant(c, Gift) /\ UNCHANGED <<sales, cents>> /\ Gift \in Nat
  BY AccountsAssumption DEF BirthdayGift
<1>3. Frame /\ TypeOK
  BY <1>2, NoSaleFrame DEF AccountsInv
<1>4. old \in CustomerRow /\ Earned(c, old) /\ Earned(c, old)'
  BY <1>3, <1>12, FoundEarned, StillEarned
<1>5. shot \in Nat /\ shot <= granted[c] /\ granted[c] \in Nat
  <2>1. job[j] \in JobRow /\ JobHeld(job[j])
    BY DEF AccountsInv, TypeOK, Held
  <2> QED
    BY <2>1, <1>13, JobFields DEF JobHeld, AccountsInv, TypeOK
<1>6. /\ row \in CustomerRow
      /\ row.points = shot + Gift
      /\ row.spent = old.spent
      /\ row.tier = old.tier
  BY <1>2, <1>4, <1>5 DEF CustomerRow
<1>7. granted'[c] = granted[c] + Gift
  BY <1>2, <1>3 DEF Grant, TypeOK
<1>8. row.points <= granted'[c]
  BY <1>2, <1>5, <1>6, <1>7
<1>9. Earned(c, row)'
  BY <1>4, <1>6, <1>8 DEF Earned
<1>10. customers' = [customers EXCEPT ![c] = row]
  BY <1>3, <1>12, <1>13 DEF BirthdayGift, TypeOK
<1>11. JobHeld(h)'
  BY <1>1, <1>3, StillHeld
<1> HIDE DEF row
<1> QED
  BY <1>1, <1>2, <1>3, <1>6, <1>9, <1>10, <1>11, SaveKeeps

----------------------------------------------------------------------------
(* Statements *)

\* Statements that change rows of customers and nothing else.
LEMMA RowsKeep ==
  ASSUME AccountsInv, UNCHANGED <<sales, job, granted, cents>>,
         customers' \in [Customer -> CustomerRow],
         \A c \in Customer : Earned(c, customers'[c])
  PROVE  AccountsInv'
<1>1. Frame /\ TypeOK
  BY NoSaleFrame DEF AccountsInv
<1>2. sales' \in [Sale -> SaleRow] /\ SalesNamed'
  BY DEF AccountsInv, TypeOK, SalesNamed
<1>3. ASSUME NEW c \in Customer, NEW row \in CustomerRow,
             row = customers'[c]
      PROVE  Earned(c, row)'
  BY <1>1, <1>3, StillEarned
<1> QED
  BY <1>1, <1>2, <1>3, StatementKeeps

LEMMA RemoveKeeps ==
  ASSUME AccountsInv, NEW c \in Customer, Remove(c)
  PROVE  AccountsInv'
<1>1. \A d \in Customer : /\ customers[d] \in CustomerRow
                          /\ Earned(d, customers[d])
  BY FoundEarned
<1>2. customers \in [Customer -> CustomerRow]
  BY DEF AccountsInv, TypeOK
<1>3. customers' \in [Customer -> CustomerRow]
  BY <1>2 DEF Remove, CustomerRow
<1>4. ASSUME NEW d \in Customer PROVE Earned(d, customers'[d])
  <2>1. /\ customers'[d].points = customers[d].points
        /\ customers'[d].spent = customers[d].spent
        /\ customers'[d].tier = customers[d].tier
    BY <1>2 DEF Remove, CustomerRow
  <2> QED
    BY <1>1, <2>1 DEF Earned
<1> QED
  BY <1>3, <1>4, RowsKeep DEF Remove

LEMMA SyncTotalsKeeps ==
  ASSUME AccountsInv, SyncTotals
  PROVE  AccountsInv'
<1>1. \A d \in Customer : /\ customers[d] \in CustomerRow
                          /\ Earned(d, customers[d])
  BY FoundEarned
<1>2. ASSUME NEW d \in Customer
      PROVE  customers'[d] \in CustomerRow /\ Earned(d, customers'[d])
  <2>1. CASE CompletedOf(d) = {}
    BY <1>1, <2>1 DEF SyncTotals
  <2>2. CASE CompletedOf(d) # {}
    <3> DEFINE n == Price * Cardinality(CompletedOf(d))
    <3>1. n \in Nat /\ n <= Worth(d)
      <4>1. SoldTo(d) \in SUBSET Sale /\ CompletedOf(d) \in SUBSET SoldTo(d)
        BY DEF SoldTo, CompletedOf
      <4>2. /\ Cardinality(SoldTo(d)) \in Nat
            /\ Cardinality(CompletedOf(d)) \in Nat
            /\ Cardinality(CompletedOf(d)) <= Cardinality(SoldTo(d))
        BY <4>1, SaleCount
      <4>3. PICK m \in Nat : m = Price * Cardinality(SoldTo(d))
                             /\ n \in Nat /\ n <= m
        BY <4>2, PriceTimes
      <4>4. cents[d] \in Nat
        BY DEF AccountsInv, TypeOK
      <4> HIDE DEF n
      <4> QED
        BY <4>3, <4>4 DEF Worth
    <3>2. customers'[d] = [customers[d] EXCEPT !.spent = n]
      BY <2>2 DEF SyncTotals
    <3> HIDE DEF n
    <3>3. /\ customers'[d] \in CustomerRow
          /\ customers'[d].points = customers[d].points
          /\ customers'[d].spent = n
          /\ customers'[d].tier = customers[d].tier
      BY <1>1, <3>1, <3>2 DEF CustomerRow
    <3> QED
      BY <1>1, <3>1, <3>3 DEF Earned
  <2> QED
    BY <2>1, <2>2
<1>3. customers' \in [Customer -> CustomerRow]
  BY <1>2 DEF SyncTotals
<1> QED
  BY <1>2, <1>3, RowsKeep DEF SyncTotals

LEMMA SetAllTiersKeeps ==
  ASSUME AccountsInv, SetAllTiers
  PROVE  AccountsInv'
<1>1. \A d \in Customer : /\ customers[d] \in CustomerRow
                          /\ Earned(d, customers[d])
  BY FoundEarned
<1>2. ASSUME NEW d \in Customer
      PROVE  customers'[d] \in CustomerRow /\ Earned(d, customers'[d])
  <2>1. CASE ~ Live(d)
    BY <1>1, <2>1 DEF SetAllTiers
  <2>2. CASE Live(d)
    <3> DEFINE tier == Reached(PageSpending, customers[d].spent)
    <3>1. tier \in SUBSET Rank
      BY DEF Reached
    <3>2. tier \subseteq Allowed(d)
      BY <1>1, TierEarned DEF AccountsInv
    <3>3. customers'[d] = [customers[d] EXCEPT !.tier = tier]
      BY <2>2 DEF SetAllTiers
    <3> HIDE DEF tier
    <3>4. /\ customers'[d] \in CustomerRow
          /\ customers'[d].points = customers[d].points
          /\ customers'[d].spent = customers[d].spent
          /\ customers'[d].tier = tier
      BY <1>1, <3>1, <3>3 DEF CustomerRow
    <3> QED
      BY <1>1, <3>2, <3>4 DEF Earned, Allowed
  <2> QED
    BY <2>1, <2>2
<1>3. customers' \in [Customer -> CustomerRow]
  BY <1>2 DEF SetAllTiers
<1> QED
  BY <1>2, <1>3, RowsKeep DEF SetAllTiers

----------------------------------------------------------------------------
(* Sales *)

\* A new sale is one more to its customer, and none less to the others.
LEMMA SoldKeeps ==
  ASSUME AccountsInv, NEW s \in Sale, NEW c \in Customer, NEW n \in Nat,
         Sold(s, c, n), UNCHANGED <<granted, cents>>
  PROVE  /\ Frame
         /\ sales' \in [Sale -> SaleRow]
         /\ SalesNamed'
         /\ Worth(c)' = Worth(c) + Price
<1>1. /\ sales \in [Sale -> SaleRow] /\ granted \in [Customer -> Nat]
      /\ cents \in [Customer -> Nat]
  BY DEF AccountsInv, TypeOK
<1>2. sales' \in [Sale -> SaleRow]
  BY <1>1 DEF Sold, SaleRow
<1>3. \A t \in Sale : t # s => sales'[t] = sales[t]
  BY <1>1 DEF Sold
<1>4. sales'[s].status = "completed" /\ sales'[s].customer = c
  BY <1>1 DEF Sold
<1>5. Frame
  <2>1. \A d \in Customer : granted[d] \in Nat /\ cents[d] \in Nat
    BY <1>1
  <2> QED
    BY <1>1, <1>3, <2>1 DEF Frame, Sold
<1>6. SalesNamed'
  BY <1>3, <1>4 DEF AccountsInv, SalesNamed
<1>7. SoldTo(c)' = SoldTo(c) \cup {s} /\ s \notin SoldTo(c)
  BY <1>3, <1>4 DEF SoldTo, Sold
<1>8. IsFiniteSet(SoldTo(c))
  BY FS_Subset, AccountsAssumption DEF SoldTo
<1>9. Cardinality(SoldTo(c) \cup {s}) = Cardinality(SoldTo(c)) + 1
  BY <1>7, <1>8, FS_AddElement
<1>10. Worth(c)' = Worth(c) + Price
  <2>1. PICK n0 \in Nat : n0 = Cardinality(SoldTo(c))
    BY <1>8, FS_CardinalityType
  <2>2. Price * (n0 + 1) = Price * n0 + Price /\ Price * n0 \in Nat
    <3>1. Price \in Nat
      BY AccountsAssumption
    <3> QED
      BY <3>1
  <2>3. Cardinality(SoldTo(c)') = n0 + 1
    BY <1>7, <1>9, <2>1
  <2>4. Worth(c) = Price * n0 + cents[c]
    BY <2>1 DEF Worth
  <2>5. Worth(c)' = Price * (n0 + 1) + cents[c]
    BY <2>3 DEF Worth
  <2>6. cents[c] \in Nat /\ Price \in Nat
    BY <1>1, AccountsAssumption
  <2> QED
    BY <2>2, <2>4, <2>5, <2>6
<1> QED
  BY <1>2, <1>5, <1>6, <1>10

LEMMA DeliveredKeeps ==
  ASSUME AccountsInv, NEW s \in Sale, NEW c \in Customer, Delivered(s, c)
  PROVE  AccountsInv'
<1>1. Frame /\ sales' \in [Sale -> SaleRow] /\ SalesNamed'
  BY SoldKeeps DEF Delivered
<1>2. customers' \in [Customer -> CustomerRow]
  BY DEF Delivered, AccountsInv, TypeOK
<1>3. ASSUME NEW d \in Customer, NEW row \in CustomerRow,
             row = customers'[d]
      PROVE  Earned(d, row)'
  BY <1>1, <1>3, SameEarned DEF Delivered
<1> QED
  BY <1>1, <1>2, <1>3, StatementKeeps DEF Delivered

LEMMA CheckoutKeeps ==
  ASSUME AccountsInv, NEW s \in Sale, NEW c \in Customer,
         NEW earned \in Earnings, Checkout(s, c, earned)
  PROVE  AccountsInv'
<1>1. /\ Frame /\ sales' \in [Sale -> SaleRow] /\ SalesNamed'
      /\ Worth(c)' = Worth(c) + Price
  <2>1. (IF Live(c) THEN earned ELSE 0) \in Nat
    BY AccountsAssumption
  <2> QED
    BY <2>1, SoldKeeps DEF Checkout
<1>2. customers \in [Customer -> CustomerRow]
  BY DEF AccountsInv, TypeOK
<1>3. CASE ~ Live(c)
  <2>1. customers' = customers
    BY <1>3 DEF Checkout
  <2>2. ASSUME NEW d \in Customer, NEW row \in CustomerRow,
               row = customers'[d]
        PROVE  Earned(d, row)'
    BY <1>1, <2>1, <2>2, SameEarned
  <2> QED
    BY <1>1, <1>2, <2>1, <2>2, StatementKeeps DEF Checkout
<1>4. CASE Live(c)
  <2>1. PICK old \in CustomerRow : old = customers[c]
    BY <1>2
  <2> DEFINE new == [old EXCEPT !.spent = @ + Price,
                                !.tier = TierOf(old.spent + Price)]
  <2>2. TypeOK /\ Earned(c, old) /\ Earned(c, old)'
    BY <1>1, <2>1, FoundEarned, StillEarned DEF AccountsInv
  <2>3. old.spent \in Nat /\ old.spent + Price \in Nat /\ Price \in Nat
    BY RowFields, AccountsAssumption
  <2>4. TierOf(old.spent + Price) \in SUBSET Rank
    BY DEF TierOf, Reached
  <2>5. /\ new \in CustomerRow
        /\ new.points = old.points
        /\ new.spent = old.spent + Price
        /\ new.tier = TierOf(old.spent + Price)
    BY <2>3, <2>4 DEF CustomerRow
  <2>6. customers' = [customers EXCEPT ![c] = new]
    BY <1>2, <1>4, <2>1 DEF Checkout
  <2> HIDE DEF new
  <2>7. /\ Worth(c) \in Nat /\ Worth(c)' \in Nat
        /\ new.spent <= Worth(c)' /\ new.spent \in Nat
    BY <1>1, <2>2, <2>3, <2>5, WorthType DEF Earned
  <2>8. new.tier \subseteq TierOf(Worth(c)')
    BY <2>5, <2>7, ReachedGrows, AccountsAssumption DEF TierOf
  <2>9. new.tier \subseteq Allowed(c)'
    BY <2>8 DEF Allowed, TierOf
  <2>10. Earned(c, new)'
    BY <2>2, <2>5, <2>7, <2>9 DEF Earned, Allowed
  <2>11. ASSUME NEW d \in Customer, NEW row \in CustomerRow,
                row = customers'[d]
         PROVE  Earned(d, row)'
    <3>1. CASE d = c
      BY <1>2, <2>6, <2>10, <2>11, <3>1
    <3>2. CASE d # c
      BY <1>1, <1>2, <2>6, <2>11, <3>2, SameEarned
    <3> QED
      BY <3>1, <3>2
  <2>12. customers' \in [Customer -> CustomerRow]
    BY <1>2, <2>5, <2>6
  <2> QED
    BY <1>1, <2>11, <2>12, StatementKeeps DEF Checkout
<1> QED
  BY <1>3, <1>4

\* Less than there was, or nothing.
LEMMA MinusType ==
  ASSUME NEW x \in Nat, NEW y \in Nat
  PROVE  Minus(x, y) \in Nat /\ Minus(x, y) <= x
  BY DEF Minus

LEMMA VoidCommitKeeps ==
  ASSUME AccountsInv, NEW j \in Job, VoidCommit(j)
  PROVE  AccountsInv'
<1>0. PICK g \in JobRow : g = job[j]
  BY DEF AccountsInv, TypeOK
<1> DEFINE c == g.customer
           points == Minus(g.row.points, g.n)
<1>1. /\ c \in Customer /\ g.row \in CustomerRow /\ g.n \in Nat
      /\ Earned(c, g.row)
  BY <1>0, HasRead DEF VoidCommit, Reading
<1>2. g.sale \in Sale /\ sales[g.sale].status # "none"
  BY <1>0 DEF VoidCommit, AccountsInv, Held, JobHeld
<1>3. /\ customers \in [Customer -> CustomerRow]
      /\ sales \in [Sale -> SaleRow] /\ granted \in [Customer -> Nat]
      /\ \A d \in Customer : granted[d] \in Nat
      /\ cents \in [Customer -> Nat]
      /\ \A d \in Customer : cents[d] \in Nat
      /\ UNCHANGED <<granted, cents>>
  BY DEF AccountsInv, TypeOK, VoidCommit
<1>4. sales' = [sales EXCEPT ![g.sale].status = "voided",
                             ![g.sale].earned = 0]
  BY <1>0 DEF VoidCommit
<1>5. sales' \in [Sale -> SaleRow]
  BY <1>2, <1>3, <1>4 DEF SaleRow
<1>6. \A s \in Sale : /\ sales'[s].customer = sales[s].customer
                      /\ sales'[s].status # "none" <=> sales[s].status # "none"
  BY <1>2, <1>3, <1>4 DEF SaleRow
<1>7. Frame /\ SalesNamed'
  BY <1>3, <1>6 DEF Frame, AccountsInv, SalesNamed
<1>8. Done(j)
  BY DEF VoidCommit
<1>9. CASE g.row.deleted
  <2>1. customers' = customers
    BY <1>0, <1>9 DEF VoidCommit
  <2>2. ASSUME NEW d \in Customer, NEW row \in CustomerRow,
               row = customers'[d]
        PROVE  Earned(d, row)'
    BY <1>7, <2>1, <2>2, SameEarned
  <2> QED
    BY <1>3, <1>5, <1>7, <1>8, <2>1, <2>2, Keeps, IdleStays, IdleType DEF Done
<1>10. CASE ~ g.row.deleted
  <2>1. PICK old \in CustomerRow : old = customers[c]
    BY <1>1, <1>3
  <2> DEFINE kept == IF points # g.row.points THEN points ELSE old.points
             new == [old EXCEPT !.points = kept,
                                !.spent = Minus(old.spent, Price)]
  <2>2. TypeOK /\ Earned(c, old) /\ Earned(c, g.row)
    BY <1>1, <2>1, FoundEarned DEF AccountsInv
  <2>3. points \in Nat /\ points <= g.row.points /\ g.row.points \in Nat
    BY <1>1, RowFields, MinusType
  <2>4. kept \in Nat /\ kept <= granted[c]
    BY <1>1, <1>3, <2>2, <2>3, RowFields DEF Earned
  <2>5. /\ Minus(old.spent, Price) \in Nat /\ Minus(old.spent, Price) <= old.spent
        /\ old.spent \in Nat /\ Worth(c) \in Nat
    BY <1>1, <2>2, RowFields, MinusType, WorthType, AccountsAssumption
  <2>6. customers' = [customers EXCEPT ![c] = new]
    BY <1>0, <1>3, <1>10, <2>1 DEF VoidCommit
  <2> HIDE DEF kept, points
  <2>7. /\ new \in CustomerRow
        /\ new.points = kept
        /\ new.spent = Minus(old.spent, Price)
        /\ new.tier = old.tier
    BY <2>4, <2>5 DEF CustomerRow
  <2> HIDE DEF new
  <2>8. new.spent <= Worth(c)
    BY <2>2, <2>5, <2>7 DEF Earned
  <2>9. Earned(c, new)
    BY <2>2, <2>4, <2>7, <2>8 DEF Earned
  <2>10. Earned(c, new)'
    BY <1>1, <1>7, <2>2, <2>7, <2>9, StillEarned
  <2>11. ASSUME NEW d \in Customer, NEW row \in CustomerRow,
                row = customers'[d]
         PROVE  Earned(d, row)'
    <3>1. CASE d = c
      BY <1>3, <2>6, <2>10, <2>11, <3>1
    <3>2. CASE d # c
      BY <1>3, <1>7, <2>6, <2>11, <3>2, SameEarned
    <3> QED
      BY <3>1, <3>2
  <2>12. customers' \in [Customer -> CustomerRow]
    BY <1>3, <2>6, <2>7
  <2> QED
    BY <1>5, <1>7, <1>8, <2>11, <2>12, Keeps, IdleStays, IdleType DEF Done
<1> QED
  BY <1>9, <1>10

----------------------------------------------------------------------------
(* The invariant *)

LEMMA InitInv == Init => AccountsInv
<1> SUFFICES ASSUME Init PROVE AccountsInv
  OBVIOUS
<1>1. TypeOK
  BY IdleType DEF Init, TypeOK, NewCustomer, CustomerRow, NoSaleRow, SaleRow
<1>2. SalesNamed
  BY DEF Init, SalesNamed, NoSaleRow
<1>3. ASSUME NEW c \in Customer PROVE Earned(c, customers[c])
  <2>1. /\ customers[c].points = 0 /\ customers[c].spent = 0
        /\ customers[c].tier = {} /\ granted[c] = 0
    BY DEF Init, NewCustomer
  <2> QED
    BY <1>1, <2>1, WorthType DEF Earned
<1>4. ASSUME NEW j \in Job PROVE JobHeld(job[j])
  BY <1>1 DEF Init, JobHeld, IdleJob, Reading, TypeOK
<1> QED
  BY <1>1, <1>2, <1>3, <1>4 DEF AccountsInv, AccountsEarned, Held

LEMMA RequestKeeps ==
  ASSUME AccountsInv, NEW j \in Job, Request(j)
  PROVE  AccountsInv'
<1> USE AccountsAssumption
<1>1. ASSUME NEW c \in Customer, NEW n \in Amounts, AddRead(j, c, n)
      PROVE  AccountsInv'
  BY <1>1, FindKeeps DEF AddRead, Reading
<1>2. ASSUME NEW c \in Customer, NEW n \in Amounts, RedeemRead(j, c, n)
      PROVE  AccountsInv'
  BY <1>2, FindKeeps DEF RedeemRead, Reading
<1>3. ASSUME NEW c \in Customer, NEW active \in BOOLEAN,
             EditRead(j, c, active)
      PROVE  AccountsInv'
  BY <1>3, FindKeeps DEF EditRead, Reading
<1>4. ASSUME NEW c \in Customer, UpgradeRead(j, c) PROVE AccountsInv'
  BY <1>4, FindKeeps DEF UpgradeRead, Reading
<1>5. ASSUME NEW s \in Sale, VoidRead(j, s) PROVE AccountsInv'
  BY <1>5, VoidReadKeeps
<1>6. ASSUME NEW listed \in SUBSET Customer, BirthdayRead(j, listed)
      PROVE  AccountsInv'
  BY <1>6, BirthdayReadKeeps
<1>7. CASE CronRead(j)
  BY <1>7, CronReadKeeps
<1> QED
  BY <1>1, <1>2, <1>3, <1>4, <1>5, <1>6, <1>7 DEF Request

LEMMA StepKeeps ==
  ASSUME AccountsInv, NEW j \in Job, Step(j)
  PROVE  AccountsInv'
<1>1. ASSUME NEW cent \in {0, 1}, AddSave(j, cent) PROVE AccountsInv'
  BY <1>1, AddSaveKeeps
<1>2. CASE RedeemSave(j)
  BY <1>2, RedeemSaveKeeps
<1>3. CASE EditSave(j)
  BY <1>3, EditSaveKeeps
<1>4. CASE UpgradeSave(j)
  BY <1>4, UpgradeSaveKeeps
<1>5. CASE VoidCommit(j)
  BY <1>5, VoidCommitKeeps
<1>6. ASSUME NEW c \in Customer, BirthdayGift(j, c) PROVE AccountsInv'
  BY <1>6, BirthdayGiftKeeps
<1>7. ASSUME NEW c \in Customer, BirthdaySkip(j, c) PROVE AccountsInv'
  BY <1>7, BirthdaySkipKeeps
<1>8. ASSUME NEW c \in Customer, CronCheck(j, c) PROVE AccountsInv'
  BY <1>8, CronCheckKeeps
<1>9. CASE CronSave(j)
  BY <1>9, CronSaveKeeps
<1> QED
  BY <1>1, <1>2, <1>3, <1>4, <1>5, <1>6, <1>7, <1>8, <1>9 DEF Step, CronStep

LEMMA NextKeeps == AccountsInv /\ [Next]_vars => AccountsInv'
<1> SUFFICES ASSUME AccountsInv, [Next]_vars PROVE AccountsInv'
  OBVIOUS
<1>1. ASSUME NEW j \in Job, Request(j) PROVE AccountsInv'
  BY <1>1, RequestKeeps
<1>2. ASSUME NEW j \in Job, Step(j) PROVE AccountsInv'
  BY <1>2, StepKeeps
<1>3. ASSUME NEW j \in Job, Abort(j) PROVE AccountsInv'
  BY <1>3, DoneKeeps DEF Abort
<1>4. CASE Statement
  <2>1. ASSUME NEW c \in Customer, Remove(c) PROVE AccountsInv'
    BY <2>1, RemoveKeeps
  <2>2. ASSUME NEW s \in Sale, NEW c \in Customer, NEW earned \in Earnings,
               Checkout(s, c, earned)
        PROVE  AccountsInv'
    BY <2>2, CheckoutKeeps
  <2>3. ASSUME NEW s \in Sale, NEW c \in Customer, Delivered(s, c)
        PROVE  AccountsInv'
    BY <2>3, DeliveredKeeps
  <2> QED
    BY <1>4, <2>1, <2>2, <2>3, SyncTotalsKeeps, SetAllTiersKeeps DEF Statement
<1>5. CASE UNCHANGED vars
  <2>1. AccountsInv' = AccountsInv
    BY <1>5 DEF vars, AccountsInv, TypeOK, SalesNamed, AccountsEarned, Held,
       JobHeld, Earned, Worth, SoldTo
  <2> QED
    BY <2>1
<1> QED
  BY <1>1, <1>2, <1>3, <1>4, <1>5 DEF Next

\* In every reachable state the rows are well typed, sales name a customer,
\* and what customers' rows hold and handlers have read of them was earned.
THEOREM AccountsInvariance == Spec => []AccountsInv
<1> QED
  BY InitInv, NextKeeps, PTL DEF Spec

\* No interleaving of stale saves gives a customer more points than were
\* given, a total above the sales by more than a cent for each addition of
\* points (customers.service.ts:113), or a tier above what that reaches.
THEOREM AccountsAreEarned == Spec => []AccountsEarned
<1>1. AccountsInv => AccountsEarned
  BY DEF AccountsInv
<1> QED
  BY <1>1, AccountsInvariance, PTL

=============================================================================
