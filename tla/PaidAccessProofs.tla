-------------------------- MODULE PaidAccessProofs --------------------------
(***************************************************************************)
(* The detailed specification implements PaidAccess, for every value of    *)
(* the constants: each step of SubscriptionBilling is a step of PaidAccess *)
(* or leaves its variables alone.  A step is classified by what it does to *)
(* money (who is funded or reported), to the copies handlers hold, and to  *)
(* the row it writes.                                                      *)
(***************************************************************************)
EXTENDS SubscriptionBillingProofs

----------------------------------------------------------------------------
(* Money *)

\* No payment, no decision, no notification and no new day.
NoMoney ==
  /\ UNCHANGED <<today, word>>
  /\ \A g \in Gateway : gateway'[g].status = "PAID" => gateway[g].status = "PAID"

Vouched(i) == Paid(i) \/ i \in word.verified

\* An invoice that carries money or somebody's word is never given away.
LEMMA VouchedStay ==
  ASSUME IInv, Grows
  PROVE  /\ \A i \in Invoice : Vouched(i) \/ i \in word.misreported =>
               invoice[i].status # "none" /\ invoice'[i].sub = invoice[i].sub
         /\ \A i \in Invoice : Vouched(i) => Vouched(i)'
  BY DEF IInv, InvoicesSound, Vouched, Paid, Grows

\* Without money nobody becomes funded or reported.
LEMMA NoMoneyNoFunds ==
  ASSUME IInv, Grows, NoMoney
  PROVE  Access!Stays
<1>1. \A i \in Invoice : Vouched(i)' <=> Vouched(i)
  BY VouchedStay DEF NoMoney, Vouched, Paid, Grows
<1>2. Funded' = Funded
  <2>1. \A s \in Sub : (\E i \in Invoice : invoice'[i].sub = s /\ Vouched(i)')
                     <=> (\E i \in Invoice : invoice[i].sub = s /\ Vouched(i))
    BY <1>1, VouchedStay
  <2> QED
    BY <2>1 DEF Funded, Vouched, NoMoney
<1>3. Reported' = Reported
  BY VouchedStay DEF Reported, NoMoney, IInv, TypeOK
<1> QED
  BY <1>2, <1>3 DEF Access!Stays, NoMoney

\* What is funded or reported is what Backed says.
LEMMA BackedFunded ==
  ASSUME TypeOK, NEW s \in Sub, Backed(s)
  PROVE  s \in Funded \cup Reported
  BY DEF Backed, Settled, Funded, Reported

----------------------------------------------------------------------------
(* Copies *)

\* Handlers keep the copies they had or drop them, or copy rows.
Lets == \A j \in Job, s \in Sub :
          job'[j].rows[s] \in {job[j].rows[s], BlankSub}

Copies == \A j \in Job, s \in Sub :
            job'[j].rows[s] \in {job[j].rows[s], sub[s], BlankSub}

Held(s) == {Seen(row) : row \in HeldRows(s)}

\* Keeping and dropping copies is what PaidAccess calls releasing them.
LEMMA LetsRelease ==
  ASSUME Lets
  PROVE  Access!Releases
<1>1. \A s \in Sub : HeldRows(s)' \subseteq HeldRows(s)
  BY DEF Lets, HeldRows, BlankSub
<1>2. \A s \in Sub : Held(s)' \subseteq Held(s)
  BY <1>1 DEF Held, Seen, AccessOf
<1> QED
  BY <1>2 DEF Access!Releases, Held

\* Copying rows is looking at them.
LEMMA CopiesLook ==
  ASSUME IInv, Grows, NoMoney, Copies, UNCHANGED sub
  PROVE  Access!Look
<1>1. \A s \in Sub : HeldRows(s)' \subseteq HeldRows(s) \cup {sub[s]}
  BY DEF Copies, HeldRows, BlankSub
<1>2. \A s \in Sub : Held(s)' \subseteq Held(s) \cup {Seen(sub[s])}
  BY <1>1 DEF Held, Seen, AccessOf
<1>3. \A s \in Sub : Access!State(s) = Seen(sub[s])
  BY DEF Access!State, Seen
<1>4. UNCHANGED <<[s \in Sub |-> AccessOf(sub[s])], [s \in Sub |-> sub[s].end]>>
  OBVIOUS
<1> QED
  BY <1>2, <1>3, <1>4, NoMoneyNoFunds DEF Access!Look, Access!Stays, Held

----------------------------------------------------------------------------
(* Rows *)

\* Writing one row, without money, is setting its access and term.
LEMMA RowChange ==
  ASSUME IInv, Grows, NoMoney, Lets, NEW s \in Sub, NEW row,
         sub' = [sub EXCEPT ![s] = row]
  PROVE  /\ Access!SetAccess(s, AccessOf(row))
         /\ [t \in Sub |-> sub[t].end]'[s] = row.end
         /\ Access!Stays
<1>1. sub'[s] = row /\ \A t \in Sub : t # s => sub'[t] = sub[t]
  BY DEF IInv, TypeOK
<1>2. Access!Releases
  BY LetsRelease
<1>3. \A t \in Sub : AccessOf(sub[t])' =
                        IF t = s THEN AccessOf(row) ELSE AccessOf(sub[t])
  <2>1. \A t \in Sub : AccessOf(sub[t])' = AccessOf(sub'[t])
    BY Zenon DEF AccessOf
  <2> QED
    BY <1>1, <2>1
<1>4. [t \in Sub |-> AccessOf(sub[t])]' =
         [[t \in Sub |-> AccessOf(sub[t])] EXCEPT ![s] = AccessOf(row)]
  BY <1>3
<1>5. \A t \in Sub : [u \in Sub |-> sub[u].end]'[t] =
                     IF t = s THEN row.end ELSE sub[t].end
  BY <1>1
<1> QED
  BY <1>2, <1>4, <1>5, NoMoneyNoFunds DEF Access!SetAccess

\* Opening access for a subscription that is backed.
LEMMA Opens ==
  ASSUME IInv, Grows, NoMoney, Lets, NEW s \in Sub, NEW row,
         sub' = [sub EXCEPT ![s] = row], row.status = "active", Backed(s)
  PROVE  Access!Next
<1>1. AccessOf(row) = "open"
  BY DEF AccessOf
<1>2. s \in Funded \cup Reported
  BY BackedFunded DEF IInv
<1>3. Access!Open(s)
  BY <1>1, <1>2, RowChange DEF Access!Open
<1> QED
  BY <1>3 DEF Access!Next

\* The copy that handler j holds of s is among those PaidAccess knows of.
LEMMA HeldBy ==
  ASSUME NEW j \in Job, NEW s \in Sub, job[j].rows[s].status # "none"
  PROVE  Seen(job[j].rows[s]) \in Held(s)
  BY DEF Held, HeldRows

\* A handler that ends keeps no copy.
LEMMA DoneLets ==
  ASSUME IInv, NEW j \in Job, Done(j)
  PROVE  Lets
  BY DEF Done, Lets, IdleJob, IInv, TypeOK

----------------------------------------------------------------------------
(* Registrations, requests, money and days *)

\* A registration begins a subscription whose row was empty.
LEMMA Begins1 ==
  ASSUME IInv, Grows, NoMoney, UNCHANGED job, NEW s \in Sub, NEW row,
         sub[s].status = "none", row.status \in {"pending", "trial"},
         sub' = [sub EXCEPT ![s] = row]
  PROVE  Access!Next
<1>1. Lets
  BY DEF Lets
<1>2. AccessOf(row) \in {"none", "trial"} /\ AccessOf(sub[s]) = "none"
  BY DEF AccessOf
<1>3. Access!Begin(s)
  BY <1>1, <1>2, RowChange DEF Access!Begin
<1> QED
  BY <1>3 DEF Access!Next

\* The three ways to register, or to subscribe again.
LEMMA RegistrationMaps ==
  ASSUME IInv, Grows, NEW c \in Company, NEW s \in Sub,
         \/ \E i \in Invoice, m \in Durations : RegisterCompany(c, s, i, m)
         \/ RegisterTrial(c, s)
         \/ Subscribe(c, s)
  PROVE  Access!Next
<1>1. \A g, h \in Gateway, i \in Invoice :
         gateway' = [gateway EXCEPT ![g] = NewGateway(i, "invoiceNumber")]
           => (gateway'[h].status = "PAID" => gateway[h].status = "PAID")
  BY DEF NewGateway, IInv, TypeOK
<1>2. ASSUME NEW i \in Invoice, NEW m \in Durations,
             RegisterCompany(c, s, i, m)
      PROVE  Access!Next
  <2> DEFINE row == [BlankSub EXCEPT !.status = "pending", !.months = m]
  <2>1. sub' = [sub EXCEPT ![s] = row] /\ UNCHANGED job
    BY <1>2 DEF RegisterCompany
  <2>2. row.status = "pending" /\ sub[s].status = "none"
    BY <1>2 DEF RegisterCompany, BlankSub, NextRow
  <2>3. NoMoney
    BY <1>1, <1>2 DEF NoMoney, RegisterCompany
  <2> HIDE DEF row
  <2> QED
    BY <2>1, <2>2, <2>3, Begins1
<1>3. ASSUME RegisterTrial(c, s) PROVE Access!Next
  <2> DEFINE row == [BlankSub EXCEPT !.status = "trial",
                                     !.end = today + TrialDays,
                                     !.trialEnd = today + TrialDays]
  <2>1. sub' = [sub EXCEPT ![s] = row] /\ UNCHANGED job /\ NoMoney
    BY <1>3 DEF RegisterTrial, NoMoney
  <2>2. row.status = "trial" /\ sub[s].status = "none"
    BY <1>3 DEF RegisterTrial, BlankSub, NextRow
  <2> HIDE DEF row
  <2> QED
    BY <2>1, <2>2, Begins1
<1>4. ASSUME Subscribe(c, s) PROVE Access!Next
  <2> DEFINE row == [BlankSub EXCEPT !.status = "trial",
                                     !.trialEnd = today + TrialDays]
  <2>1. sub' = [sub EXCEPT ![s] = row] /\ UNCHANGED job /\ NoMoney
    BY <1>4 DEF Subscribe, NoMoney
  <2>2. row.status = "trial" /\ sub[s].status = "none"
    BY <1>4 DEF Subscribe, BlankSub, NextRow
  <2> HIDE DEF row
  <2> QED
    BY <2>1, <2>2, Begins1
<1> QED
  BY <1>2, <1>3, <1>4

\* A cancellation closes an open subscription and leaves its term.
LEMMA CancelMaps ==
  ASSUME IInv, Grows, NEW s \in Sub, CancelSubscription(s)
  PROVE  Access!Next
<1> DEFINE row == [sub[s] EXCEPT !.status = "cancelled"]
<1>1. /\ sub' = [sub EXCEPT ![s] = row] /\ NoMoney /\ Lets
      /\ sub[s].status = "active"
  BY DEF CancelSubscription, NoMoney, Lets
<1>2. row.status = "cancelled" /\ row.end = sub[s].end
  BY DEF IInv, TypeOK, SubRow
<1> HIDE DEF row
<1>3. AccessOf(row) = "cancelled" /\ AccessOf(sub[s]) = "open"
  BY <1>1, <1>2 DEF AccessOf
<1>4. /\ Access!SetAccess(s, "cancelled")
      /\ [t \in Sub |-> sub[t].end]'[s] = row.end
      /\ Access!Stays
  BY <1>1, <1>3, RowChange
<1>5. UNCHANGED [t \in Sub |-> sub[t].end]
  BY <1>2, <1>4 DEF Access!SetAccess
<1>6. Access!Cancel(s)
  BY <1>3, <1>4, <1>5 DEF Access!Cancel
<1> QED
  BY <1>6 DEF Access!Next

\* A reactivation opens anew what was already open.
LEMMA ReactivateMaps ==
  ASSUME IInv, Grows, NEW s \in Sub, NEW m \in Durations \cup {0},
         ReactivateSubscription(s, m)
  PROVE  Access!Next
<1>1. NoMoney /\ Lets /\ sub[s].status = "active"
  BY DEF ReactivateSubscription, NoMoney, Lets
<1>2. Backed(s)
  BY <1>1 DEF IInv, SubsSound, Sound
<1>3. PICK e, d : sub' = [sub EXCEPT ![s].end = e, ![s].months = d,
                                     ![s].grace = NoDay]
  BY DEF ReactivateSubscription
<1> DEFINE row == [sub[s] EXCEPT !.end = e, !.months = d, !.grace = NoDay]
<1>4. sub' = [sub EXCEPT ![s] = row] /\ row.status = "active"
  BY <1>1, <1>3 DEF IInv, TypeOK, SubRow
<1> HIDE DEF row
<1> QED
  BY <1>1, <1>2, <1>4, Opens

\* A month is at least a day.
LEMMA MonthsLast ==
  ASSUME NEW m \in Nat \ {0}, NEW d \in Nat \ {0}
  PROVE  m * d >= 1
  OBVIOUS

\* An extension grants a longer term, or touches no subscription at all.
LEMMA ExtendMaps ==
  ASSUME IInv, Grows, NEW c \in Company, NEW m \in Durations,
         ExtendSubscription(c, m)
  PROVE  [Access!Next]_Access!vars
<1>1. UNCHANGED <<today, gateway, invoice, job>>
  BY DEF ExtendSubscription
<1>2. CASE UNCHANGED <<sub, word>>
  <2>1. NoMoney /\ Copies
    BY <1>1, <1>2 DEF NoMoney, Copies
  <2> QED
    BY <1>2, <2>1, CopiesLook DEF Access!Next
<1>3. ASSUME NEW s \in Sub, IsNewest(s, c, {"active", "expired"}),
             sub' = [sub EXCEPT
                   ![s].status = "active",
                   ![s].end = AddMonths(LaterOf(sub[s].end, today), m),
                   ![s].months = @ + m],
             word' = [word EXCEPT !.extended = @ \cup {s}]
      PROVE  Access!Next
  <2> DEFINE e == AddMonths(LaterOf(sub[s].end, today), m)
             row == [sub[s] EXCEPT !.status = "active", !.end = e,
                                   !.months = @ + m]
  <2>1. /\ word'.extended = word.extended \cup {s}
        /\ word'.verified = word.verified
        /\ word'.misreported = word.misreported
    BY <1>3 DEF IInv, TypeOK
  <2>2. Funded' = Funded \cup {s} /\ Reported' = Reported
    BY <1>1, <2>1 DEF Funded, Reported, Paid
  <2>3. sub[s].end \in Nat /\ today \in Nat
    BY DEF IInv, TypeOK, SubRow
  <2>4. e \in Nat /\ e > sub[s].end /\ e > today
    <3>1. m * MonthDays >= 1 /\ m * MonthDays \in Nat
      BY MonthsLast, BillingAssumption
    <3> QED
      BY <2>3, <3>1 DEF AddMonths, LaterOf
  <2>5. sub' = [sub EXCEPT ![s] = row]
    BY <1>3
  <2> HIDE DEF e
  <2>6. row.status = "active" /\ row.end = e
    BY DEF IInv, TypeOK, SubRow
  <2> HIDE DEF row
  <2>7. /\ sub'[s] = row /\ \A t \in Sub : t # s => sub'[t] = sub[t]
    BY <2>5 DEF IInv, TypeOK
  <2>8. AccessOf(row) = "open" /\ AccessOf(sub[s]) \in {"open", "ended"}
    BY <1>3, <2>6 DEF AccessOf, IsNewest
  <2>9. \A t \in Sub : AccessOf(sub[t])' = AccessOf(sub'[t])
    BY Zenon DEF AccessOf
  <2>10. [t \in Sub |-> AccessOf(sub[t])]' =
            [[t \in Sub |-> AccessOf(sub[t])] EXCEPT ![s] = "open"]
    BY <2>7, <2>8, <2>9
  <2>11. Access!Releases
    BY <1>1, LetsRelease DEF Lets
  <2>12. Access!SetAccess(s, "open")
    BY <2>7, <2>10, <2>11 DEF Access!SetAccess
  <2>13. Access!Grant(s)
    BY <1>1, <2>2, <2>4, <2>6, <2>7, <2>8, <2>12 DEF Access!Grant
  <2> QED
    BY <2>13 DEF Access!Next
<1> QED
  BY <1>2, <1>3 DEF ExtendSubscription

\* The rows, and the copies of them, stay as they are.
Still == UNCHANGED <<today, sub>>
         /\ \A j \in Job : job'[j].rows = job[j].rows

\* Then so do access, terms and what is held.
LEMMA StillStays ==
  ASSUME Still
  PROVE  UNCHANGED <<today, [t \in Sub |-> AccessOf(sub[t])],
                     [t \in Sub |-> sub[t].end], [t \in Sub |-> Held(t)]>>
<1>1. \A t \in Sub : Held(t)' = Held(t)
  BY DEF Still, Held, HeldRows, Seen, AccessOf
<1>2. \A t \in Sub : AccessOf(sub[t])' = AccessOf(sub[t])
  BY DEF Still, AccessOf
<1> QED
  BY <1>1, <1>2 DEF Still

\* Money or somebody's word for invoice i funds the subscription it is for.
LEMMA Funds ==
  ASSUME IInv, Grows, Still, NEW i \in Invoice, invoice[i].status # "none",
         Vouched(i)', \A k \in Invoice : k # i => (Vouched(k)' <=> Vouched(k)),
         UNCHANGED <<word.extended, word.misreported>>
  PROVE  Access!Next
<1>1. invoice[i].sub \in Sub /\ invoice'[i].sub = invoice[i].sub
  BY DEF IInv, InvoicesSound, Grows
<1>s. PICK s \in Sub : s = invoice[i].sub
  BY <1>1
<1>2. \A t \in Sub : (\E k \in Invoice : invoice'[k].sub = t /\ Vouched(k)')
            <=> (t = s \/ \E k \in Invoice : invoice[k].sub = t /\ Vouched(k))
  BY <1>1, <1>s, VouchedStay
<1>3. Funded' = Funded \cup {s}
  BY <1>2 DEF Funded, Vouched
<1>4. Reported' = Reported
  BY VouchedStay DEF Reported, IInv, TypeOK
<1>5. Access!Fund(s)
  BY <1>3, <1>4, StillStays DEF Access!Fund, Held
<1> QED
  BY <1>5 DEF Access!Next

\* A payment at the gateway is money for one invoice.
LEMMA GatewayPayMaps ==
  ASSUME IInv, Grows, NEW g \in Gateway, GatewayPay(g)
  PROVE  Access!Next
<1> DEFINE i == gateway[g].inv
<1>1. i \in Invoice /\ invoice[i].status # "none"
  BY DEF GatewayPay, IInv, InvoicesSound
<1>2. gateway'[g].status = "PAID" /\ gateway'[g].inv = i
      /\ \A h \in Gateway : h # g => gateway'[h] = gateway[h]
  BY DEF GatewayPay, IInv, TypeOK, GatewayRow
<1>3. UNCHANGED <<today, sub, job, word>> /\ gateway[g].status # "PAID"
  BY DEF GatewayPay
<1>i. PICK k \in Invoice : k = i
  BY <1>1
<1>4. Vouched(k)'
  BY <1>2, <1>i DEF Vouched, Paid
<1>5. \A l \in Invoice : l # k => (Vouched(l)' <=> Vouched(l))
  BY <1>2, <1>3, <1>i DEF Vouched, Paid
<1>6. Still
  BY <1>3 DEF Still
<1> QED
  BY <1>1, <1>i, <1>3, <1>4, <1>5, <1>6, Funds

\* Handler j moves without touching its copies.
LEMMA StillMoves ==
  ASSUME IInv, NEW j \in Job, NEW pc, NEW i,
         job' = [job EXCEPT ![j].pc = pc, ![j].inv = i]
  PROVE  \A k \in Job : job'[k].rows = job[k].rows
  BY DEF IInv, TypeOK, JobRow

\* The administrator's word for an invoice not yet paid is money for it.
LEMMA AdminVerifyMaps ==
  ASSUME IInv, Grows, NEW j \in Job, NEW i \in Invoice, AdminVerify(j, i)
  PROVE  [Access!Next]_Access!vars
<1>1. UNCHANGED <<today, sub, gateway>> /\ invoice[i].status # "none"
  BY DEF AdminVerify
<1>2. \A k \in Job : job'[k].rows = job[k].rows
  BY StillMoves DEF AdminVerify
<1>3. CASE UNCHANGED word
  <2>1. NoMoney /\ Copies
    BY <1>1, <1>2, <1>3 DEF NoMoney, Copies
  <2> QED
    BY <1>1, <2>1, CopiesLook DEF Access!Next
<1>4. CASE word' = [word EXCEPT !.verified = @ \cup {i}]
  <2>1. /\ word'.extended = word.extended
        /\ word'.misreported = word.misreported
        /\ word'.verified = word.verified \cup {i}
    BY <1>4 DEF IInv, TypeOK
  <2>2. Vouched(i)' /\ \A k \in Invoice : k # i => (Vouched(k)' <=> Vouched(k))
    BY <1>1, <2>1 DEF Vouched, Paid
  <2>3. Still
    BY <1>1, <1>2 DEF Still
  <2> QED
    BY <1>1, <2>1, <2>2, <2>3, Funds
<1> QED
  BY <1>3, <1>4 DEF AdminVerify

\* A notification reports a subscription, unless it is the gateway's.
LEMMA NotificationMaps ==
  ASSUME IInv, Grows, NEW i \in Invoice, NEW g, NEW status,
         Notified(i, g, status), UNCHANGED <<today, sub, gateway>>,
         \A k \in Job : job'[k].rows = job[k].rows
  PROVE  [Access!Next]_Access!vars
<1>1. invoice[i].status # "none"
  BY DEF Notified
<1>2. CASE UNCHANGED word
  <2>1. NoMoney /\ Copies
    BY <1>2 DEF NoMoney, Copies
  <2> QED
    BY <2>1, CopiesLook DEF Access!Next
<1>3. CASE word' = [word EXCEPT !.misreported = @ \cup {i}]
  <2>1. /\ word'.extended = word.extended /\ word'.verified = word.verified
        /\ word'.misreported = word.misreported \cup {i}
    BY <1>3 DEF IInv, TypeOK
  <2>2. invoice[i].sub \in Sub /\ invoice'[i].sub = invoice[i].sub
    BY <1>1 DEF IInv, InvoicesSound, Grows
  <2>s. PICK s \in Sub : s = invoice[i].sub
    BY <2>2
  <2>3. \A k \in Invoice : Vouched(k)' <=> Vouched(k)
    BY <2>1 DEF Vouched, Paid
  <2>4. \A t \in Sub : (\E k \in Invoice : invoice'[k].sub = t /\ Vouched(k)')
                  <=> (\E k \in Invoice : invoice[k].sub = t /\ Vouched(k))
    BY <2>3, VouchedStay
  <2>5. Funded' = Funded
    BY <2>1, <2>4 DEF Funded, Vouched
  <2>6. \A k \in word.misreported : invoice'[k].sub = invoice[k].sub
    BY VouchedStay DEF IInv, TypeOK
  <2>7. Reported' = Reported \cup {s}
    BY <2>1, <2>2, <2>s, <2>6 DEF Reported
  <2>8. Still
    BY DEF Still
  <2>9. Access!Report(s)
    BY <2>5, <2>7, <2>8, StillStays DEF Access!Report, Held
  <2> QED
    BY <2>9 DEF Access!Next
<1>4. UNCHANGED word \/ word' = [word EXCEPT !.misreported = @ \cup {i}]
  BY DEF Notified, IInv, TypeOK
<1> QED
  BY <1>2, <1>3, <1>4

\* A day of the calendar is a day of PaidAccess.
LEMMA TickMaps ==
  ASSUME IInv, Grows, Tick
  PROVE  Access!Next
<1>1. today' = today + 1 /\ UNCHANGED <<sub, invoice, job, word>>
  BY DEF Tick
<1>2. \A g \in Gateway : gateway'[g].status = "PAID" <=>
                           gateway[g].status = "PAID"
  BY DEF Tick, IInv, TypeOK, GatewayRow
<1>3. \A i \in Invoice : Vouched(i)' <=> Vouched(i)
  BY <1>1, <1>2 DEF Vouched, Paid, Tick, IInv, TypeOK, GatewayRow
<1>4. Funded' = Funded /\ Reported' = Reported
  BY <1>1, <1>3 DEF Funded, Vouched, Reported
<1>5. \A t \in Sub : Held(t)' = Held(t) /\ AccessOf(sub[t])' = AccessOf(sub[t])
  BY <1>1 DEF Held, HeldRows, Seen, AccessOf
<1>6. Access!NextDay
  BY <1>1, <1>4, <1>5 DEF Access!NextDay, Held
<1> QED
  BY <1>6 DEF Access!Next

----------------------------------------------------------------------------
(* Rows that handlers write *)

\* A handler that ends by saving the row it holds puts it back.
LEMMA PutsBack ==
  ASSUME IInv, Grows, NoMoney, Lets, NEW j \in Job, NEW s \in Sub, NEW row,
         NEW copy, copy = job[j].rows[s],
         copy.status \in {"active", "expired", "suspended"},
         row.status = copy.status, row.end = copy.end,
         sub' = [sub EXCEPT ![s] = row]
  PROVE  Access!Next
<1> DEFINE c == Seen(copy)
<1>1. c \in Held(s)
  BY HeldBy
<1>2. c.access = AccessOf(row) /\ c.term = row.end
      /\ c.access \in {"open", "ended", "blocked"}
  BY DEF Seen, AccessOf
<1> HIDE DEF c
<1>4. Access!PutBack(s)
  BY <1>1, <1>2, RowChange DEF Access!PutBack, Held
<1> QED
  BY <1>4 DEF Access!Next

\* Changes of plan and renewals save the row for a plan's or renewal's sake.
LEMMA SavesMap ==
  ASSUME IInv, Grows, NEW j \in Job, ChangePlanSave(j) \/ RenewSave(j)
  PROVE  Access!Next
<1>1. /\ job[j].sub \in Sub
      /\ job[j].rows[job[j].sub].status \in {"active", "expired", "suspended"}
      /\ job[j].rows[job[j].sub] \in SubRow
  BY DEF ChangePlanSave, RenewSave, IInv, JobsSound, Knows, HasSub, TypeOK,
         JobRow
<1>2. PICK s \in Sub : s = job[j].sub
  BY <1>1
<1>3. NoMoney /\ Lets
  BY DoneLets DEF ChangePlanSave, RenewSave, NoMoney
<1>s. PICK copy \in SubRow :
         /\ copy = job[j].rows[s]
         /\ copy.status \in {"active", "expired", "suspended"}
  BY <1>1, <1>2
<1>4. ASSUME NEW row, row.status = copy.status, row.end = copy.end,
             sub' = [sub EXCEPT ![s] = row]
      PROVE  Access!Next
  BY <1>2, <1>3, <1>s, <1>4, PutsBack
<1>5. CASE ChangePlanSave(j)
  <2>1. sub' = [sub EXCEPT ![s] = copy]
    BY <1>2, <1>s, <1>5 DEF ChangePlanSave
  <2> QED
    BY <1>4, <2>1
<1>6. CASE RenewSave(j)
  <2> DEFINE row == [copy EXCEPT !.renewal = job[j].renewal]
  <2>1. sub' = [sub EXCEPT ![s] = row]
    BY <1>2, <1>s, <1>6 DEF RenewSave
  <2>2. row.status = copy.status /\ row.end = copy.end
    BY <1>s DEF SubRow
  <2> HIDE DEF row
  <2> QED
    BY <1>4, <2>1, <2>2
<1> QED
  BY <1>5, <1>6

\* A settled invoice backs its subscription.
LEMMA SettledBacks ==
  ASSUME IInv, NEW j \in Job, job[j].pc \in {"activate", "paySub"}
  PROVE  invoice[job[j].inv].sub \in Sub /\ Backed(invoice[job[j].inv].sub)
  BY DEF IInv, JobsSound, Knows, HasInvoice, HasSettled, InvoicesSound, Backed

\* Both ways of recording a payment open the subscription it backs.
LEMMA ActivationsMap ==
  ASSUME IInv, Grows, NEW j \in Job, ActivateSub(j) \/ PaymentCheckSub(j)
  PROVE  Access!Next
<1>1. PICK s \in Sub : s = invoice[job[j].inv].sub /\ Backed(s)
  BY SettledBacks DEF ActivateSub, PaymentCheckSub
<1>2. NoMoney
  BY DEF ActivateSub, PaymentCheckSub, NoMoney
<1>3. Lets
  BY DEF ActivateSub, PaymentCheckSub, Goto, Lets, IInv, TypeOK, JobRow
<1>4. PICK row : sub' = [sub EXCEPT ![s] = row] /\ row.status = "active"
  <2>1. CASE ActivateSub(j)
    <3> DEFINE r == sub[s].renewal
               m == BoughtMonths(s, job[j].inv)
               renewed == [sub[s] EXCEPT
                             !.status = "active", !.end = r.end,
                             !.months = r.months, !.grace = NoDay,
                             !.renewal = NoRenewal]
               bought == [sub[s] EXCEPT
                            !.status = "active", !.end = AddMonths(today, m),
                            !.months = m]
    <3>1. \/ sub' = [sub EXCEPT ![s] = renewed]
          \/ sub' = [sub EXCEPT ![s] = bought]
      BY <1>1, <2>1 DEF ActivateSub
    <3>2. renewed.status = "active" /\ bought.status = "active"
      BY DEF IInv, TypeOK, SubRow
    <3> HIDE DEF renewed, bought
    <3> QED
      BY <3>1, <3>2
  <2>2. CASE PaymentCheckSub(j)
    <3> DEFINE m == IF sub[s].months # 0 THEN sub[s].months ELSE 1
               new == [sub[s] EXCEPT !.status = "active",
                                     !.end = AddMonths(today, m)]
    <3>1. sub' = [sub EXCEPT ![s] = new]
      BY <1>1, <2>2 DEF PaymentCheckSub
    <3>2. new.status = "active"
      BY DEF IInv, TypeOK, SubRow
    <3> HIDE DEF new
    <3> QED
      BY <3>1, <3>2
  <2> QED
    BY <2>1, <2>2
<1> QED
  BY <1>1, <1>2, <1>3, <1>4, Opens

\* The two loops of the expiry job write back the row they listed.
LEMMA ExpiryMaps ==
  ASSUME IInv, Grows, NEW j \in Job, NEW s \in Sub,
         ExpireRow(j, s) \/ SuspendRow(j, s)
  PROVE  Access!Next
<1> DEFINE copy == job[j].rows[s]
           c == Seen(copy)
<1>1. NoMoney /\ Lets
  <2>1. ASSUME NEW pc, job' = [job EXCEPT ![j].pc = pc, ![j].sub = s]
        PROVE  Lets
    BY <2>1 DEF Lets, IInv, TypeOK, JobRow
  <2> QED
    BY <2>1 DEF ExpireRow, SuspendRow, NoMoney
<1>2. copy \in SubRow /\ copy.status # "none"
  BY DEF ExpireRow, SuspendRow, IInv, TypeOK, JobRow, JobsSound, Knows
<1>3. c \in Held(s)
  BY <1>2, HeldBy
<1>4. c.access = AccessOf(copy) /\ c.term = copy.end
  BY DEF Seen
<1> HIDE DEF c
<1>5. CASE ExpireRow(j, s)
  <2> DEFINE row == [copy EXCEPT !.status = "expired",
                                 !.grace = copy.end + GraceDays]
  <2>1. sub' = [sub EXCEPT ![s] = row]
    BY <1>5 DEF ExpireRow
  <2>2. row.status = "expired" /\ row.end = copy.end
    BY <1>2 DEF SubRow
  <2>3. copy.status = "active" /\ copy.end < today
    BY <1>5 DEF ExpireRow, IInv, JobsSound, Knows
  <2> HIDE DEF row
  <2>4. AccessOf(row) = "ended" /\ AccessOf(copy) = "open"
    BY <2>2, <2>3 DEF AccessOf
  <2> HIDE DEF copy
  <2>5. Access!End(s)
    BY <1>1, <1>3, <1>4, <2>1, <2>2, <2>3, <2>4, RowChange
       DEF Access!End, Held
  <2> QED
    BY <2>5 DEF Access!Next
<1>6. CASE SuspendRow(j, s)
  <2> DEFINE row == [copy EXCEPT !.status = "suspended"]
  <2>1. sub' = [sub EXCEPT ![s] = row]
    BY <1>6 DEF SuspendRow
  <2>2. row.status = "suspended" /\ row.end = copy.end
    BY <1>2 DEF SubRow
  <2>3. /\ copy.status = "expired"
        /\ copy.end + GraceDays <= copy.grace /\ copy.grace < today
    BY <1>6 DEF SuspendRow, IInv, JobsSound, Knows, Stale, Sound
  <2>4. copy.end + GraceDays < today
    BY <1>2, <2>3, BillingAssumption DEF SubRow, IInv, TypeOK
  <2> HIDE DEF row
  <2>5. AccessOf(row) = "blocked" /\ AccessOf(copy) = "ended"
    BY <2>2, <2>3 DEF AccessOf
  <2> HIDE DEF copy
  <2>6. Access!Block(s)
    BY <1>1, <1>3, <1>4, <2>1, <2>2, <2>4, <2>5, RowChange
       DEF Access!Block, Held
  <2> QED
    BY <2>6 DEF Access!Next
<1> QED
  BY <1>5, <1>6

\* The trial job ends what is still a trial.
LEMMA ExpireTrialMaps ==
  ASSUME IInv, Grows, NEW j \in Job, NEW s \in Sub, ExpireTrial(j, s)
  PROVE  Access!Next
<1> DEFINE row == [sub[s] EXCEPT !.status = "expired"]
<1>1. /\ NoMoney
      /\ Lets
  BY DEF ExpireTrial, NoMoney, Lets, IInv, TypeOK, JobRow
<1>2. sub' = [sub EXCEPT ![s] = row] /\ sub[s].status = "trial"
  BY DEF ExpireTrial, IInv, TrialsSound, InTrialJob
<1>3. row.status = "expired" /\ row.end = sub[s].end
  BY DEF IInv, TypeOK, SubRow
<1> HIDE DEF row
<1>4. AccessOf(row) = "ended" /\ AccessOf(sub[s]) = "trial"
  BY <1>2, <1>3 DEF AccessOf
<1>5. /\ Access!SetAccess(s, "ended")
      /\ [t \in Sub |-> sub[t].end]'[s] = row.end
      /\ Access!Stays
  BY <1>1, <1>2, <1>4, RowChange
<1>6. UNCHANGED [t \in Sub |-> sub[t].end]
  BY <1>3, <1>5 DEF Access!SetAccess
<1>7. Access!EndTrial(s)
  BY <1>4, <1>5, <1>6 DEF Access!EndTrial
<1> QED
  BY <1>7 DEF Access!Next

----------------------------------------------------------------------------
(* Everything else *)

\* Neither money nor a row: at most a copy is taken or dropped.
Quiet == NoMoney /\ Copies /\ UNCHANGED sub

\* The requests that write no subscription.
LEMMA RequestsQuiet ==
  ASSUME IInv,
         \/ \E c \in Company : CreateMember(c)
         \/ \E i \in Invoice, g \in Gateway : PayInvoice(i, g)
         \/ \E j \in Job, s \in Sub : ChangePlan(j, s)
         \/ \E i \in Invoice : CancelInvoice(i)
         \/ \E j \in Job, s \in Sub, m \in Durations, i \in Invoice :
               RenewStart(j, s, m, i)
         \/ \E j \in Job, i \in Invoice : CheckPayment(j, i)
  PROVE  Quiet
<1>1. CASE \E i \in Invoice, g \in Gateway : PayInvoice(i, g)
  BY <1>1 DEF PayInvoice, NewGateway, Quiet, NoMoney, Copies, IInv, TypeOK
<1>2. ASSUME NEW j \in Job, NEW s \in Sub, NEW m \in Durations,
             NEW i \in Invoice, RenewStart(j, s, m, i)
      PROVE  Quiet
  <2>1. \A t \in Sub : job'[j].rows[t] \in {sub[t], BlankSub}
    BY <1>2 DEF RenewStart, IdleJob, IInv, TypeOK
  <2>2. \A k \in Job : k # j => job'[k] = job[k]
    BY <1>2 DEF RenewStart, IInv, TypeOK
  <2>3. Copies
    BY <2>1, <2>2 DEF Copies
  <2> QED
    BY <1>2, <2>3 DEF RenewStart, Quiet, NoMoney
<1>3. ASSUME NEW j \in Job, NEW s \in Sub, ChangePlan(j, s) PROVE Quiet
  <2>1. \A t \in Sub : job'[j].rows[t] \in {sub[t], BlankSub}
    BY <1>3 DEF ChangePlan, IdleJob, IInv, TypeOK
  <2>2. \A k \in Job : k # j => job'[k] = job[k]
    BY <1>3 DEF ChangePlan, IInv, TypeOK
  <2>3. Copies
    BY <2>1, <2>2 DEF Copies
  <2> QED
    BY <1>3, <2>3 DEF ChangePlan, Quiet, NoMoney
<1>4. ASSUME NEW j \in Job, NEW i \in Invoice, CheckPayment(j, i) PROVE Quiet
  <2>1. job'[j].rows = job[j].rows
    <3> DEFINE r == [job[j] EXCEPT !.pc = "check", !.inv = i,
                                   !.gw = invoice[i].txRef]
    <3>1. job'[j] = r
      BY <1>4 DEF CheckPayment, IInv, TypeOK
    <3>2. r.rows = job[j].rows
      BY DEF IInv, TypeOK, JobRow
    <3> QED
      BY <3>1, <3>2
  <2>2. \A k \in Job : k # j => job'[k] = job[k]
    BY <1>4 DEF CheckPayment, IInv, TypeOK
  <2>3. Copies
    BY <2>1, <2>2 DEF Copies
  <2> QED
    BY <1>4, <2>3 DEF CheckPayment, Quiet, NoMoney
<1>5. CASE \/ \E c \in Company : CreateMember(c)
           \/ \E i \in Invoice : CancelInvoice(i)
  BY <1>5 DEF CreateMember, CancelInvoice, Quiet, NoMoney, Copies
<1> QED
  BY <1>1, <1>2, <1>3, <1>4, <1>5

\* The starts of the jobs copy the rows they list, or none.
LEMMA StartsQuiet ==
  ASSUME IInv, NEW j \in Job, Start(j)
  PROVE  Quiet
<1>1. \A k \in Job : k # j => job'[k] = job[k]
  BY DEF Start, PaymentCheckStart, ExpiryStart, TrialCheckStart, IInv, TypeOK
<1>2. CASE PaymentCheckStart(j) \/ TrialCheckStart(j)
  <2>1. job'[j].rows = job[j].rows
    BY <1>2 DEF PaymentCheckStart, TrialCheckStart, IInv, TypeOK, JobRow
  <2>2. Copies
    BY <1>1, <2>1 DEF Copies
  <2> QED
    BY <1>2, <2>2 DEF PaymentCheckStart, TrialCheckStart, Quiet, NoMoney
<1>3. CASE ExpiryStart(j)
  <2>1. \A t \in Sub : job'[j].rows[t] \in {sub[t], BlankSub}
    BY <1>3 DEF ExpiryStart, RowsOf, IInv, TypeOK, JobRow
  <2> QED
    BY <1>1, <1>3, <2>1 DEF ExpiryStart, Quiet, NoMoney, Copies
<1> QED
  BY <1>2, <1>3 DEF Start

\* Leaving a row of the loop behind drops its copy.
LEMMA NextInLoopCopies ==
  ASSUME IInv, NEW j \in Job, NEW pc, NextInLoop(j, pc)
  PROVE  Copies
  BY DEF NextInLoop, Copies, IInv, TypeOK, JobRow

\* Moving on keeps the copies.
LEMMA GotoCopies ==
  ASSUME IInv, NEW j \in Job, NEW pc, Goto(j, pc)
  PROVE  Copies
  BY DEF Goto, Copies, IInv, TypeOK, JobRow

\* Ending drops them.
LEMMA DoneCopies ==
  ASSUME IInv, NEW j \in Job, Done(j)
  PROVE  Copies
  BY DEF Done, IdleJob, Copies, IInv, TypeOK

\* Failures write nothing.
LEMMA FailuresQuiet ==
  ASSUME IInv, NEW j \in Job, RowFails(j) \/ Fail(j)
  PROVE  Quiet
<1>1. UNCHANGED <<today, sub, gateway, word>>
  BY DEF RowFails, Fail
<1>2. Copies
  <2>1. ASSUME NEW s, job' = [job EXCEPT ![j].list = @ \ {s}] PROVE Copies
    BY <2>1 DEF Copies, IInv, TypeOK, JobRow
  <2> QED
    BY <2>1, GotoCopies, NextInLoopCopies, DoneCopies DEF RowFails, Fail
<1> QED
  BY <1>1, <1>2 DEF Quiet, NoMoney

\* The steps of the payment job and of activations outside the rows.
LEMMA PaymentStepsQuiet ==
  ASSUME IInv, NEW j \in Job,
         \/ \E g \in Gateway : RenewGateway(j, g)
         \/ RenewRejected(j) \/ RenewSaveInvoice(j)
         \/ CheckResult(j) \/ MarkPaid(j) \/ ActivateCompany(j)
         \/ \E i \in Invoice, g \in Gateway :
               PaymentFound(j, i, g) \/ PaymentExpired(j, i, g)
                 \/ PaymentUnknown(j, i, g)
         \/ PaymentCheckCompany(j) \/ PaymentCheckEnd(j)
  PROVE  Quiet
<1>1. UNCHANGED <<today, sub, word>>
  BY DEF RenewGateway, RenewRejected, RenewSaveInvoice, CheckResult, MarkPaid,
         ActivateCompany, PaymentFound, PaymentExpired, PaymentUnknown,
         PaymentCheckCompany, PaymentCheckEnd
<1>2. ASSUME NEW g \in Gateway, RenewGateway(j, g) PROVE Quiet
  <2>1. Copies
    BY <1>2 DEF RenewGateway, Copies, IInv, TypeOK, JobRow
  <2>2. \A h \in Gateway : gateway'[h].status = "PAID"
                             => gateway[h].status = "PAID"
    BY <1>2 DEF RenewGateway, NewGateway, IInv, TypeOK
  <2> QED
    BY <1>1, <2>1, <2>2 DEF Quiet, NoMoney
<1>3. ASSUME NEW i \in Invoice, NEW g \in Gateway,
             PaymentFound(j, i, g) \/ PaymentExpired(j, i, g)
               \/ PaymentUnknown(j, i, g)
      PROVE  Quiet
  <2>1. job'[j].rows = job[j].rows
    <3>1. CASE PaymentFound(j, i, g)
      BY <3>1 DEF PaymentFound, IInv, TypeOK, JobRow
    <3>2. CASE PaymentExpired(j, i, g) \/ PaymentUnknown(j, i, g)
      BY <3>2 DEF PaymentExpired, PaymentUnknown, IInv, TypeOK, JobRow
    <3> QED
      BY <1>3, <3>1, <3>2
  <2>2. \A k \in Job : k # j => job'[k] = job[k]
    BY <1>3 DEF PaymentFound, PaymentExpired, PaymentUnknown, IInv, TypeOK
  <2>3. Copies
    BY <2>1, <2>2 DEF Copies
  <2> QED
    BY <1>1, <1>3, <2>3
       DEF PaymentFound, PaymentExpired, PaymentUnknown, Quiet, NoMoney
<1>4. CASE RenewRejected(j) \/ RenewSaveInvoice(j)
  BY <1>1, <1>4, GotoCopies, DoneCopies
     DEF RenewRejected, RenewSaveInvoice, Quiet, NoMoney
<1>5. CASE CheckResult(j) \/ MarkPaid(j) \/ ActivateCompany(j)
  BY <1>1, <1>5, GotoCopies, DoneCopies
     DEF CheckResult, MarkPaid, ActivateCompany, Quiet, NoMoney
<1>6. CASE PaymentCheckCompany(j) \/ PaymentCheckEnd(j)
  BY <1>1, <1>6, GotoCopies, DoneCopies
     DEF PaymentCheckCompany, PaymentCheckEnd, Quiet, NoMoney
<1> QED
  BY <1>2, <1>3, <1>4, <1>5, <1>6

\* The steps of the daily jobs outside the rows.
LEMMA LoopStepsQuiet ==
  ASSUME IInv, NEW j \in Job,
         \/ ExpireCompany(j) \/ SuspensionStart(j) \/ SuspendCompany(j)
         \/ ExpiryEnd(j) \/ ExpireTrialCompany(j) \/ TrialCheckEnd(j)
  PROVE  Quiet
<1>1. CASE SuspensionStart(j)
  <2>1. \A t \in Sub : job'[j].rows[t] \in {sub[t], BlankSub}
    BY <1>1 DEF SuspensionStart, RowsOf, IInv, TypeOK, JobRow
  <2>2. \A k \in Job : k # j => job'[k] = job[k]
    BY <1>1 DEF SuspensionStart, IInv, TypeOK
  <2> QED
    BY <1>1, <2>1, <2>2 DEF SuspensionStart, Quiet, NoMoney, Copies
<1>2. CASE ExpireCompany(j) \/ SuspendCompany(j) \/ ExpireTrialCompany(j)
  BY <1>2, NextInLoopCopies
     DEF ExpireCompany, SuspendCompany, ExpireTrialCompany, Quiet, NoMoney
<1>3. CASE ExpiryEnd(j) \/ TrialCheckEnd(j)
  BY <1>3, DoneCopies DEF ExpiryEnd, TrialCheckEnd, Quiet, NoMoney
<1> QED
  BY <1>1, <1>2, <1>3

----------------------------------------------------------------------------
(* The refinement *)

LEMMA QuietMaps ==
  ASSUME IInv, Grows, Quiet
  PROVE  Access!Next
  BY CopiesLook DEF Quiet, Access!Next

\* Every request.
LEMMA RequestMaps ==
  ASSUME IInv, Grows, Request
  PROVE  [Access!Next]_Access!vars
<1>1. ASSUME NEW c \in Company, NEW m \in Durations, ExtendSubscription(c, m)
      PROVE  [Access!Next]_Access!vars
  BY <1>1, ExtendMaps
<1>2. ASSUME NEW j \in Job, NEW i \in Invoice, AdminVerify(j, i)
      PROVE  [Access!Next]_Access!vars
  BY <1>2, AdminVerifyMaps
<1>3. ASSUME NEW c \in Company, NEW s \in Sub,
             \/ \E i \in Invoice, m \in Durations : RegisterCompany(c, s, i, m)
             \/ RegisterTrial(c, s)
             \/ Subscribe(c, s)
      PROVE  Access!Next
  BY <1>3, RegistrationMaps
<1>4. ASSUME NEW s \in Sub, CancelSubscription(s) PROVE Access!Next
  BY <1>4, CancelMaps
<1>5. ASSUME NEW s \in Sub, NEW m \in Durations \cup {0},
             ReactivateSubscription(s, m)
      PROVE  Access!Next
  BY <1>5, ReactivateMaps
<1> QED
  BY <1>1, <1>2, <1>3, <1>4, <1>5, RequestsQuiet, QuietMaps DEF Request

\* Every payment and notification.
LEMMA FromGatewayMaps ==
  ASSUME IInv, Grows, FromGateway
  PROVE  [Access!Next]_Access!vars
<1>1. ASSUME NEW g \in Gateway, GatewayPay(g) PROVE Access!Next
  BY <1>1, GatewayPayMaps
<1>2. ASSUME NEW i \in Invoice, NEW g \in Gateway \cup {NoGateway},
             NEW j \in Job, WebhookPaid(j, i, g)
      PROVE  [Access!Next]_Access!vars
  <2>1. \A k \in Job : job'[k].rows = job[k].rows
    BY <1>2, StillMoves DEF WebhookPaid
  <2> QED
    BY <1>2, <2>1, NotificationMaps DEF WebhookPaid
<1>3. ASSUME NEW i \in Invoice, NEW g \in Gateway \cup {NoGateway},
             WebhookOther(i, g)
      PROVE  [Access!Next]_Access!vars
  BY <1>3, NotificationMaps DEF WebhookOther
<1> QED
  BY <1>1, <1>2, <1>3 DEF FromGateway

\* Every step of a running handler.
LEMMA StepMaps ==
  ASSUME IInv, Grows, NEW j \in Job, Step(j)
  PROVE  Access!Next
<1>1. ASSUME NEW s \in Sub,
             ExpireRow(j, s) \/ SuspendRow(j, s) \/ ExpireTrial(j, s)
      PROVE  Access!Next
  BY <1>1, ExpiryMaps, ExpireTrialMaps
<1> QED
  BY <1>1, SavesMap, ActivationsMap, PaymentStepsQuiet, LoopStepsQuiet,
     QuietMaps DEF Step

\* Every step implements a step of PaidAccess.
LEMMA NextMaps ==
  ASSUME IInv, [Next]_vars
  PROVE  [Access!Next]_Access!vars
<1>1. Grows
  BY NextKeeps DEF Keeps
<1>2. CASE Tick
  BY <1>1, <1>2, TickMaps
<1>3. CASE UNCHANGED vars
  BY <1>1, <1>3, QuietMaps DEF vars, Quiet, NoMoney, Copies
<1>4. ASSUME NEW j \in Job, Start(j) \/ Step(j) \/ RowFails(j) \/ Fail(j)
      PROVE  Access!Next
  BY <1>1, <1>4, StartsQuiet, StepMaps, FailuresQuiet, QuietMaps
<1> QED
  BY <1>1, <1>2, <1>3, <1>4, RequestMaps, FromGatewayMaps DEF Next

\* The empty database is an initial state of PaidAccess.
LEMMA InitMaps == Init => Access!Init
<1> SUFFICES ASSUME Init PROVE Access!Init
  OBVIOUS
<1>1. Funded = {} /\ Reported = {}
  BY DEF Init, Funded, Reported, Paid, BlankGateway
<1>2. \A s \in Sub : AccessOf(sub[s]) = "none" /\ sub[s].end = 0
  BY DEF Init, AccessOf, BlankSub, NoDay
<1>3. \A s \in Sub : Held(s) = {}
  BY DEF Init, Held, HeldRows, IdleJob, BlankSub
<1> QED
  BY <1>1, <1>2, <1>3 DEF Access!Init, Init, Held

\* Requests, notifications, jobs, stale saves and crashes together open a
\* subscription only after a payment or somebody's word for it, and end or
\* block one only by writing back a row a handler held, whose term, or term
\* and grace, was over; nothing else changes access or a term.
THEOREM Refinement == Spec => ImplementsPaidAccess
<1>1. IInv /\ [Next]_vars => [Access!Next]_Access!vars
  BY NextMaps
<1> QED
  BY Invariance, InitMaps, <1>1, PTL DEF Spec, ImplementsPaidAccess, Access!Spec
=============================================================================
