------------------------- MODULE FinanceBooksProofs --------------------------
(***************************************************************************)
(* What the ledger, the rows and the balances of Finance say of one        *)
(* another: which ledger rows exist, permanent numbers, what is allocated, *)
(* what the books add up to, and the abstract specification.               *)
(***************************************************************************)
EXTENDS FinanceProofs

MoveSet == [kind : EntryKinds, delta : Int, ref : Refs]

Posted(row) == row.status \notin {"ABSENT", "DRAFT"}

-----------------------------------------------------------------------------
(* Ledger rows.                                                            *)

One(ref, kinds) == \E x : RowsOf(ref, kinds) = {x}
Two(ref, kinds) == \E x, y : x # y /\ RowsOf(ref, kinds) = {x, y}
None(ref, kinds) == RowsOf(ref, kinds) = {}

PaymentFits(p) ==
    LET s == payments[p].status IN
    /\ IF s \in {"POSTED", "REVERSED"} THEN One(p, PaymentTypes) ELSE None(p, PaymentTypes)
    /\ IF s = "REVERSED" THEN One(p, {"PAYMENT_REVERSAL"}) ELSE None(p, {"PAYMENT_REVERSAL"})

ExpenseFits(e) ==
    LET s == expenses[e].status IN
    /\ IF s \in {"POSTED", "CANCELLED"} THEN One(e, {"EXPENSE"}) ELSE None(e, {"EXPENSE"})
    /\ IF s = "CANCELLED" THEN One(e, {"EXPENSE_REVERSAL"}) ELSE None(e, {"EXPENSE_REVERSAL"})

TransferFits(t) ==
    LET s == transfers[t].status IN
    /\ IF s # "ABSENT" THEN One(t, {"TRANSFER_OUT"}) ELSE None(t, {"TRANSFER_OUT"})
    /\ IF s # "ABSENT" THEN One(t, {"TRANSFER_IN"}) ELSE None(t, {"TRANSFER_IN"})
    /\ IF s = "REVERSED" THEN Two(t, {"TRANSFER_REVERSAL"}) ELSE None(t, {"TRANSFER_REVERSAL"})

(* EntriesFollowStatus with the rows themselves; and a transfer has two     *)
(* accounts, on which its reversal writes one row each.                    *)
EntriesFit ==
    /\ \A p \in Payments : PaymentFits(p)
    /\ \A e \in Expenses : ExpenseFits(e)
    /\ \A t \in Transfers : TransferFits(t)
    /\ \A t \in Transfers : transfers[t].status # "ABSENT"
                               => transfers[t].data.from # transfers[t].data.to

(* A request that is creating an expense has the id to itself: what its    *)
(* late write relies on not to overwrite a row.                            *)
CreatesFresh ==
    \A r \in inflight : r.op = "createExpense" =>
        /\ expenses[r.id] = Absent
        /\ \A q \in inflight : q.op = "createExpense" /\ q.id = r.id => q = r

LEMMA RowsCounted == EntriesFit => EntriesFollowStatus
<1>1. \A ref, kinds : /\ One(ref, kinds) => Cardinality(RowsOf(ref, kinds)) = 1
                      /\ None(ref, kinds) => Cardinality(RowsOf(ref, kinds)) = 0
  BY FS_Singleton, FS_EmptySet DEF One, None
<1>2. \A ref, kinds : Two(ref, kinds) => Cardinality(RowsOf(ref, kinds)) = 2
  <2>1. ASSUME NEW x, NEW y, x # y PROVE Cardinality({x, y}) = 2
    <3>1. IsFiniteSet({x}) /\ Cardinality({x}) = 1
      BY FS_Singleton
    <3>2. Cardinality({x} \cup {y}) = 1 + 1
      BY <2>1, <3>1, FS_AddElement
    <3>3. {x, y} = {x} \cup {y}
      OBVIOUS
    <3>. QED
      BY <3>2, <3>3
  <2>. QED
    BY <2>1 DEF Two
<1>. QED
  BY <1>1, <1>2 DEF EntriesFit, EntriesFollowStatus, HasRows, PaymentFits, ExpenseFits,
                    TransferFits

(* A document with a ledger row cannot be deleted. *)
LEMMA PostedIsReferenced ==
    ASSUME EntriesFit
    PROVE  /\ \A p \in Payments : payments[p].status \in {"POSTED", "REVERSED"} => Referenced(p)
           /\ \A e \in Expenses : expenses[e].status \in {"POSTED", "CANCELLED"} => Referenced(e)
<1>1. ASSUME NEW ref, NEW kinds, One(ref, kinds) PROVE Referenced(ref)
  <2>1. PICK x : x \in RowsOf(ref, kinds)
    BY <1>1 DEF One
  <2>2. PICK a \in Accounts : x \in {a} \X RowsOn(a, ref, kinds)
    BY <2>1 DEF RowsOf
  <2>3. RowsOn(a, ref, kinds) # {}
    BY <2>2
  <2>. QED
    BY <2>3 DEF RowsOn, Referenced
<1>. QED
  BY <1>1 DEF EntriesFit, PaymentFits, ExpenseFits

(* What a changeBalance call does to one account ... *)
LEMMA LogChange ==
    ASSUME TypeOK, NEW moves, ChangeBalance(moves), NEW a \in Accounts
    PROVE  /\ a \notin DOMAIN moves => entries'[a] = entries[a] /\ balance'[a] = balance[a]
           /\ a \in DOMAIN moves =>
                 /\ balance'[a] = balance[a] + moves[a].delta
                 /\ Len(entries[a]) \in Nat
                 /\ DOMAIN entries[a] = 1..Len(entries[a])
                 /\ DOMAIN entries'[a] = 1..(Len(entries[a]) + 1)
                 /\ \A i \in 1..Len(entries[a]) : entries'[a][i] = entries[a][i]
                 /\ entries'[a][Len(entries[a]) + 1].ref = moves[a].ref
                 /\ entries'[a][Len(entries[a]) + 1].kind = moves[a].kind
<1> DEFINE log == entries[a]
           e == Entry(moves[a].kind, moves[a].delta, balance[a], moves[a].ref)
<1>1. log \in Seq(EntrySet(EntryKinds, Refs))
  BY DEF TypeOK
<1>2. CASE a \notin DOMAIN moves
  BY <1>2 DEF ChangeBalance
<1>3. CASE a \in DOMAIN moves
  <2>1. entries'[a] = Append(log, e) /\ balance'[a] = balance[a] + moves[a].delta
    BY <1>3 DEF ChangeBalance
  <2>2. e.kind = moves[a].kind /\ e.ref = moves[a].ref
    BY DEF Entry
  <2> HIDE DEF e, log
  <2>3. /\ Len(log) \in Nat
        /\ DOMAIN log = 1..Len(log)
        /\ DOMAIN Append(log, e) = 1..(Len(log) + 1)
        /\ \A i \in 1..Len(log) : Append(log, e)[i] = log[i]
        /\ Append(log, e)[Len(log) + 1] = e
    BY <1>1
  <2>. QED
    BY <1>3, <2>1, <2>2, <2>3 DEF log
<1>. QED
  BY <1>2, <1>3

(* ... and to the rows that name a document: on each account one more if    *)
(* the call writes one there for it, and none otherwise.                   *)
LEMMA RowsChange ==
    ASSUME TypeOK, NEW moves, ChangeBalance(moves), NEW a \in Accounts, NEW ref, NEW kinds
    PROVE  /\ ~(a \in DOMAIN moves /\ moves[a].ref = ref /\ moves[a].kind \in kinds)
                 => RowsOn(a, ref, kinds)' = RowsOn(a, ref, kinds)
           /\ a \in DOMAIN moves /\ moves[a].ref = ref /\ moves[a].kind \in kinds
                 => RowsOn(a, ref, kinds)' =
                       RowsOn(a, ref, kinds) \cup {Len(entries[a]) + 1}
<1>1. CASE a \notin DOMAIN moves
  BY <1>1, LogChange DEF RowsOn
<1>2. CASE a \in DOMAIN moves
  <2>1. /\ Len(entries[a]) \in Nat
        /\ DOMAIN entries[a] = 1..Len(entries[a])
        /\ DOMAIN entries'[a] = 1..(Len(entries[a]) + 1)
        /\ \A i \in 1..Len(entries[a]) : entries'[a][i] = entries[a][i]
        /\ entries'[a][Len(entries[a]) + 1].ref = moves[a].ref
        /\ entries'[a][Len(entries[a]) + 1].kind = moves[a].kind
    BY <1>2, LogChange
  <2>. QED
    BY <1>2, <2>1 DEF RowsOn
<1>. QED
  BY <1>1, <1>2

(* Rows of a document that a call writes nothing for ... *)
LEMMA RowsKept ==
    ASSUME NEW ref, NEW kinds, \A a \in Accounts : RowsOn(a, ref, kinds)' = RowsOn(a, ref, kinds)
    PROVE  /\ RowsOf(ref, kinds)' = RowsOf(ref, kinds)
           /\ One(ref, kinds) => One(ref, kinds)'
           /\ Two(ref, kinds) => Two(ref, kinds)'
           /\ None(ref, kinds) => None(ref, kinds)'
<1>1. RowsOf(ref, kinds)' = RowsOf(ref, kinds)
  BY DEF RowsOf
<1>. QED
  BY <1>1 DEF One, Two, None

LEMMA NoneOn ==
    ASSUME NEW ref, NEW kinds, None(ref, kinds), NEW a \in Accounts
    PROVE  RowsOn(a, ref, kinds) = {}
<1>1. ASSUME NEW i \in RowsOn(a, ref, kinds) PROVE FALSE
  <2>1. <<a, i>> \in {a} \X RowsOn(a, ref, kinds)
    OBVIOUS
  <2>2. <<a, i>> \in RowsOf(ref, kinds)
    BY <2>1 DEF RowsOf
  <2>. QED
    BY <2>2 DEF None
<1>. QED
  BY <1>1

(* ... that it writes one for, and that it writes two for. *)
LEMMA RowsOnce ==
    ASSUME NEW ref, NEW kinds, None(ref, kinds), NEW a \in Accounts, NEW n,
           RowsOn(a, ref, kinds)' = RowsOn(a, ref, kinds) \cup {n},
           \A b \in Accounts \ {a} : RowsOn(b, ref, kinds)' = RowsOn(b, ref, kinds)
    PROVE  One(ref, kinds)'
<1>1. \A b \in Accounts : RowsOn(b, ref, kinds)' = IF b = a THEN {n} ELSE {}
  BY NoneOn
<1>2. RowsOf(ref, kinds)' = {<<a, n>>}
  BY <1>1 DEF RowsOf
<1>. QED
  BY <1>2 DEF One

LEMMA RowsTwice ==
    ASSUME NEW ref, NEW kinds, None(ref, kinds),
           NEW a \in Accounts, NEW n, NEW b \in Accounts, NEW m, a # b,
           RowsOn(a, ref, kinds)' = RowsOn(a, ref, kinds) \cup {n},
           RowsOn(b, ref, kinds)' = RowsOn(b, ref, kinds) \cup {m},
           \A c \in Accounts \ {a, b} : RowsOn(c, ref, kinds)' = RowsOn(c, ref, kinds)
    PROVE  Two(ref, kinds)'
<1>1. \A c \in Accounts : RowsOn(c, ref, kinds)' = IF c = a THEN {n} ELSE IF c = b THEN {m} ELSE {}
  BY NoneOn
<1>2. RowsOf(ref, kinds)' = {<<a, n>>, <<b, m>>}
  BY <1>1 DEF RowsOf
<1>3. <<a, n>> # <<b, m>>
  OBVIOUS
<1>. QED
  BY <1>2, <1>3 DEF Two

-----------------------------------------------------------------------------
(* The steps of Finance.  Nine handlers change a balance or a status; what *)
(* the others do to the ledger and the rows has three shapes.              *)

(* Nothing that the properties relate: account names and states, requests, *)
(* documents and parties.                                                  *)
Elsewhere ==
    /\ UNCHANGED <<balance, entries, payments, expenses, transfers, sequence>>
    /\ \A a \in Accounts : account'[a].opening = account[a].opening

(* A draft payment is made, edited or deleted. *)
DraftingPayment(p) ==
    /\ ~Posted(payments[p]) /\ ~Posted(payments'[p])
    /\ \A q \in Payments \ {p} : payments'[q] = payments[q]
    /\ UNCHANGED <<books, expenses, transfers, sequence>>

(* A draft expense is made, edited or deleted, or the data of one that is   *)
(* no draft any more is replaced.                                          *)
EditingExpense(e) ==
    /\ \/ ~Posted(expenses[e]) /\ ~Posted(expenses'[e])
       \/ /\ expenses'[e].status = expenses[e].status
          /\ expenses'[e].number = expenses[e].number
    /\ \A x \in Expenses \ {e} : expenses'[x] = expenses[x]
    /\ UNCHANGED <<books, payments, transfers, sequence>>

Shape ==
    \/ Elsewhere
    \/ \E a \in Accounts, opening \in Openings, active \in BOOLEAN :
          CreateAccount(a, opening, active)
    \/ \E p \in Payments : DraftingPayment(p) \/ PostPayment(p) \/ ReversePayment(p)
    \/ \E e \in Expenses : EditingExpense(e) \/ PostExpense(e) \/ CancelExpense(e)
    \/ \E t \in Transfers : \/ \E dto \in TransferDto : CreateTransfer(t, dto)
                            \/ ReverseTransfer(t)

LEMMA RowStatus ==
    ASSUME TypeOK
    PROVE  /\ \A p \in Payments : Posted(payments[p])
                                     <=> payments[p].status \in {"POSTED", "REVERSED"}
           /\ \A e \in Expenses : Posted(expenses[e])
                                     <=> expenses[e].status \in {"POSTED", "CANCELLED"}
           /\ \A t \in Transfers : /\ transfers[t].status \in {"ABSENT", "POSTED", "REVERSED"}
                                   /\ Posted(transfers[t]) <=> transfers[t].status # "ABSENT"
BY DEF TypeOK, PaymentRows, ExpenseRows, TransferRows, Rows, Absent, Posted

LEMMA AccountShapes ==
    ASSUME TypeOK, NEW request \in inflight, WriteAccount(request)
    PROVE  Elsewhere
<1>1. account' = [account EXCEPT ![request.id].state =
                     IF request.active THEN "ACTIVE" ELSE "INACTIVE"]
  BY DEF WriteAccount
<1>2. \A a \in Accounts : account'[a].opening = account[a].opening
  BY <1>1 DEF TypeOK
<1>. QED
  BY <1>2 DEF WriteAccount, Elsewhere, rows

LEMMA PaymentShapes ==
    ASSUME TypeOK, EntriesFit, NEW p \in Payments,
           \/ \E dto \in PaymentDto : CreatePayment(p, dto) \/ UpdatePayment(p, dto)
           \/ \E request \in inflight : DeletePayment(request) /\ request.id = p
    PROVE  Elsewhere \/ DraftingPayment(p)
<1>0. payments \in [Payments -> PaymentRows]
  BY DEF TypeOK
<1>1. ASSUME NEW dto \in PaymentDto, CreatePayment(p, dto) PROVE DraftingPayment(p)
  BY <1>0, <1>1 DEF CreatePayment, DraftingPayment, Posted, Absent
<1>2. ASSUME NEW dto \in PaymentDto, UpdatePayment(p, dto) PROVE DraftingPayment(p)
  <2>1. payments' = [payments EXCEPT ![p].data = dto] /\ payments[p].status = "DRAFT"
    BY <1>2 DEF UpdatePayment
  <2>2. payments[p] \in [status : {"DRAFT", "POSTED", "REVERSED"}, data : PaymentDto,
                         number : (Years \X Nat) \cup {NoNumber}]
    BY <1>0, <2>1 DEF PaymentRows, Rows, Absent
  <2>3. payments'[p] = [payments[p] EXCEPT !.data = dto]
    BY <1>0, <2>1
  <2>4. payments'[p].status = "DRAFT"
    BY <2>1, <2>2, <2>3
  <2>5. \A q \in Payments \ {p} : payments'[q] = payments[q]
    BY <1>0, <2>1
  <2>. QED
    BY <1>2, <2>1, <2>4, <2>5 DEF UpdatePayment, DraftingPayment, Posted
<1>3. ASSUME NEW request \in inflight, DeletePayment(request), request.id = p
      PROVE  Elsewhere \/ DraftingPayment(p)
  <2>1. CASE Referenced(p)
    BY <1>3, <2>1 DEF DeletePayment, Elsewhere, books
  <2>2. CASE ~Referenced(p)
    <3>1. ~Posted(payments[p])
      BY <2>2, PostedIsReferenced, RowStatus
    <3>2. payments' = [payments EXCEPT ![p] = Absent]
      BY <1>3, <2>2 DEF DeletePayment
    <3>3. ~Posted(payments'[p]) /\ \A q \in Payments \ {p} : payments'[q] = payments[q]
      BY <1>0, <3>2 DEF Posted, Absent
    <3>. QED
      BY <1>3, <3>1, <3>3 DEF DeletePayment, DraftingPayment
  <2>. QED
    BY <2>1, <2>2
<1>. QED
  BY <1>1, <1>2, <1>3

LEMMA ExpenseShapes ==
    ASSUME TypeOK, EntriesFit, CreatesFresh, NEW request \in inflight,
           CreateExpense(request) \/ UpdateExpense(request) \/ DeleteExpense(request)
    PROVE  Elsewhere \/ \E e \in Expenses : EditingExpense(e)
<1>0. expenses \in [Expenses -> ExpenseRows]
  BY DEF TypeOK
<1> DEFINE e == request.id
<1>1. e \in Expenses
  BY DEF CreateExpense, UpdateExpense, DeleteExpense, TypeOK, Requests
<1>2. ASSUME CreateExpense(request) PROVE EditingExpense(e)
  <2>1. expenses[e] = Absent
    BY <1>2 DEF CreateExpense, CreatesFresh
  <2>. QED
    BY <1>0, <1>1, <1>2, <2>1 DEF CreateExpense, EditingExpense, Posted, Absent
<1>3. ASSUME UpdateExpense(request) PROVE Elsewhere \/ EditingExpense(e)
  <2>1. CASE expenses[e] = Absent
    BY <1>3, <2>1 DEF UpdateExpense, Elsewhere, books
  <2>2. CASE expenses[e] # Absent
    <3>1. expenses' = [expenses EXCEPT ![e].data = request.data]
      BY <1>3, <2>2 DEF UpdateExpense
    <3>2. expenses[e] \in [status : {"DRAFT", "POSTED", "CANCELLED"}, data : ExpenseDto,
                           number : (Years \X Nat) \cup {NoNumber}]
      BY <1>0, <1>1, <2>2 DEF ExpenseRows, Rows
    <3>3. expenses'[e] = [expenses[e] EXCEPT !.data = request.data]
      BY <1>0, <1>1, <3>1
    <3>4. /\ expenses'[e].status = expenses[e].status
          /\ expenses'[e].number = expenses[e].number
      BY <3>2, <3>3
    <3>5. \A x \in Expenses \ {e} : expenses'[x] = expenses[x]
      BY <1>0, <3>1
    <3>. QED
      BY <1>3, <3>4, <3>5 DEF UpdateExpense, EditingExpense
  <2>. QED
    BY <2>1, <2>2
<1>4. ASSUME DeleteExpense(request) PROVE Elsewhere \/ EditingExpense(e)
  <2>1. CASE Referenced(e)
    BY <1>4, <2>1 DEF DeleteExpense, Elsewhere, books
  <2>2. CASE ~Referenced(e)
    <3>1. ~Posted(expenses[e])
      BY <1>1, <2>2, PostedIsReferenced, RowStatus
    <3>2. expenses' = [expenses EXCEPT ![e] = Absent]
      BY <1>4, <2>2 DEF DeleteExpense
    <3>3. ~Posted(expenses'[e]) /\ \A x \in Expenses \ {e} : expenses'[x] = expenses[x]
      BY <1>0, <1>1, <3>2 DEF Posted, Absent
    <3>. QED
      BY <1>4, <3>1, <3>3 DEF DeleteExpense, EditingExpense
  <2>. QED
    BY <2>1, <2>2
<1>. QED
  BY <1>1, <1>2, <1>3, <1>4

LEMMA StepShape == ASSUME TypeOK, EntriesFit, CreatesFresh, Next PROVE Shape
<1>1. ASSUME NEW a \in Accounts,
             \/ \E opening \in Openings, active \in BOOLEAN : CreateAccount(a, opening, active)
             \/ ReadAccount(a)
      PROVE  Shape
  BY <1>1 DEF ReadAccount, Begin, Shape, Elsewhere, books, rows
<1>2. ASSUME NEW p \in Payments,
             \/ \E dto \in PaymentDto : CreatePayment(p, dto) \/ UpdatePayment(p, dto)
             \/ PostPayment(p)
             \/ ReversePayment(p)
             \/ ReadPaymentToDelete(p)
      PROVE  Shape
  <2>1. CASE ReadPaymentToDelete(p)
    BY <2>1 DEF ReadPaymentToDelete, Begin, Shape, Elsewhere, books, rows
  <2>2. CASE \E dto \in PaymentDto : CreatePayment(p, dto) \/ UpdatePayment(p, dto)
    BY <2>2, PaymentShapes DEF Shape
  <2>3. CASE PostPayment(p) \/ ReversePayment(p)
    BY <2>3 DEF Shape
  <2>. QED
    BY <1>2, <2>1, <2>2, <2>3
<1>3. ASSUME NEW e \in Expenses,
             \/ \E dto \in ExpenseDto : ReadForExpense(e, dto)
             \/ PostExpense(e)
             \/ CancelExpense(e)
             \/ ReadExpenseToDelete(e)
      PROVE  Shape
  <2>1. CASE PostExpense(e) \/ CancelExpense(e)
    BY <2>1 DEF Shape
  <2>2. CASE (\E dto \in ExpenseDto : ReadForExpense(e, dto)) \/ ReadExpenseToDelete(e)
    BY <2>2 DEF ReadForExpense, ReadExpenseToDelete, Begin, Shape, Elsewhere, books, rows
  <2>. QED
    BY <1>3, <2>1, <2>2
<1>4. ASSUME NEW t \in Transfers,
             \/ \E dto \in TransferDto : CreateTransfer(t, dto)
             \/ ReverseTransfer(t)
      PROVE  Shape
  BY <1>4 DEF Shape
<1>5. ASSUME NEW request \in inflight,
             \/ WriteAccount(request)
             \/ DeletePayment(request)
             \/ CreateExpense(request)
             \/ UpdateExpense(request)
             \/ DeleteExpense(request)
             \/ Abandon(request)
      PROVE  Shape
  <2>1. CASE WriteAccount(request)
    BY <2>1, AccountShapes DEF Shape
  <2>2. CASE DeletePayment(request)
    <3>1. request.id \in Payments
      BY <2>2 DEF DeletePayment, TypeOK, Requests
    <3>. QED
      BY <2>2, <3>1, PaymentShapes DEF Shape
  <2>3. CASE CreateExpense(request) \/ UpdateExpense(request) \/ DeleteExpense(request)
    BY <2>3, ExpenseShapes DEF Shape
  <2>4. CASE Abandon(request)
    BY <2>4 DEF Abandon, Shape, Elsewhere, books, rows
  <2>. QED
    BY <1>5, <2>1, <2>2, <2>3, <2>4
<1>6. ASSUME NEW d \in Documents, FinalizeDocument(d) \/ CancelDocument(d) PROVE Shape
  BY <1>6 DEF FinalizeDocument, CancelDocument, Shape, Elsewhere, books, rows
<1>7. ASSUME NEW c \in Parties, SetPartyActive(c) PROVE Shape
  BY <1>7 DEF SetPartyActive, Shape, Elsewhere, books, rows
<1>. QED
  BY <1>1, <1>2, <1>3, <1>4, <1>5, <1>6, <1>7 DEF Next

-----------------------------------------------------------------------------
(* A request that is creating an expense keeps its id to itself. *)

LEMMA FreshBegin ==
    ASSUME CreatesFresh, NEW request, Begin(request),
           request.op = "createExpense" => Fresh(request.id) /\ expenses[request.id] = Absent
    PROVE  CreatesFresh'
<1>1. inflight' = inflight \cup {request} /\ expenses' = expenses
  BY DEF Begin, rows
<1>. QED
  BY <1>1 DEF CreatesFresh, Fresh

LEMMA FreshKept ==
    ASSUME CreatesFresh, inflight' \subseteq inflight,
           \A r \in inflight' : r.op = "createExpense" /\ expenses[r.id] = Absent
                                   => expenses'[r.id] = Absent
    PROVE  CreatesFresh'
BY DEF CreatesFresh

LEMMA NextCreatesFresh == ASSUME TypeOK, CreatesFresh, Next PROVE CreatesFresh'
<1>0. expenses \in [Expenses -> ExpenseRows]
  BY DEF TypeOK
<1>1. ASSUME NEW a \in Accounts,
             \/ \E opening \in Openings, active \in BOOLEAN : CreateAccount(a, opening, active)
             \/ ReadAccount(a)
      PROVE  CreatesFresh'
  <2>1. CASE ReadAccount(a)
    BY <2>1, FreshBegin DEF ReadAccount
  <2>2. CASE \E opening \in Openings, active \in BOOLEAN : CreateAccount(a, opening, active)
    BY <2>2, FreshKept DEF CreateAccount, rows
  <2>. QED
    BY <1>1, <2>1, <2>2
<1>2. ASSUME NEW p \in Payments,
             \/ \E dto \in PaymentDto : CreatePayment(p, dto) \/ UpdatePayment(p, dto)
             \/ PostPayment(p)
             \/ ReversePayment(p)
             \/ ReadPaymentToDelete(p)
      PROVE  CreatesFresh'
  <2>1. CASE ReadPaymentToDelete(p)
    BY <2>1, FreshBegin DEF ReadPaymentToDelete
  <2>2. CASE \/ \E dto \in PaymentDto : CreatePayment(p, dto) \/ UpdatePayment(p, dto)
             \/ PostPayment(p)
             \/ ReversePayment(p)
    BY <2>2, FreshKept DEF CreatePayment, UpdatePayment, PostPayment, ReversePayment
  <2>. QED
    BY <1>2, <2>1, <2>2
<1>3. ASSUME NEW e \in Expenses,
             \/ \E dto \in ExpenseDto : ReadForExpense(e, dto)
             \/ PostExpense(e)
             \/ CancelExpense(e)
             \/ ReadExpenseToDelete(e)
      PROVE  CreatesFresh'
  <2>1. CASE \E dto \in ExpenseDto : ReadForExpense(e, dto)
    <3>1. PICK dto \in ExpenseDto :
             \/ /\ expenses[e] = Absent /\ Fresh(e)
                /\ Begin([op |-> "createExpense", id |-> e, data |-> dto])
             \/ Begin([op |-> "updateExpense", id |-> e, data |-> dto])
      BY <2>1 DEF ReadForExpense
    <3>. QED
      BY <3>1, FreshBegin
  <2>2. CASE ReadExpenseToDelete(e)
    BY <2>2, FreshBegin DEF ReadExpenseToDelete
  <2>3. CASE PostExpense(e) \/ CancelExpense(e)
    <3>1. expenses[e] # Absent /\ inflight' = inflight
      BY <2>3 DEF PostExpense, CancelExpense, Absent
    <3>2. \A x \in Expenses \ {e} : expenses'[x] = expenses[x]
      BY <1>0, <2>3 DEF PostExpense, CancelExpense
    <3>3. \A r \in inflight : r.op = "createExpense" => r.id \in Expenses
      BY DEF TypeOK, Requests
    <3>. QED
      BY <3>1, <3>2, <3>3, FreshKept
  <2>. QED
    BY <1>3, <2>1, <2>2, <2>3
<1>4. ASSUME NEW t \in Transfers,
             \/ \E dto \in TransferDto : CreateTransfer(t, dto)
             \/ ReverseTransfer(t)
      PROVE  CreatesFresh'
  BY <1>4, FreshKept DEF CreateTransfer, ReverseTransfer
<1>5. ASSUME NEW request \in inflight,
             \/ WriteAccount(request)
             \/ DeletePayment(request)
             \/ CreateExpense(request)
             \/ UpdateExpense(request)
             \/ DeleteExpense(request)
             \/ Abandon(request)
      PROVE  CreatesFresh'
  <2>1. inflight' = inflight \ {request}
    BY <1>5 DEF WriteAccount, DeletePayment, CreateExpense, UpdateExpense, DeleteExpense,
                Abandon, End
  <2>2. CASE WriteAccount(request) \/ DeletePayment(request) \/ Abandon(request)
    BY <2>1, <2>2, FreshKept DEF WriteAccount, DeletePayment, Abandon, rows
  <2>3. CASE CreateExpense(request)
    <3>1. request.op = "createExpense" /\ request.id \in Expenses
      BY <2>3 DEF CreateExpense, TypeOK, Requests
    <3>2. \A x \in Expenses \ {request.id} : expenses'[x] = expenses[x]
      BY <1>0, <2>3 DEF CreateExpense
    <3>3. \A r \in inflight : r.op = "createExpense" => r.id \in Expenses
      BY DEF TypeOK, Requests
    <3>4. \A r \in inflight' : r.op = "createExpense" => r.id # request.id
      BY <2>1, <3>1 DEF CreatesFresh
    <3>. QED
      BY <2>1, <3>2, <3>3, <3>4, FreshKept
  <2>4. CASE UpdateExpense(request) \/ DeleteExpense(request)
    <3>1. request.id \in Expenses
      BY <2>4 DEF UpdateExpense, DeleteExpense, TypeOK, Requests
    <3>2. \A x \in Expenses : expenses[x] = Absent => expenses'[x] = Absent
      BY <1>0, <2>4, <3>1 DEF UpdateExpense, DeleteExpense
    <3>3. \A r \in inflight : r.op = "createExpense" => r.id \in Expenses
      BY DEF TypeOK, Requests
    <3>. QED
      BY <2>1, <3>2, <3>3, FreshKept
  <2>. QED
    BY <1>5, <2>2, <2>3, <2>4
<1>6. ASSUME \/ \E d \in Documents : FinalizeDocument(d) \/ CancelDocument(d)
             \/ \E c \in Parties : SetPartyActive(c)
      PROVE  CreatesFresh'
  BY <1>6, FreshKept DEF FinalizeDocument, CancelDocument, SetPartyActive, rows
<1>. QED
  BY <1>1, <1>2, <1>3, <1>4, <1>5, <1>6 DEF Next

-----------------------------------------------------------------------------
(* The ledger rows, step by step.                                          *)

Keeps(ref, kinds) ==
    /\ One(ref, kinds) => One(ref, kinds)'
    /\ Two(ref, kinds) => Two(ref, kinds)'
    /\ None(ref, kinds) => None(ref, kinds)'

LEMMA OneMove ==
    ASSUME TypeOK, NEW a \in Accounts, NEW m, ChangeBalance([x \in {a} |-> m]),
           NEW ref, NEW kinds
    PROVE  /\ ~(m.ref = ref /\ m.kind \in kinds) => Keeps(ref, kinds)
           /\ m.ref = ref /\ m.kind \in kinds /\ None(ref, kinds) => One(ref, kinds)'
<1> DEFINE moves == [x \in {a} |-> m]
<1>1. ChangeBalance(moves) /\ DOMAIN moves = {a} /\ moves[a] = m
  OBVIOUS
<1> HIDE DEF moves
<1>2. ASSUME ~(m.ref = ref /\ m.kind \in kinds) PROVE Keeps(ref, kinds)
  <2>1. \A b \in Accounts : RowsOn(b, ref, kinds)' = RowsOn(b, ref, kinds)
    BY <1>1, <1>2, RowsChange
  <2>. QED
    BY <2>1, RowsKept DEF Keeps
<1>3. ASSUME m.ref = ref, m.kind \in kinds, None(ref, kinds) PROVE One(ref, kinds)'
  <2>1. RowsOn(a, ref, kinds)' = RowsOn(a, ref, kinds) \cup {Len(entries[a]) + 1}
    BY <1>1, <1>3, RowsChange
  <2>2. \A b \in Accounts \ {a} : RowsOn(b, ref, kinds)' = RowsOn(b, ref, kinds)
    BY <1>1, RowsChange
  <2>3. PICK n : n = Len(entries[a]) + 1
    OBVIOUS
  <2>4. RowsOn(a, ref, kinds)' = RowsOn(a, ref, kinds) \cup {n}
    BY <2>1, <2>3
  <2>. QED
    BY <1>3, <2>2, <2>4, RowsOnce
<1>. QED
  BY <1>2, <1>3

(* The two moves of a transfer. *)
LEMMA TwoMoves ==
    ASSUME TypeOK, NEW t \in Transfers, NEW dto \in TransferDto, dto.from # dto.to,
           NEW k1, NEW k2, NEW amount, ChangeBalance(TransferMoves(t, dto, k1, k2, amount)),
           NEW ref, NEW kinds
    PROVE  /\ ref # t => Keeps(ref, kinds)
           /\ k1 \notin kinds /\ k2 \notin kinds => Keeps(ref, kinds)
           /\ k1 \in kinds /\ k2 \notin kinds /\ None(t, kinds) => One(t, kinds)'
           /\ k1 \notin kinds /\ k2 \in kinds /\ None(t, kinds) => One(t, kinds)'
           /\ k1 \in kinds /\ k2 \in kinds /\ None(t, kinds) => Two(t, kinds)'
<1> DEFINE moves == TransferMoves(t, dto, k1, k2, amount)
           a == dto.from
           b == dto.to
<1>1. a \in Accounts /\ b \in Accounts
  BY TransferDtoFields
<1>2. /\ ChangeBalance(moves)
      /\ DOMAIN moves = {a, b}
      /\ moves[a].ref = t /\ moves[b].ref = t
      /\ moves[a].kind = k1 /\ moves[b].kind = k2
  BY DEF TransferMoves, Move
<1>3. a # b
  OBVIOUS
<1> HIDE DEF moves, a, b
<1>4. ASSUME ref # t \/ (k1 \notin kinds /\ k2 \notin kinds) PROVE Keeps(ref, kinds)
  <2>1. \A c \in Accounts : RowsOn(c, ref, kinds)' = RowsOn(c, ref, kinds)
    BY <1>2, <1>4, RowsChange
  <2>. QED
    BY <2>1, RowsKept DEF Keeps
<1>5. PICK n, m : n = Len(entries[a]) + 1 /\ m = Len(entries[b]) + 1
  OBVIOUS
<1>6. /\ RowsOn(a, t, kinds)' = IF k1 \in kinds THEN RowsOn(a, t, kinds) \cup {n}
                                                ELSE RowsOn(a, t, kinds)
      /\ RowsOn(b, t, kinds)' = IF k2 \in kinds THEN RowsOn(b, t, kinds) \cup {m}
                                                ELSE RowsOn(b, t, kinds)
      /\ \A c \in Accounts \ {a, b} : RowsOn(c, t, kinds)' = RowsOn(c, t, kinds)
  BY <1>1, <1>2, <1>5, RowsChange
<1>7. ASSUME k1 \in kinds, k2 \notin kinds, None(t, kinds) PROVE One(t, kinds)'
  <2>1. /\ RowsOn(a, t, kinds)' = RowsOn(a, t, kinds) \cup {n}
        /\ \A c \in Accounts \ {a} : RowsOn(c, t, kinds)' = RowsOn(c, t, kinds)
    BY <1>6, <1>7
  <2>. QED
    BY <1>1, <1>7, <2>1, RowsOnce
<1>8. ASSUME k1 \notin kinds, k2 \in kinds, None(t, kinds) PROVE One(t, kinds)'
  <2>1. /\ RowsOn(b, t, kinds)' = RowsOn(b, t, kinds) \cup {m}
        /\ \A c \in Accounts \ {b} : RowsOn(c, t, kinds)' = RowsOn(c, t, kinds)
    BY <1>6, <1>8
  <2>. QED
    BY <1>1, <1>8, <2>1, RowsOnce
<1>9. ASSUME k1 \in kinds, k2 \in kinds, None(t, kinds) PROVE Two(t, kinds)'
  <2>1. /\ RowsOn(a, t, kinds)' = RowsOn(a, t, kinds) \cup {n}
        /\ RowsOn(b, t, kinds)' = RowsOn(b, t, kinds) \cup {m}
    BY <1>6, <1>9
  <2>. QED
    BY <1>1, <1>3, <1>6, <1>9, <2>1, RowsTwice
<1>. QED
  BY <1>4, <1>7, <1>8, <1>9

(* A document keeps fitting while its rows and its status are left alone. *)
LEMMA FitsKept ==
    /\ \A p \in Payments :
          PaymentFits(p) /\ payments'[p].status = payments[p].status
             /\ (\A kinds : Keeps(p, kinds)) => PaymentFits(p)'
    /\ \A e \in Expenses :
          ExpenseFits(e) /\ expenses'[e].status = expenses[e].status
             /\ (\A kinds : Keeps(e, kinds)) => ExpenseFits(e)'
    /\ \A t \in Transfers :
          TransferFits(t) /\ transfers'[t].status = transfers[t].status
             /\ (\A kinds : Keeps(t, kinds)) => TransferFits(t)'
BY DEF PaymentFits, ExpenseFits, TransferFits, Keeps

(* What of EntriesFit is about the accounts of transfers. *)
TwoAccounts ==
    \A t \in Transfers : transfers[t].status # "ABSENT"
                            => transfers[t].data.from # transfers[t].data.to

LEMMA EntriesFitDef ==
    EntriesFit <=> /\ \A p \in Payments : PaymentFits(p)
                   /\ \A e \in Expenses : ExpenseFits(e)
                   /\ \A t \in Transfers : TransferFits(t)
                   /\ TwoAccounts
BY DEF EntriesFit, TwoAccounts

(* A step that writes rows for `ref` only. *)
LEMMA OthersFit ==
    ASSUME EntriesFit, NEW ref, \A r, kinds : r # ref => Keeps(r, kinds),
           \A p \in Payments : p # ref => payments'[p].status = payments[p].status,
           \A e \in Expenses : e # ref => expenses'[e].status = expenses[e].status,
           \A t \in Transfers : t # ref => transfers'[t].status = transfers[t].status,
           ref \in Payments => PaymentFits(ref)',
           ref \in Expenses => ExpenseFits(ref)',
           ref \in Transfers => TransferFits(ref)',
           TwoAccounts'
    PROVE  EntriesFit'
<1>1. /\ \A p \in Payments : p # ref => PaymentFits(p)'
      /\ \A e \in Expenses : e # ref => ExpenseFits(e)'
      /\ \A t \in Transfers : t # ref => TransferFits(t)'
  BY FitsKept DEF EntriesFit
<1>2. /\ \A p \in Payments : PaymentFits(p)'
      /\ \A e \in Expenses : ExpenseFits(e)'
      /\ \A t \in Transfers : TransferFits(t)'
  BY <1>1
<1>. QED
  BY <1>2 DEF EntriesFit, TwoAccounts

LEMMA PaymentPosted ==
    ASSUME TypeOK, NEW p \in Payments, PostPayment(p)
    PROVE  /\ payments[p].data \in PaymentDto
           /\ payments'[p].status = "POSTED"
           /\ payments'[p].data = payments[p].data
           /\ payments'[p].number = NextNumber(payments[p].data.type, payments[p].data.year)
           /\ payments'[p] = [status |-> "POSTED", data |-> payments[p].data,
                              number |-> NextNumber(payments[p].data.type, payments[p].data.year)]
           /\ \A q \in Payments \ {p} : payments'[q] = payments[q]
           /\ \A q \in Payments : payments'[q].data = payments[q].data
<1>1. payments \in [Payments -> PaymentRows] /\ payments[p].status = "DRAFT"
  BY DEF TypeOK, PostPayment
<1>2. payments[p] \in [status : {"DRAFT", "POSTED", "REVERSED"}, data : PaymentDto,
                       number : (Years \X Nat) \cup {NoNumber}]
  BY <1>1 DEF PaymentRows, Rows, Absent
<1> DEFINE row == payments[p]
           number == NextNumber(row.data.type, row.data.year)
<1>3. payments' = [payments EXCEPT ![p].status = "POSTED", ![p].number = number]
  BY DEF PostPayment
<1> HIDE DEF number
<1>4. payments'[p] = [row EXCEPT !.status = "POSTED", !.number = number]
  BY <1>1, <1>3
<1>5. payments'[p] = [status |-> "POSTED", data |-> row.data, number |-> number]
  BY <1>2, <1>4
<1>6. \A q \in Payments \ {p} : payments'[q] = payments[q]
  BY <1>1, <1>3
<1>7. \A q \in Payments : payments'[q].data = payments[q].data
  BY <1>5, <1>6
<1>. QED
  BY <1>2, <1>5, <1>6, <1>7 DEF number

LEMMA PaymentReversed ==
    ASSUME TypeOK, NEW p \in Payments, ReversePayment(p)
    PROVE  /\ payments[p].data \in PaymentDto
           /\ payments'[p] = [status |-> "REVERSED", data |-> payments[p].data,
                              number |-> payments[p].number]
           /\ payments'[p] = [payments[p] EXCEPT !.status = "REVERSED"]
           /\ \A q \in Payments \ {p} : payments'[q] = payments[q]
           /\ \A q \in Payments : /\ payments'[q].data = payments[q].data
                                  /\ payments'[q].number = payments[q].number
<1>1. /\ payments \in [Payments -> PaymentRows] /\ payments[p].status = "POSTED"
      /\ payments' = [payments EXCEPT ![p].status = "REVERSED"]
  BY DEF TypeOK, ReversePayment
<1>2. payments[p] \in [status : {"DRAFT", "POSTED", "REVERSED"}, data : PaymentDto,
                       number : (Years \X Nat) \cup {NoNumber}]
  BY <1>1 DEF PaymentRows, Rows, Absent
<1>3. payments'[p] = [payments[p] EXCEPT !.status = "REVERSED"]
  BY <1>1
<1>4. payments'[p] = [status |-> "REVERSED", data |-> payments[p].data,
                      number |-> payments[p].number]
  BY <1>2, <1>3
<1>5. \A q \in Payments \ {p} : payments'[q] = payments[q]
  BY <1>1
<1>. QED
  BY <1>2, <1>3, <1>4, <1>5

LEMMA ExpensePosted ==
    ASSUME TypeOK, NEW e \in Expenses, PostExpense(e)
    PROVE  /\ expenses[e].data \in ExpenseDto
           /\ expenses'[e].status = "POSTED"
           /\ expenses'[e].data = expenses[e].data
           /\ expenses'[e].number = NextNumber("EXPENSE", expenses[e].data.year)
           /\ expenses'[e] = [status |-> "POSTED", data |-> expenses[e].data,
                              number |-> NextNumber("EXPENSE", expenses[e].data.year)]
           /\ \A x \in Expenses \ {e} : expenses'[x] = expenses[x]
<1>1. expenses \in [Expenses -> ExpenseRows] /\ expenses[e].status = "DRAFT"
  BY DEF TypeOK, PostExpense
<1>2. expenses[e] \in [status : {"DRAFT", "POSTED", "CANCELLED"}, data : ExpenseDto,
                       number : (Years \X Nat) \cup {NoNumber}]
  BY <1>1 DEF ExpenseRows, Rows, Absent
<1> DEFINE row == expenses[e]
           number == NextNumber("EXPENSE", row.data.year)
<1>3. expenses' = [expenses EXCEPT ![e].status = "POSTED", ![e].number = number]
  BY DEF PostExpense
<1> HIDE DEF number
<1>4. expenses'[e] = [row EXCEPT !.status = "POSTED", !.number = number]
  BY <1>1, <1>3
<1>5. expenses'[e] = [status |-> "POSTED", data |-> row.data, number |-> number]
  BY <1>2, <1>4
<1>6. \A x \in Expenses \ {e} : expenses'[x] = expenses[x]
  BY <1>1, <1>3
<1>. QED
  BY <1>2, <1>5, <1>6 DEF number

LEMMA ExpenseCancelled ==
    ASSUME TypeOK, NEW e \in Expenses, CancelExpense(e)
    PROVE  /\ expenses[e].data \in ExpenseDto
           /\ expenses'[e].status = "CANCELLED"
           /\ expenses'[e] = [status |-> "CANCELLED", data |-> expenses[e].data,
                              number |-> expenses[e].number]
           /\ \A x \in Expenses \ {e} : expenses'[x] = expenses[x]
<1>1. /\ expenses \in [Expenses -> ExpenseRows] /\ expenses[e].status = "POSTED"
      /\ expenses' = [expenses EXCEPT ![e].status = "CANCELLED"]
  BY DEF TypeOK, CancelExpense
<1>2. expenses[e] \in [status : {"DRAFT", "POSTED", "CANCELLED"}, data : ExpenseDto,
                       number : (Years \X Nat) \cup {NoNumber}]
  BY <1>1 DEF ExpenseRows, Rows, Absent
<1>3. expenses'[e] = [expenses[e] EXCEPT !.status = "CANCELLED"]
  BY <1>1
<1>4. expenses'[e] = [status |-> "CANCELLED", data |-> expenses[e].data,
                      number |-> expenses[e].number]
  BY <1>2, <1>3
<1>5. \A x \in Expenses \ {e} : expenses'[x] = expenses[x]
  BY <1>1
<1>. QED
  BY <1>2, <1>4, <1>5

LEMMA TransferReversed ==
    ASSUME TypeOK, NEW t \in Transfers, ReverseTransfer(t)
    PROVE  /\ transfers[t].data \in TransferDto
           /\ transfers'[t] = [status |-> "REVERSED", data |-> transfers[t].data,
                               number |-> transfers[t].number]
           /\ \A x \in Transfers \ {t} : transfers'[x] = transfers[x]
<1>1. /\ transfers \in [Transfers -> TransferRows] /\ transfers[t].status = "POSTED"
      /\ transfers' = [transfers EXCEPT ![t].status = "REVERSED"]
  BY DEF TypeOK, ReverseTransfer
<1>2. transfers[t] \in [status : {"POSTED", "REVERSED"}, data : TransferDto,
                        number : (Years \X Nat) \cup {NoNumber}]
  BY <1>1 DEF TransferRows, Rows, Absent
<1>3. transfers'[t] = [transfers[t] EXCEPT !.status = "REVERSED"]
  BY <1>1
<1>4. transfers'[t] = [status |-> "REVERSED", data |-> transfers[t].data,
                       number |-> transfers[t].number]
  BY <1>2, <1>3
<1>5. \A x \in Transfers \ {t} : transfers'[x] = transfers[x]
  BY <1>1
<1>. QED
  BY <1>2, <1>4, <1>5

(* The opening row of a new account belongs to no document. *)
LEMMA OpeningKeeps ==
    ASSUME TypeOK, NEW a \in Accounts, NEW opening, NEW active,
           CreateAccount(a, opening, active), NEW ref, NEW kinds, ref # NoRef
    PROVE  Keeps(ref, kinds)
<1> DEFINE log == entries[a]
           e == Entry("OPENING_BALANCE", opening, 0, NoRef)
<1>1. /\ entries'[a] = log \/ entries'[a] = Append(log, e)
      /\ \A b \in Accounts \ {a} : entries'[b] = entries[b]
  BY DEF CreateAccount, TypeOK
<1>2. log \in Seq(EntrySet(EntryKinds, Refs)) /\ e.ref = NoRef
  BY DEF TypeOK, Entry
<1> HIDE DEF log, e
<1>3. /\ DOMAIN log = 1..Len(log) /\ Len(log) \in Nat
      /\ DOMAIN Append(log, e) = 1..(Len(log) + 1)
      /\ \A i \in 1..Len(log) : Append(log, e)[i] = log[i]
      /\ Append(log, e)[Len(log) + 1].ref # ref
  BY <1>2
<1>4. {i \in DOMAIN Append(log, e) : Append(log, e)[i].ref = ref /\ Append(log, e)[i].kind \in kinds}
         = {i \in DOMAIN log : log[i].ref = ref /\ log[i].kind \in kinds}
  BY <1>3
<1>5. \A b \in Accounts : RowsOn(b, ref, kinds)' = RowsOn(b, ref, kinds)
  BY <1>1, <1>4 DEF RowsOn, log
<1>. QED
  BY <1>5, RowsKept DEF Keeps

LEMMA PostedPaymentFits ==
    ASSUME TypeOK, EntriesFit, NEW p \in Payments, PostPayment(p)
    PROVE  EntriesFit'
<1>1. PICK dto \in PaymentDto : dto = payments[p].data
  BY PaymentPosted
<1>2. dto.account \in Accounts /\ dto.type \in PaymentTypes
  BY DEF PaymentDto
<1>3. PICK m : m = Move(dto.type, PaymentDelta(dto), p)
  OBVIOUS
<1>4. ChangeBalance([x \in {dto.account} |-> m]) /\ m.ref = p /\ m.kind = dto.type
  BY <1>1, <1>3 DEF PostPayment, Move
<1>5. \A r, kinds : r # p => Keeps(r, kinds)
  BY <1>2, <1>4, OneMove
<1>6. /\ None(p, PaymentTypes) => One(p, PaymentTypes)'
      /\ Keeps(p, {"PAYMENT_REVERSAL"})
  <2>1. m.kind \in PaymentTypes /\ m.kind \notin {"PAYMENT_REVERSAL"}
    BY <1>2, <1>4 DEF PaymentTypes
  <2>. QED
    BY <1>2, <1>4, <2>1, OneMove
<1>7. PaymentFits(p)
  BY DEF EntriesFit
<1>8. payments[p].status = "DRAFT" /\ payments'[p].status = "POSTED"
  <2>1. payments[p].status = "DRAFT"
    BY DEF PostPayment
  <2>2. payments'[p].status = "POSTED"
    BY PaymentPosted
  <2>. QED
    BY <2>1, <2>2
<1>9. PaymentFits(p)'
  BY <1>6, <1>7, <1>8 DEF PaymentFits, Keeps
<1>10. p \notin Expenses /\ p \notin Transfers
  BY DistinctRefs
<1>11. expenses' = expenses /\ transfers' = transfers
  BY DEF PostPayment
<1>12. TwoAccounts'
  BY <1>11 DEF EntriesFit, TwoAccounts
<1>13. \A q \in Payments : q # p => payments'[q].status = payments[q].status
  <2>1. \A q \in Payments \ {p} : payments'[q] = payments[q]
    BY PaymentPosted
  <2>. QED
    BY <2>1
<1>. QED
  BY <1>5, <1>9, <1>10, <1>11, <1>12, <1>13, OthersFit

LEMMA ReversedPaymentFits ==
    ASSUME TypeOK, EntriesFit, NEW p \in Payments, ReversePayment(p)
    PROVE  EntriesFit'
<1>1. PICK dto \in PaymentDto : dto = payments[p].data
  BY PaymentReversed
<1>2. dto.account \in Accounts
  BY DEF PaymentDto
<1>3. PICK m : m = Move("PAYMENT_REVERSAL", -PaymentDelta(dto), p)
  OBVIOUS
<1>4. ChangeBalance([x \in {dto.account} |-> m]) /\ m.ref = p /\ m.kind = "PAYMENT_REVERSAL"
  BY <1>1, <1>3 DEF ReversePayment, Move
<1>5. \A r, kinds : r # p => Keeps(r, kinds)
  BY <1>2, <1>4, OneMove
<1>6. /\ None(p, {"PAYMENT_REVERSAL"}) => One(p, {"PAYMENT_REVERSAL"})'
      /\ Keeps(p, PaymentTypes)
  <2>1. m.kind \in {"PAYMENT_REVERSAL"} /\ m.kind \notin PaymentTypes
    BY <1>4 DEF PaymentTypes
  <2>2. None(p, {"PAYMENT_REVERSAL"}) => One(p, {"PAYMENT_REVERSAL"})'
    BY <1>2, <1>4, <2>1, OneMove
  <2>3. Keeps(p, PaymentTypes)
    BY <1>2, <1>4, <2>1, OneMove
  <2>. QED
    BY <2>2, <2>3
<1>7. PaymentFits(p)
  BY DEF EntriesFit
<1>8. payments[p].status = "POSTED" /\ payments'[p].status = "REVERSED"
  <2>1. payments[p].status = "POSTED"
    BY DEF ReversePayment
  <2>2. payments'[p].status = "REVERSED"
    BY PaymentReversed
  <2>. QED
    BY <2>1, <2>2
<1>9. PaymentFits(p)'
  BY <1>6, <1>7, <1>8 DEF PaymentFits, Keeps
<1>10. p \notin Expenses /\ p \notin Transfers
  BY DistinctRefs
<1>11. expenses' = expenses /\ transfers' = transfers
  BY DEF ReversePayment
<1>12. TwoAccounts'
  BY <1>11 DEF EntriesFit, TwoAccounts
<1>13. \A q \in Payments : q # p => payments'[q].status = payments[q].status
  <2>1. \A q \in Payments \ {p} : payments'[q] = payments[q]
    BY PaymentReversed
  <2>. QED
    BY <2>1
<1>14. /\ \A e \in Expenses : expenses'[e].status = expenses[e].status
       /\ \A t \in Transfers : transfers'[t].status = transfers[t].status
  BY <1>11
<1>. QED
  BY <1>5, <1>9, <1>10, <1>12, <1>13, <1>14, OthersFit

LEMMA PostedExpenseFits ==
    ASSUME TypeOK, EntriesFit, NEW e \in Expenses, PostExpense(e)
    PROVE  EntriesFit'
<1>1. PICK dto \in ExpenseDto : dto = expenses[e].data
  BY ExpensePosted
<1>2. dto.account \in Accounts
  BY DEF ExpenseDto
<1>3. PICK m : m = Move("EXPENSE", -dto.amount, e)
  OBVIOUS
<1>4. ChangeBalance([x \in {dto.account} |-> m]) /\ m.ref = e /\ m.kind = "EXPENSE"
  BY <1>1, <1>3 DEF PostExpense, Move
<1>5. \A r, kinds : r # e => Keeps(r, kinds)
  BY <1>2, <1>4, OneMove
<1>6. /\ None(e, {"EXPENSE"}) => One(e, {"EXPENSE"})'
      /\ Keeps(e, {"EXPENSE_REVERSAL"})
  <2>1. m.kind \in {"EXPENSE"} /\ m.kind \notin {"EXPENSE_REVERSAL"}
    BY <1>4
  <2>2. None(e, {"EXPENSE"}) => One(e, {"EXPENSE"})'
    BY <1>2, <1>4, <2>1, OneMove
  <2>3. Keeps(e, {"EXPENSE_REVERSAL"})
    BY <1>2, <1>4, <2>1, OneMove
  <2>. QED
    BY <2>2, <2>3
<1>7. ExpenseFits(e)
  BY DEF EntriesFit
<1>8. expenses[e].status = "DRAFT" /\ expenses'[e].status = "POSTED"
  <2>1. expenses[e].status = "DRAFT"
    BY DEF PostExpense
  <2>2. expenses'[e].status = "POSTED"
    BY ExpensePosted
  <2>. QED
    BY <2>1, <2>2
<1>9. ExpenseFits(e)'
  BY <1>6, <1>7, <1>8 DEF ExpenseFits, Keeps
<1>10. e \notin Payments /\ e \notin Transfers
  BY DistinctRefs
<1>11. payments' = payments /\ transfers' = transfers
  BY DEF PostExpense
<1>12. TwoAccounts'
  BY <1>11 DEF EntriesFit, TwoAccounts
<1>13. \A x \in Expenses : x # e => expenses'[x].status = expenses[x].status
  BY ExpensePosted
<1>. QED
  BY <1>5, <1>9, <1>10, <1>11, <1>12, <1>13, OthersFit

LEMMA CancelledExpenseFits ==
    ASSUME TypeOK, EntriesFit, NEW e \in Expenses, CancelExpense(e)
    PROVE  EntriesFit'
<1>1. PICK dto \in ExpenseDto : dto = expenses[e].data
  BY ExpenseCancelled
<1>2. dto.account \in Accounts
  BY DEF ExpenseDto
<1>3. PICK m : m = Move("EXPENSE_REVERSAL", dto.amount, e)
  OBVIOUS
<1>4. ChangeBalance([x \in {dto.account} |-> m]) /\ m.ref = e /\ m.kind = "EXPENSE_REVERSAL"
  BY <1>1, <1>3 DEF CancelExpense, Move
<1>5. \A r, kinds : r # e => Keeps(r, kinds)
  BY <1>2, <1>4, OneMove
<1>6. /\ None(e, {"EXPENSE_REVERSAL"}) => One(e, {"EXPENSE_REVERSAL"})'
      /\ Keeps(e, {"EXPENSE"})
  <2>1. m.kind \in {"EXPENSE_REVERSAL"} /\ m.kind \notin {"EXPENSE"}
    BY <1>4
  <2>2. None(e, {"EXPENSE_REVERSAL"}) => One(e, {"EXPENSE_REVERSAL"})'
    BY <1>2, <1>4, <2>1, OneMove
  <2>3. Keeps(e, {"EXPENSE"})
    BY <1>2, <1>4, <2>1, OneMove
  <2>. QED
    BY <2>2, <2>3
<1>7. ExpenseFits(e)
  BY DEF EntriesFit
<1>8. expenses[e].status = "POSTED" /\ expenses'[e].status = "CANCELLED"
  <2>1. expenses[e].status = "POSTED"
    BY DEF CancelExpense
  <2>2. expenses'[e].status = "CANCELLED"
    BY ExpenseCancelled
  <2>. QED
    BY <2>1, <2>2
<1>9. ExpenseFits(e)'
  BY <1>6, <1>7, <1>8 DEF ExpenseFits, Keeps
<1>10. e \notin Payments /\ e \notin Transfers
  BY DistinctRefs
<1>11. payments' = payments /\ transfers' = transfers
  BY DEF CancelExpense
<1>12. TwoAccounts'
  BY <1>11 DEF EntriesFit, TwoAccounts
<1>13. \A x \in Expenses : x # e => expenses'[x].status = expenses[x].status
  BY ExpenseCancelled
<1>. QED
  BY <1>5, <1>9, <1>10, <1>11, <1>12, <1>13, OthersFit

LEMMA CreatedTransferFits ==
    ASSUME TypeOK, EntriesFit, NEW t \in Transfers, NEW dto \in TransferDto,
           CreateTransfer(t, dto)
    PROVE  EntriesFit'
<1>1. /\ transfers[t].status = "ABSENT" /\ dto.from # dto.to
      /\ ChangeBalance(TransferMoves(t, dto, "TRANSFER_OUT", "TRANSFER_IN", dto.amount))
      /\ payments' = payments /\ expenses' = expenses
  BY DEF CreateTransfer, Absent
<1>2. /\ transfers'[t].status = "POSTED" /\ transfers'[t].data = dto
      /\ \A x \in Transfers \ {t} : transfers'[x] = transfers[x]
  BY DEF CreateTransfer, TypeOK
<1>3. \A r, kinds : r # t => Keeps(r, kinds)
  BY <1>1, TwoMoves
<1>4. /\ None(t, {"TRANSFER_OUT"}) => One(t, {"TRANSFER_OUT"})'
      /\ None(t, {"TRANSFER_IN"}) => One(t, {"TRANSFER_IN"})'
      /\ Keeps(t, {"TRANSFER_REVERSAL"})
  BY <1>1, TwoMoves
<1>5. TransferFits(t)
  BY DEF EntriesFit
<1>6. TransferFits(t)'
  BY <1>1, <1>2, <1>4, <1>5 DEF TransferFits, Keeps
<1>7. t \notin Payments /\ t \notin Expenses
  BY DistinctRefs
<1>8. TwoAccounts'
  BY <1>1, <1>2 DEF EntriesFit, TwoAccounts
<1>. QED
  BY <1>1, <1>2, <1>3, <1>6, <1>7, <1>8, OthersFit

LEMMA ReversedTransferFits ==
    ASSUME TypeOK, EntriesFit, NEW t \in Transfers, ReverseTransfer(t)
    PROVE  EntriesFit'
<1>1. PICK dto \in TransferDto : dto = transfers[t].data
  BY TransferReversed
<1>2. PICK amount : amount = -dto.amount
  OBVIOUS
<1>3. /\ transfers[t].status = "POSTED"
      /\ ChangeBalance(TransferMoves(t, dto, "TRANSFER_REVERSAL", "TRANSFER_REVERSAL", amount))
      /\ payments' = payments /\ expenses' = expenses
  BY <1>1, <1>2 DEF ReverseTransfer
<1>4. dto.from # dto.to
  BY <1>1, <1>3 DEF EntriesFit
<1>5. /\ transfers'[t].status = "REVERSED" /\ transfers'[t].data = dto
      /\ \A x \in Transfers \ {t} : transfers'[x] = transfers[x]
  <2>1. transfers'[t] = [status |-> "REVERSED", data |-> transfers[t].data,
                         number |-> transfers[t].number]
    BY TransferReversed
  <2>2. \A x \in Transfers \ {t} : transfers'[x] = transfers[x]
    BY TransferReversed
  <2>. QED
    BY <1>1, <2>1, <2>2
<1>6. \A r, kinds : r # t => Keeps(r, kinds)
  BY <1>3, <1>4, TwoMoves
<1>7. /\ Keeps(t, {"TRANSFER_OUT"})
      /\ Keeps(t, {"TRANSFER_IN"})
      /\ None(t, {"TRANSFER_REVERSAL"}) => Two(t, {"TRANSFER_REVERSAL"})'
  BY <1>3, <1>4, TwoMoves
<1>8. TransferFits(t)
  BY DEF EntriesFit
<1>9. TransferFits(t)'
  BY <1>3, <1>5, <1>7, <1>8 DEF TransferFits, Keeps
<1>10. t \notin Payments /\ t \notin Expenses
  BY DistinctRefs
<1>11. TwoAccounts'
  BY <1>4, <1>5 DEF EntriesFit, TwoAccounts
<1>. QED
  BY <1>3, <1>5, <1>6, <1>9, <1>10, <1>11, OthersFit

LEMMA ShapeEntries == ASSUME TypeOK, EntriesFit, Shape PROVE EntriesFit'
<1>1. ASSUME entries' = entries PROVE \A r, kinds : Keeps(r, kinds)
  <2>1. \A a \in Accounts : \A r, kinds : RowsOn(a, r, kinds)' = RowsOn(a, r, kinds)
    BY <1>1 DEF RowsOn
  <2>. QED
    BY <2>1, RowsKept DEF Keeps
<1>2. NoRef \notin Payments /\ NoRef \notin Expenses /\ NoRef \notin Transfers
  BY DistinctRefs
<1>3. CASE Elsewhere
  <2>1. entries' = entries /\ payments' = payments /\ expenses' = expenses
        /\ transfers' = transfers
    BY <1>3 DEF Elsewhere
  <2>2. TwoAccounts'
    BY <2>1 DEF EntriesFit, TwoAccounts
  <2>. QED
    BY <1>1, <1>2, <2>1, <2>2, OthersFit
<1>4. ASSUME NEW a \in Accounts, NEW opening \in Openings, NEW active \in BOOLEAN,
             CreateAccount(a, opening, active)
      PROVE  EntriesFit'
  <2>1. payments' = payments /\ expenses' = expenses /\ transfers' = transfers
    BY <1>4 DEF CreateAccount, rows
  <2>2. TwoAccounts'
    BY <2>1 DEF EntriesFit, TwoAccounts
  <2>3. \A r, kinds : r # NoRef => Keeps(r, kinds)
    BY <1>4, OpeningKeeps
  <2>. QED
    BY <1>2, <2>1, <2>2, <2>3, OthersFit
<1>5. ASSUME NEW p \in Payments, DraftingPayment(p) PROVE EntriesFit'
  <2>1. /\ entries' = entries /\ expenses' = expenses /\ transfers' = transfers
        /\ \A q \in Payments \ {p} : payments'[q] = payments[q]
        /\ payments[p].status \in {"ABSENT", "DRAFT"} /\ payments'[p].status \in {"ABSENT", "DRAFT"}
    BY <1>5 DEF DraftingPayment, Posted, books
  <2>2. TwoAccounts'
    BY <2>1 DEF EntriesFit, TwoAccounts
  <2>3. PaymentFits(p)
    BY DEF EntriesFit
  <2>4. PaymentFits(p)'
    BY <1>1, <2>1, <2>3 DEF PaymentFits, Keeps
  <2>5. p \notin Expenses /\ p \notin Transfers
    BY DistinctRefs
  <2>. QED
    BY <1>1, <2>1, <2>2, <2>4, <2>5, OthersFit
<1>6. ASSUME NEW e \in Expenses, EditingExpense(e) PROVE EntriesFit'
  <2>1. /\ entries' = entries /\ payments' = payments /\ transfers' = transfers
        /\ \A x \in Expenses \ {e} : expenses'[x] = expenses[x]
        /\ \/ expenses[e].status \in {"ABSENT", "DRAFT"} /\ expenses'[e].status \in {"ABSENT", "DRAFT"}
           \/ expenses'[e].status = expenses[e].status
    BY <1>6 DEF EditingExpense, Posted, books
  <2>2. TwoAccounts'
    BY <2>1 DEF EntriesFit, TwoAccounts
  <2>3. ExpenseFits(e)
    BY DEF EntriesFit
  <2>4. ExpenseFits(e)'
    BY <1>1, <2>1, <2>3 DEF ExpenseFits, Keeps
  <2>5. e \notin Payments /\ e \notin Transfers
    BY DistinctRefs
  <2>. QED
    BY <1>1, <2>1, <2>2, <2>4, <2>5, OthersFit
<1>. QED
  BY <1>3, <1>4, <1>5, <1>6, PostedPaymentFits, ReversedPaymentFits, PostedExpenseFits,
     CancelledExpenseFits, CreatedTransferFits, ReversedTransferFits DEF Shape

-----------------------------------------------------------------------------
(* Permanent numbers.  `num` holds the numbers given to rows, `top` the     *)
(* last number of each year.                                               *)

Gapless(num, top) ==
    /\ \A i, j \in DOMAIN num : num[i] = num[j] => i = j
    /\ {num[i] : i \in DOMAIN num} = UNION {{y} \X (1..top[y]) : y \in Years}

PaymentNumbers(type) ==
    [p \in {q \in Numbered(payments) : payments[q].data.type = type} |-> payments[p].number]
ExpenseNumbers == [e \in Numbered(expenses) |-> expenses[e].number]
TransferNumbers == [t \in Numbered(transfers) |-> transfers[t].number]
LastNumber(type) == [y \in Years |-> sequence[<<type, y>>]]

GaplessTables ==
    /\ \A type \in PaymentTypes : Gapless(PaymentNumbers(type), LastNumber(type))
    /\ Gapless(ExpenseNumbers, LastNumber("EXPENSE"))
    /\ Gapless(TransferNumbers, LastNumber("TRANSFER"))

LEMMA GaplessIsGapFree == GaplessTables <=> NumbersGapFree
<1>1. \A table, ids, type :
         Gapless([i \in ids |-> table[i].number], LastNumber(type)) <=> GapFree(table, ids, type)
  <2> TAKE table, ids, type
  <2> DEFINE num == [i \in ids |-> table[i].number]
             top == LastNumber(type)
  <2>1. /\ DOMAIN num = ids
        /\ \A i \in ids : num[i] = table[i].number
        /\ \A y \in Years : top[y] = sequence[<<type, y>>]
    BY DEF LastNumber
  <2> HIDE DEF num, top
  <2>2. /\ {num[i] : i \in DOMAIN num} = {table[i].number : i \in ids}
        /\ \A y \in Years : {y} \X (1..top[y]) = {y} \X (1..sequence[<<type, y>>])
    BY <2>1
  <2>3. UNION {{y} \X (1..top[y]) : y \in Years}
        = UNION {{y} \X (1..sequence[<<type, y>>]) : y \in Years}
    BY <2>2
  <2>4. (\A i, j \in DOMAIN num : num[i] = num[j] => i = j)
        <=> (\A i, j \in ids : table[i].number = table[j].number => i = j)
    BY <2>1
  <2>5. Gapless(num, top) <=> GapFree(table, ids, type)
    BY <2>2, <2>3, <2>4 DEF Gapless, GapFree
  <2>. QED
    BY <2>5 DEF num, top
<1>. QED
  BY <1>1 DEF GaplessTables, NumbersGapFree, PaymentNumbers, ExpenseNumbers, TransferNumbers

LEMMA NumberTaken ==
    ASSUME NEW num, NEW top \in [Years -> Nat], Gapless(num, top),
           NEW d, d \notin DOMAIN num, NEW year \in Years,
           NEW next, DOMAIN next = DOMAIN num \cup {d},
           \A i \in DOMAIN num : next[i] = num[i], next[d] = <<year, top[year] + 1>>,
           NEW last, last = [top EXCEPT ![year] = @ + 1]
    PROVE  Gapless(next, last)
<1> DEFINE n == top[year]
           Before(y) == {y} \X (1..top[y])
           After(y) == {y} \X (1..last[y])
           Old == UNION {Before(y) : y \in Years}
           New == UNION {After(y) : y \in Years}
<1>1. n \in Nat
  OBVIOUS
<1>2. \A y \in Years : After(y) = Before(y) \cup (IF y = year THEN {<<year, n + 1>>} ELSE {})
  <2>1. 1..(n + 1) = 1..n \cup {n + 1}
    BY <1>1
  <2>2. \A y \in Years : last[y] = IF y = year THEN n + 1 ELSE top[y]
    OBVIOUS
  <2>. QED
    BY <2>1, <2>2
<1>3. <<year, n + 1>> \notin Old
  <2>1. ASSUME <<year, n + 1>> \in Old PROVE FALSE
    <3>1. PICK y \in Years : <<year, n + 1>> \in {y} \X (1..top[y])
      BY <2>1
    <3>2. y = year /\ n + 1 \in 1..n
      BY <3>1
    <3>. QED
      BY <1>1, <3>2
  <2>. QED
    BY <2>1
<1>4. {num[i] : i \in DOMAIN num} = Old
  BY DEF Gapless
<1> DEFINE taken == <<year, n + 1>>
<1>5. next[d] = taken
  OBVIOUS
<1> HIDE DEF n, Before, After, taken
<1>6. New = Old \cup {taken}
  BY <1>2 DEF taken
<1> HIDE DEF Old, New
<1>7. \A i \in DOMAIN num : num[i] # taken
  BY <1>3, <1>4 DEF taken
<1>8. \A i, j \in DOMAIN next : next[i] = next[j] => i = j
  BY <1>5, <1>7 DEF Gapless
<1>9. {next[i] : i \in DOMAIN next} = {num[i] : i \in DOMAIN num} \cup {taken}
  BY <1>5
<1>10. {next[i] : i \in DOMAIN next} = New
  BY <1>4, <1>6, <1>9
<1>. QED
  BY <1>8, <1>10 DEF Gapless, New, After

LEMMA SequenceTaken ==
    ASSUME TypeOK, NEW type \in SequenceTypes, NEW year \in Years, TakeNumber(type, year)
    PROVE  /\ LastNumber(type) \in [Years -> Nat]
           /\ LastNumber(type)' = [LastNumber(type) EXCEPT ![year] = @ + 1]
           /\ NextNumber(type, year) = <<year, LastNumber(type)[year] + 1>>
           /\ \A other \in SequenceTypes : other # type => LastNumber(other)' = LastNumber(other)
<1>1. /\ sequence \in [SequenceTypes \X Years -> Nat]
      /\ sequence' = [sequence EXCEPT ![<<type, year>>] = @ + 1]
  BY DEF TypeOK, TakeNumber
<1>2. \A other \in SequenceTypes, y \in Years :
         sequence'[<<other, y>>] = IF other = type /\ y = year
                                   THEN sequence[<<other, y>>] + 1 ELSE sequence[<<other, y>>]
  BY <1>1
<1>3. LastNumber(type) \in [Years -> Nat]
  BY <1>1 DEF LastNumber
<1>4. LastNumber(type)' = [LastNumber(type) EXCEPT ![year] = @ + 1]
  BY <1>2 DEF LastNumber
<1>5. NextNumber(type, year) = <<year, LastNumber(type)[year] + 1>>
  BY DEF NextNumber, LastNumber
<1>6. \A other \in SequenceTypes : other # type => LastNumber(other)' = LastNumber(other)
  BY <1>2 DEF LastNumber
<1>. QED
  BY <1>3, <1>4, <1>5, <1>6

LEMMA NumbersUntouched ==
    ASSUME TypeOK, TypeOK'
    PROVE  /\ (\A p \in Payments : /\ Posted(payments'[p]) <=> Posted(payments[p])
                                   /\ Posted(payments[p]) =>
                                         /\ payments'[p].number = payments[p].number
                                         /\ payments'[p].data.type = payments[p].data.type)
                 => \A type : PaymentNumbers(type)' = PaymentNumbers(type)
           /\ (\A e \in Expenses : /\ Posted(expenses'[e]) <=> Posted(expenses[e])
                                   /\ Posted(expenses[e]) =>
                                         expenses'[e].number = expenses[e].number)
                 => ExpenseNumbers' = ExpenseNumbers
           /\ (\A t \in Transfers : /\ Posted(transfers'[t]) <=> Posted(transfers[t])
                                    /\ Posted(transfers[t]) =>
                                          transfers'[t].number = transfers[t].number)
                 => TransferNumbers' = TransferNumbers
<1>1. /\ DOMAIN payments = Payments /\ DOMAIN payments' = Payments
      /\ DOMAIN expenses = Expenses /\ DOMAIN expenses' = Expenses
      /\ DOMAIN transfers = Transfers /\ DOMAIN transfers' = Transfers
  BY DEF TypeOK
<1>2. ASSUME \A p \in Payments : /\ Posted(payments'[p]) <=> Posted(payments[p])
                                 /\ Posted(payments[p]) =>
                                       /\ payments'[p].number = payments[p].number
                                       /\ payments'[p].data.type = payments[p].data.type,
             NEW type
      PROVE  PaymentNumbers(type)' = PaymentNumbers(type)
  <2>1. {q \in Numbered(payments)' : payments'[q].data.type = type}
        = {q \in Numbered(payments) : payments[q].data.type = type}
    BY <1>1, <1>2 DEF Numbered, Posted
  <2>2. \A q \in Numbered(payments) : payments'[q].number = payments[q].number
    BY <1>1, <1>2 DEF Numbered, Posted
  <2>. QED
    BY <2>1, <2>2 DEF PaymentNumbers
<1>3. ASSUME \A e \in Expenses : /\ Posted(expenses'[e]) <=> Posted(expenses[e])
                                 /\ Posted(expenses[e]) =>
                                       expenses'[e].number = expenses[e].number
      PROVE  ExpenseNumbers' = ExpenseNumbers
  <2>1. Numbered(expenses)' = Numbered(expenses)
    BY <1>1, <1>3 DEF Numbered, Posted
  <2>2. \A e \in Numbered(expenses) : expenses'[e].number = expenses[e].number
    BY <1>1, <1>3 DEF Numbered, Posted
  <2>. QED
    BY <2>1, <2>2 DEF ExpenseNumbers
<1>4. ASSUME \A t \in Transfers : /\ Posted(transfers'[t]) <=> Posted(transfers[t])
                                  /\ Posted(transfers[t]) =>
                                        transfers'[t].number = transfers[t].number
      PROVE  TransferNumbers' = TransferNumbers
  <2>1. Numbered(transfers)' = Numbered(transfers)
    BY <1>1, <1>4 DEF Numbered, Posted
  <2>2. \A t \in Numbered(transfers) : transfers'[t].number = transfers[t].number
    BY <1>1, <1>4 DEF Numbered, Posted
  <2>. QED
    BY <2>1, <2>2 DEF TransferNumbers
<1>. QED
  BY <1>2, <1>3, <1>4

(* Steps that take no number change none. *)
LEMMA NumbersKept ==
    ASSUME TypeOK, TypeOK', GaplessTables, UNCHANGED sequence,
           \A p \in Payments : /\ Posted(payments'[p]) <=> Posted(payments[p])
                               /\ Posted(payments[p]) =>
                                     /\ payments'[p].number = payments[p].number
                                     /\ payments'[p].data.type = payments[p].data.type,
           \A e \in Expenses : /\ Posted(expenses'[e]) <=> Posted(expenses[e])
                               /\ Posted(expenses[e]) => expenses'[e].number = expenses[e].number,
           \A t \in Transfers : /\ Posted(transfers'[t]) <=> Posted(transfers[t])
                                /\ Posted(transfers[t]) =>
                                      transfers'[t].number = transfers[t].number
    PROVE  GaplessTables'
<1>1. /\ \A type : PaymentNumbers(type)' = PaymentNumbers(type)
      /\ ExpenseNumbers' = ExpenseNumbers
      /\ TransferNumbers' = TransferNumbers
  BY NumbersUntouched
<1>2. \A type : LastNumber(type)' = LastNumber(type)
  BY DEF LastNumber
<1>. QED
  BY <1>1, <1>2 DEF GaplessTables, Gapless

LEMMA TypesOfNumbers ==
    /\ PaymentTypes \subseteq SequenceTypes
    /\ "EXPENSE" \in SequenceTypes \ PaymentTypes
    /\ "TRANSFER" \in SequenceTypes \ PaymentTypes
BY DEF PaymentTypes, SequenceTypes

LEMMA PaymentNumbered ==
    ASSUME TypeOK, TypeOK', GaplessTables, NEW p \in Payments, PostPayment(p)
    PROVE  GaplessTables'
<1>1. PICK dto \in PaymentDto : dto = payments[p].data
  BY PaymentPosted
<1>2. PICK type \in PaymentTypes, year \in Years : type = dto.type /\ year = dto.year
  BY DEF PaymentDto
<1>3. TakeNumber(type, year) /\ payments[p].status = "DRAFT"
  BY <1>1, <1>2 DEF PostPayment
<1>4. /\ payments'[p].status = "POSTED"
      /\ payments'[p].data = dto
      /\ payments'[p].number = NextNumber(type, year)
      /\ \A q \in Payments \ {p} : payments'[q] = payments[q]
  BY <1>1, <1>2, PaymentPosted
<1>5. DOMAIN payments = Payments /\ DOMAIN payments' = Payments
  BY DEF TypeOK
<1>6. ASSUME NEW other \in PaymentTypes, other # type
      PROVE  PaymentNumbers(other)' = PaymentNumbers(other)
  <2>1. {q \in Numbered(payments)' : payments'[q].data.type = other}
        = {q \in Numbered(payments) : payments[q].data.type = other}
    BY <1>2, <1>3, <1>4, <1>5, <1>6 DEF Numbered
  <2>2. \A q \in {x \in Numbered(payments) : payments[x].data.type = other} :
           payments'[q].number = payments[q].number
    BY <1>3, <1>4, <1>5 DEF Numbered
  <2>. QED
    BY <2>1, <2>2 DEF PaymentNumbers
<1>7. /\ ExpenseNumbers' = ExpenseNumbers
      /\ TransferNumbers' = TransferNumbers
  BY DEF PostPayment, ExpenseNumbers, TransferNumbers, Numbered
<1>8. Gapless(PaymentNumbers(type)', LastNumber(type)')
  <2> DEFINE num == PaymentNumbers(type)
             next == PaymentNumbers(type)'
  <2>1. p \notin DOMAIN num
    BY <1>3 DEF PaymentNumbers, Numbered
  <2>2. DOMAIN next = DOMAIN num \cup {p}
    BY <1>2, <1>3, <1>4, <1>5 DEF PaymentNumbers, Numbered
  <2>3. \A i \in DOMAIN num : next[i] = num[i]
    BY <1>3, <1>4, <1>5 DEF PaymentNumbers, Numbered
  <2>4. next[p] = NextNumber(type, year)
    BY <1>2, <1>4, <1>5 DEF PaymentNumbers, Numbered
  <2>5. Gapless(num, LastNumber(type))
    BY DEF GaplessTables
  <2>6. /\ LastNumber(type) \in [Years -> Nat]
        /\ LastNumber(type)' = [LastNumber(type) EXCEPT ![year] = @ + 1]
        /\ next[p] = <<year, LastNumber(type)[year] + 1>>
    BY <1>3, <2>4, TypesOfNumbers, SequenceTaken
  <2> DEFINE top == LastNumber(type)
             last == LastNumber(type)'
  <2>7. /\ top \in [Years -> Nat] /\ Gapless(num, top)
        /\ last = [top EXCEPT ![year] = @ + 1]
        /\ next[p] = <<year, top[year] + 1>>
    BY <2>5, <2>6
  <2> HIDE DEF num, next, top, last
  <2>8. Gapless(next, last)
    BY <2>1, <2>2, <2>3, <2>7, NumberTaken
  <2>. QED
    BY <2>8 DEF next, last
<1>9. \A other \in SequenceTypes : other # type => LastNumber(other)' = LastNumber(other)
  BY <1>3, TypesOfNumbers, SequenceTaken
<1>. QED
  BY <1>6, <1>7, <1>8, <1>9, TypesOfNumbers DEF GaplessTables, Gapless

LEMMA ExpenseNumbered ==
    ASSUME TypeOK, TypeOK', GaplessTables, NEW e \in Expenses, PostExpense(e)
    PROVE  GaplessTables'
<1>1. PICK dto \in ExpenseDto : dto = expenses[e].data
  BY ExpensePosted
<1>2. PICK year \in Years : year = dto.year
  BY DEF ExpenseDto
<1>3. TakeNumber("EXPENSE", year) /\ expenses[e].status = "DRAFT"
  BY <1>1, <1>2 DEF PostExpense
<1>4. /\ expenses'[e].status = "POSTED"
      /\ expenses'[e].number = NextNumber("EXPENSE", year)
      /\ \A x \in Expenses \ {e} : expenses'[x] = expenses[x]
  BY <1>1, <1>2, ExpensePosted
<1>5. DOMAIN expenses = Expenses /\ DOMAIN expenses' = Expenses
  BY DEF TypeOK
<1>6. /\ \A type : PaymentNumbers(type)' = PaymentNumbers(type)
      /\ TransferNumbers' = TransferNumbers
  BY DEF PostExpense, PaymentNumbers, TransferNumbers, Numbered
<1>7. Gapless(ExpenseNumbers', LastNumber("EXPENSE")')
  <2> DEFINE num == ExpenseNumbers
             next == ExpenseNumbers'
  <2>1. e \notin DOMAIN num
    BY <1>3 DEF ExpenseNumbers, Numbered
  <2>2. DOMAIN next = DOMAIN num \cup {e}
    BY <1>3, <1>4, <1>5 DEF ExpenseNumbers, Numbered
  <2>3. \A i \in DOMAIN num : next[i] = num[i]
    BY <1>3, <1>4, <1>5 DEF ExpenseNumbers, Numbered
  <2>4. next[e] = NextNumber("EXPENSE", year)
    BY <1>4, <1>5 DEF ExpenseNumbers, Numbered
  <2>5. Gapless(num, LastNumber("EXPENSE"))
    BY DEF GaplessTables
  <2>6. /\ LastNumber("EXPENSE") \in [Years -> Nat]
        /\ LastNumber("EXPENSE")' = [LastNumber("EXPENSE") EXCEPT ![year] = @ + 1]
        /\ next[e] = <<year, LastNumber("EXPENSE")[year] + 1>>
    BY <1>3, <2>4, TypesOfNumbers, SequenceTaken
  <2> HIDE DEF num, next
  <2>. QED
    BY <2>1, <2>2, <2>3, <2>5, <2>6, NumberTaken DEF num, next
<1>8. \A other \in SequenceTypes : other # "EXPENSE" => LastNumber(other)' = LastNumber(other)
  BY <1>3, TypesOfNumbers, SequenceTaken
<1>. QED
  BY <1>6, <1>7, <1>8, TypesOfNumbers DEF GaplessTables, Gapless

LEMMA TransferNumbered ==
    ASSUME TypeOK, TypeOK', GaplessTables, NEW t \in Transfers, NEW dto \in TransferDto,
           CreateTransfer(t, dto)
    PROVE  GaplessTables'
<1>1. PICK year \in Years : year = dto.year
  BY TransferDtoFields
<1>2. TakeNumber("TRANSFER", year) /\ transfers[t].status = "ABSENT"
  BY <1>1 DEF CreateTransfer, Absent
<1>3. /\ transfers'[t].status = "POSTED"
      /\ transfers'[t].number = NextNumber("TRANSFER", year)
      /\ \A x \in Transfers \ {t} : transfers'[x] = transfers[x]
  BY <1>1 DEF CreateTransfer, TypeOK
<1>4. DOMAIN transfers = Transfers /\ DOMAIN transfers' = Transfers
  BY DEF TypeOK
<1>5. /\ \A type : PaymentNumbers(type)' = PaymentNumbers(type)
      /\ ExpenseNumbers' = ExpenseNumbers
  BY DEF CreateTransfer, PaymentNumbers, ExpenseNumbers, Numbered
<1>6. Gapless(TransferNumbers', LastNumber("TRANSFER")')
  <2> DEFINE num == TransferNumbers
             next == TransferNumbers'
  <2>1. t \notin DOMAIN num
    BY <1>2 DEF TransferNumbers, Numbered
  <2>2. DOMAIN next = DOMAIN num \cup {t}
    BY <1>2, <1>3, <1>4 DEF TransferNumbers, Numbered
  <2>3. \A i \in DOMAIN num : next[i] = num[i]
    BY <1>2, <1>3, <1>4 DEF TransferNumbers, Numbered
  <2>4. next[t] = NextNumber("TRANSFER", year)
    BY <1>3, <1>4 DEF TransferNumbers, Numbered
  <2>5. Gapless(num, LastNumber("TRANSFER"))
    BY DEF GaplessTables
  <2>6. /\ LastNumber("TRANSFER") \in [Years -> Nat]
        /\ LastNumber("TRANSFER")' = [LastNumber("TRANSFER") EXCEPT ![year] = @ + 1]
        /\ next[t] = <<year, LastNumber("TRANSFER")[year] + 1>>
    BY <1>2, <2>4, TypesOfNumbers, SequenceTaken
  <2> HIDE DEF num, next
  <2>. QED
    BY <2>1, <2>2, <2>3, <2>5, <2>6, NumberTaken DEF num, next
<1>7. \A other \in SequenceTypes : other # "TRANSFER" => LastNumber(other)' = LastNumber(other)
  BY <1>2, TypesOfNumbers, SequenceTaken
<1>. QED
  BY <1>5, <1>6, <1>7, TypesOfNumbers DEF GaplessTables, Gapless

LEMMA ShapeNumbers ==
    ASSUME TypeOK, TypeOK', GaplessTables, Shape PROVE GaplessTables'
<1>1. CASE Elsewhere
  BY <1>1, NumbersKept DEF Elsewhere
<1>2. ASSUME NEW a \in Accounts, NEW opening \in Openings, NEW active \in BOOLEAN,
             CreateAccount(a, opening, active)
      PROVE  GaplessTables'
  BY <1>2, NumbersKept DEF CreateAccount, rows
<1>3. ASSUME NEW p \in Payments, DraftingPayment(p) PROVE GaplessTables'
  BY <1>3, NumbersKept DEF DraftingPayment
<1>4. ASSUME NEW e \in Expenses, EditingExpense(e) PROVE GaplessTables'
  BY <1>4, NumbersKept DEF EditingExpense, Posted
<1>5. ASSUME NEW p \in Payments, ReversePayment(p) PROVE GaplessTables'
  <2>1. /\ UNCHANGED <<sequence, expenses, transfers>> /\ payments[p].status = "POSTED"
    BY <1>5 DEF ReversePayment
  <2>2. payments'[p] = [status |-> "REVERSED", data |-> payments[p].data,
                        number |-> payments[p].number]
    BY <1>5, PaymentReversed
  <2>3. \A q \in Payments \ {p} : payments'[q] = payments[q]
    BY <1>5, PaymentReversed
  <2>4. \A q \in Payments : /\ Posted(payments'[q]) <=> Posted(payments[q])
                            /\ payments'[q].number = payments[q].number
                            /\ payments'[q].data = payments[q].data
    BY <2>1, <2>2, <2>3 DEF Posted
  <2>. QED
    BY <2>1, <2>4, NumbersKept
<1>6. ASSUME NEW e \in Expenses, CancelExpense(e) PROVE GaplessTables'
  <2>1. /\ UNCHANGED <<sequence, payments, transfers>> /\ expenses[e].status = "POSTED"
    BY <1>6 DEF CancelExpense
  <2>2. expenses'[e] = [status |-> "CANCELLED", data |-> expenses[e].data,
                        number |-> expenses[e].number]
    BY <1>6, ExpenseCancelled
  <2>3. \A x \in Expenses \ {e} : expenses'[x] = expenses[x]
    BY <1>6, ExpenseCancelled
  <2>4. \A x \in Expenses : /\ Posted(expenses'[x]) <=> Posted(expenses[x])
                            /\ expenses'[x].number = expenses[x].number
    BY <2>1, <2>2, <2>3 DEF Posted
  <2>. QED
    BY <2>1, <2>4, NumbersKept
<1>7. ASSUME NEW t \in Transfers, ReverseTransfer(t) PROVE GaplessTables'
  <2>1. /\ UNCHANGED <<sequence, payments, expenses>> /\ transfers[t].status = "POSTED"
    BY <1>7 DEF ReverseTransfer
  <2>2. transfers'[t] = [status |-> "REVERSED", data |-> transfers[t].data,
                         number |-> transfers[t].number]
    BY <1>7, TransferReversed
  <2>3. \A x \in Transfers \ {t} : transfers'[x] = transfers[x]
    BY <1>7, TransferReversed
  <2>4. \A x \in Transfers : /\ Posted(transfers'[x]) <=> Posted(transfers[x])
                             /\ transfers'[x].number = transfers[x].number
    BY <2>1, <2>2, <2>3 DEF Posted
  <2>. QED
    BY <2>1, <2>4, NumbersKept
<1>. QED
  BY <1>1, <1>2, <1>3, <1>4, <1>5, <1>6, <1>7, PaymentNumbered, ExpenseNumbered,
     TransferNumbered DEF Shape

-----------------------------------------------------------------------------
(* What is allocated to a document.                                        *)

(* No list names a document twice: validateOutstanding compares every       *)
(* allocation by itself with what other payments have settled.             *)
TargetsDiffer ==
    \A list \in AllocationLists : \A i, j \in DOMAIN list :
        list[i].target = list[j].target => i = j

AllocationsTo(list, d) == [i \in {j \in DOMAIN list : list[j].target = d} |-> list[i].amount]

Shares(d, except) ==
    [p \in {q \in Payments \ except : payments[q].status = "POSTED"} |->
        AllocatedTo(payments[p].data.allocations, d)]

SharesNatural ==
    \A d, except : /\ IsFiniteSet(DOMAIN Shares(d, except))
                   /\ \A p \in DOMAIN Shares(d, except) : Shares(d, except)[p] \in Nat
                   /\ SumOf(Shares(d, except)) \in Nat

LEMMA AllocationsType ==
    ASSUME NEW list \in AllocationLists, NEW d
    PROVE  /\ IsFiniteSet(DOMAIN AllocationsTo(list, d))
           /\ \A i \in DOMAIN AllocationsTo(list, d) : AllocationsTo(list, d)[i] \in Nat
           /\ AllocatedTo(list, d) = SumOf(AllocationsTo(list, d))
           /\ AllocatedTo(list, d) \in Nat
<1>1. list \in Seq([target : Documents, amount : Nat])
  BY FinanceAssumption
<1>2. DOMAIN list = 1..Len(list) /\ Len(list) \in Nat
      /\ \A i \in DOMAIN list : list[i].amount \in Nat
  <2> DEFINE R == [target : Documents, amount : Nat]
  <2>1. \A r \in R : r.amount \in Nat
    OBVIOUS
  <2>2. list \in Seq(R)
    BY <1>1
  <2> HIDE DEF R
  <2>. QED
    BY <2>1, <2>2
<1>3. IsFiniteSet(DOMAIN list)
  BY <1>2, FS_Interval
<1>4. DOMAIN AllocationsTo(list, d) \subseteq DOMAIN list
  BY DEF AllocationsTo
<1>5. IsFiniteSet(DOMAIN AllocationsTo(list, d))
  BY <1>3, <1>4, FS_Subset
<1>6. \A i \in DOMAIN AllocationsTo(list, d) : AllocationsTo(list, d)[i] \in Nat
  BY <1>2 DEF AllocationsTo
<1>7. AllocatedTo(list, d) = SumOf(AllocationsTo(list, d))
  BY DEF AllocatedTo, AllocationsTo
<1>8. SumOf(AllocationsTo(list, d)) \in Nat
  BY <1>5, <1>6, SumOfNat
<1>. QED
  BY <1>5, <1>6, <1>7, <1>8

(* What a list without duplicates allocates to a document is one amount. *)
LEMMA AllocatedOnce ==
    ASSUME TargetsDiffer, NEW list \in AllocationLists, NEW d
    PROVE  \/ AllocatedTo(list, d) = 0
           \/ \E i \in DOMAIN list : list[i].target = d /\ AllocatedTo(list, d) = list[i].amount
<1> DEFINE h == AllocationsTo(list, d)
<1>1. /\ IsFiniteSet(DOMAIN h)
      /\ \A i \in DOMAIN h : h[i] \in Nat
      /\ AllocatedTo(list, d) = SumOf(h)
  BY AllocationsType
<1>2. DOMAIN h = {j \in DOMAIN list : list[j].target = d}
      /\ \A i \in DOMAIN h : h[i] = list[i].amount
  BY DEF AllocationsTo
<1> HIDE DEF h
<1>3. CASE DOMAIN h = {}
  BY <1>1, <1>3, SumOfEmpty
<1>4. CASE DOMAIN h # {}
  <2>1. PICK i \in DOMAIN list : i \in DOMAIN h /\ list[i].target = d
    BY <1>2, <1>4
  <2>2. DOMAIN h = {i}
    BY <1>2, <2>1 DEF TargetsDiffer
  <2> DEFINE f == [x \in {} |-> 0]
  <2>3. DOMAIN f = {} /\ DOMAIN f = DOMAIN h \ {i} /\ \A y \in DOMAIN f : f[y] = h[y]
    BY <2>2
  <2>4. \A y \in DOMAIN h : h[y] \in Int
    BY <1>1
  <2> HIDE DEF f
  <2>5. SumOf(h) = SumOf(f) + h[i]
    BY <1>1, <2>1, <2>3, <2>4, SumOfAdded
  <2>6. SumOf(f) = 0
    BY <2>3, SumOfEmpty
  <2>7. h[i] \in Nat /\ h[i] = list[i].amount
    BY <1>1, <1>2, <2>1
  <2>. QED
    BY <1>1, <2>1, <2>5, <2>6, <2>7
<1>. QED
  BY <1>3, <1>4

LEMMA SharesType == TypeOK => SharesNatural
<1> SUFFICES ASSUME TypeOK, NEW d, NEW except
             PROVE  /\ IsFiniteSet(DOMAIN Shares(d, except))
                    /\ \A p \in DOMAIN Shares(d, except) : Shares(d, except)[p] \in Nat
                    /\ SumOf(Shares(d, except)) \in Nat
  BY DEF SharesNatural
<1>1. DOMAIN Shares(d, except) \subseteq Payments /\ IsFiniteSet(Payments)
  BY FinanceAssumption DEF Shares
<1>2. IsFiniteSet(DOMAIN Shares(d, except))
  BY <1>1, FS_Subset
<1>3. ASSUME NEW p \in DOMAIN Shares(d, except) PROVE Shares(d, except)[p] \in Nat
  <2>1. p \in Payments /\ payments[p].status = "POSTED"
    BY <1>3 DEF Shares
  <2>2. payments[p].data \in PaymentDto
    BY <2>1, PaymentRow
  <2>3. payments[p].data.allocations \in AllocationLists
    BY <2>2 DEF PaymentDto
  <2>4. Shares(d, except)[p] = AllocatedTo(payments[p].data.allocations, d)
    BY <1>3 DEF Shares
  <2>. QED
    BY <2>3, <2>4, AllocationsType
<1>4. SumOf(Shares(d, except)) \in Nat
  BY <1>2, <1>3, SumOfNat
<1>. QED
  BY <1>2, <1>3, <1>4

LEMMA SharesTypeNext == TypeOK' => SharesNatural'
BY SharesType, PTL

LEMMA SettledIs == \A d, except : Settled(d, except) = SumOf(Shares(d, except))
BY DEF Settled, Shares

(* A step that leaves the posted payments and their lists alone. *)
LEMMA SettledKept ==
    ASSUME TypeOK,
           \A p \in Payments : /\ payments'[p].status = "POSTED" <=> payments[p].status = "POSTED"
                               /\ payments[p].status = "POSTED" =>
                                     payments'[p].data = payments[p].data,
           NEW d
    PROVE  Settled(d, {})' = Settled(d, {})
<1>1. {q \in Payments \ {} : payments'[q].status = "POSTED"}
      = {q \in Payments \ {} : payments[q].status = "POSTED"}
  OBVIOUS
<1>2. Shares(d, {})' = Shares(d, {})
  BY <1>1 DEF Shares
<1>3. Settled(d, {})' = SumOf(Shares(d, {})')
  BY DEF Settled, Shares
<1>. QED
  BY <1>2, <1>3, SettledIs

(* Posting a payment adds what its list allocates, reversing takes it back. *)
LEMMA SettledMore ==
    ASSUME TypeOK, TypeOK', NEW p \in Payments, payments[p].status = "DRAFT",
           payments'[p].status = "POSTED", payments'[p].data = payments[p].data,
           \A q \in Payments \ {p} : payments'[q] = payments[q], NEW d
    PROVE  /\ Settled(d, {p}) = Settled(d, {})
           /\ Settled(d, {})' = Settled(d, {}) + AllocatedTo(payments[p].data.allocations, d)
<1> DEFINE f == Shares(d, {})
           h == Shares(d, {})'
<1>1. SharesNatural /\ SharesNatural'
  BY SharesType, SharesTypeNext
<1>2. {q \in Payments \ {p} : payments[q].status = "POSTED"}
      = {q \in Payments \ {} : payments[q].status = "POSTED"}
  OBVIOUS
<1>3. Settled(d, {p}) = Settled(d, {})
  BY <1>2 DEF Settled
<1>4. /\ Settled(d, {}) = SumOf(f)
      /\ Settled(d, {})' = SumOf(h)
  BY DEF Settled, Shares
<1>5. p \in DOMAIN h /\ DOMAIN f = DOMAIN h \ {p}
  BY DEF Shares
<1>6. \A q \in DOMAIN f : f[q] = h[q]
  BY DEF Shares
<1>7. h[p] = AllocatedTo(payments[p].data.allocations, d)
  BY DEF Shares
<1>8. IsFiniteSet(DOMAIN h) /\ \A q \in DOMAIN h : h[q] \in Nat
  BY <1>1 DEF SharesNatural
<1> HIDE DEF f, h
<1>9. \A q \in DOMAIN h : h[q] \in Int
  BY <1>8
<1>10. SumOf(h) = SumOf(f) + h[p]
  BY <1>5, <1>6, <1>8, <1>9, SumOfAdded
<1>. QED
  BY <1>3, <1>4, <1>7, <1>10

LEMMA SettledLess ==
    ASSUME TypeOK, TypeOK', NEW p \in Payments, payments[p].status = "POSTED",
           payments'[p].status = "REVERSED",
           \A q \in Payments \ {p} : payments'[q] = payments[q], NEW d
    PROVE  Settled(d, {})' \in Nat /\ Settled(d, {}) \in Nat /\ Settled(d, {})' <= Settled(d, {})
<1> DEFINE h == Shares(d, {})
           f == Shares(d, {})'
<1>1. SharesNatural /\ SharesNatural'
  BY SharesType, SharesTypeNext
<1>2. /\ Settled(d, {}) = SumOf(h)
      /\ Settled(d, {})' = SumOf(f)
  BY DEF Settled, Shares
<1>3. p \in DOMAIN h /\ DOMAIN f = DOMAIN h \ {p}
  BY DEF Shares
<1>4. \A q \in DOMAIN f : f[q] = h[q]
  BY DEF Shares
<1>5. /\ IsFiniteSet(DOMAIN h) /\ \A q \in DOMAIN h : h[q] \in Nat
      /\ SumOf(h) \in Nat /\ SumOf(f) \in Nat
  BY <1>1 DEF SharesNatural
<1> HIDE DEF f, h
<1>6. \A q \in DOMAIN h : h[q] \in Int
  BY <1>5
<1>7. SumOf(h) = SumOf(f) + h[p]
  BY <1>3, <1>4, <1>5, <1>6, SumOfAdded
<1>8. h[p] \in Nat
  BY <1>3, <1>5
<1>. QED
  BY <1>2, <1>5, <1>7, <1>8

LEMMA ShapeSettled ==
    ASSUME TargetsDiffer, TypeOK, TypeOK', NoOverAllocation, Shape PROVE NoOverAllocation'
<1> SUFFICES ASSUME NEW d \in Documents PROVE Settled(d, {})' <= GrandTotal[d]
  BY DEF NoOverAllocation, Settled
<1>1. /\ Settled(d, {}) <= GrandTotal[d]
      /\ GrandTotal[d] \in Nat
      /\ Settled(d, {}) \in Nat
  <2>1. SharesNatural
    BY SharesType
  <2>. QED
    BY <2>1, SettledIs, FinanceAssumption DEF NoOverAllocation, SharesNatural
<1>2. ASSUME NEW p \in Payments, PostPayment(p) PROVE Settled(d, {})' <= GrandTotal[d]
  <2>1. PICK dto \in PaymentDto : dto = payments[p].data
    BY <1>2, PaymentPosted
  <2>2. PICK list \in AllocationLists : list = dto.allocations
    BY DEF PaymentDto
  <2>3. payments[p].status = "DRAFT" /\ ValidateOutstanding(p, dto)
    BY <1>2, <2>1 DEF PostPayment
  <2>4. /\ payments'[p].status = "POSTED"
        /\ payments'[p].data = payments[p].data
        /\ \A q \in Payments \ {p} : payments'[q] = payments[q]
    BY <1>2, PaymentPosted
  <2>5. /\ Settled(d, {p}) = Settled(d, {})
        /\ Settled(d, {})' = Settled(d, {}) + AllocatedTo(list, d)
    BY <2>1, <2>2, <2>3, <2>4, SettledMore
  <2>6. CASE AllocatedTo(list, d) = 0
    BY <1>1, <2>5, <2>6
  <2>7. ASSUME NEW i \in DOMAIN list, list[i].target = d, AllocatedTo(list, d) = list[i].amount
        PROVE  Settled(d, {})' <= GrandTotal[d]
    <3>1. Settled(d, {p}) + list[i].amount <= GrandTotal[d]
      BY <2>2, <2>3, <2>7 DEF ValidateOutstanding
    <3>. QED
      BY <2>5, <2>7, <3>1
  <2>. QED
    BY <2>6, <2>7, AllocatedOnce
<1>3. ASSUME NEW p \in Payments, ReversePayment(p) PROVE Settled(d, {})' <= GrandTotal[d]
  <2>1. payments[p].status = "POSTED"
    BY <1>3 DEF ReversePayment
  <2>2. /\ payments'[p].status = "REVERSED"
        /\ \A q \in Payments \ {p} : payments'[q] = payments[q]
    <3>1. payments'[p] = [status |-> "REVERSED", data |-> payments[p].data,
                          number |-> payments[p].number]
      BY <1>3, PaymentReversed
    <3>2. \A q \in Payments \ {p} : payments'[q] = payments[q]
      BY <1>3, PaymentReversed
    <3>. QED
      BY <3>1, <3>2
  <2>. QED
    BY <1>1, <2>1, <2>2, SettledLess
<1>4. ASSUME \A p \in Payments :
                /\ payments'[p].status = "POSTED" <=> payments[p].status = "POSTED"
                /\ payments[p].status = "POSTED" => payments'[p].data = payments[p].data
      PROVE  Settled(d, {})' <= GrandTotal[d]
  BY <1>1, <1>4, SettledKept
<1>5. CASE payments' = payments
  BY <1>4, <1>5
<1>6. ASSUME NEW p \in Payments, DraftingPayment(p) PROVE Settled(d, {})' <= GrandTotal[d]
  BY <1>4, <1>6 DEF DraftingPayment, Posted
<1>7. \/ \E p \in Payments : DraftingPayment(p) \/ PostPayment(p) \/ ReversePayment(p)
      \/ payments' = payments
  BY DEF Shape, Elsewhere, CreateAccount, EditingExpense, PostExpense, CancelExpense,
         CreateTransfer, ReverseTransfer, rows
<1>. QED
  BY <1>2, <1>3, <1>5, <1>6, <1>7

-----------------------------------------------------------------------------
(* What the books add up to.                                               *)

(* An account that does not exist was opened with nothing. *)
AbsentUnopened == \A a \in Accounts : account[a].state = "ABSENT" => account[a].opening = 0

Opened == [a \in Accounts |-> account[a].opening]
Paid == [p \in {q \in Payments : payments[q].status = "POSTED"} |->
            PaymentDelta(payments[p].data)]
Spent == [e \in {x \in Expenses : expenses[x].status = "POSTED"} |-> expenses[e].data.amount]

BooksFinite ==
    /\ IsFiniteSet(Accounts) /\ DOMAIN balance = Accounts /\ \A a \in Accounts : balance[a] \in Int
    /\ DOMAIN Opened = Accounts /\ \A a \in Accounts : Opened[a] \in Int
    /\ IsFiniteSet(DOMAIN Paid) /\ \A p \in DOMAIN Paid : Paid[p] \in Int
    /\ IsFiniteSet(DOMAIN Spent) /\ \A e \in DOMAIN Spent : Spent[e] \in Int
    /\ SumOf(balance) \in Int /\ SumOf(Opened) \in Int
    /\ SumOf(Paid) \in Int /\ SumOf(Spent) \in Int

LEMMA BooksBalanceDef ==
    BooksBalance <=> SumOf(balance) = SumOf(Opened) + SumOf(Paid) - SumOf(Spent)
BY DEF BooksBalance, Opened, Paid, Spent

LEMMA BooksType == TypeOK => BooksFinite
<1> SUFFICES ASSUME TypeOK PROVE BooksFinite
  OBVIOUS
<1>1. IsFiniteSet(Accounts) /\ IsFiniteSet(Payments) /\ IsFiniteSet(Expenses)
  BY FinanceAssumption
<1>2. DOMAIN balance = Accounts /\ \A a \in Accounts : balance[a] \in Int
  BY DEF TypeOK
<1>3. DOMAIN Opened = Accounts /\ \A a \in Accounts : Opened[a] \in Int
  BY DEF TypeOK, Opened
<1>4. IsFiniteSet(DOMAIN Paid) /\ \A p \in DOMAIN Paid : Paid[p] \in Int
  <2>1. DOMAIN Paid \subseteq Payments
    BY DEF Paid
  <2>2. \A p \in DOMAIN Paid : Paid[p] \in Int
    BY PaymentRow DEF Paid
  <2>. QED
    BY <1>1, <2>1, <2>2, FS_Subset
<1>5. IsFiniteSet(DOMAIN Spent) /\ \A e \in DOMAIN Spent : Spent[e] \in Int
  <2>1. DOMAIN Spent \subseteq Expenses
    BY DEF Spent
  <2>2. \A e \in DOMAIN Spent : Spent[e] \in Int
    BY ExpenseRow DEF Spent
  <2>. QED
    BY <1>1, <2>1, <2>2, FS_Subset
<1>6. SumOf(balance) \in Int /\ SumOf(Opened) \in Int
  BY <1>1, <1>2, <1>3, SumOfType
<1>7. SumOf(Paid) \in Int /\ SumOf(Spent) \in Int
  BY <1>4, <1>5, SumOfType
<1>. QED
  BY <1>1, <1>2, <1>3, <1>4, <1>5, <1>6, <1>7 DEF BooksFinite

LEMMA BooksTypeNext == TypeOK' => BooksFinite'
BY BooksType, PTL

(* One account of the books changes. *)
LEMMA TotalChanged ==
    ASSUME TypeOK, TypeOK', NEW a \in Accounts,
           \A b \in Accounts \ {a} : balance'[b] = balance[b]
    PROVE  SumOf(balance') = SumOf(balance) + (balance'[a] - balance[a])
<1> DEFINE f == balance
           h == balance'
<1>1. /\ IsFiniteSet(DOMAIN f) /\ DOMAIN h = DOMAIN f /\ a \in DOMAIN f
      /\ \A y \in DOMAIN f : f[y] \in Int /\ h[y] \in Int
      /\ \A y \in DOMAIN f : y # a => h[y] = f[y]
  BY FinanceAssumption DEF TypeOK
<1> HIDE DEF f, h
<1>2. SumOf(h) = SumOf(f) + (h[a] - f[a])
  BY <1>1, SumOfChanged
<1>. QED
  BY <1>2 DEF f, h

LEMMA TotalMoved ==
    ASSUME TypeOK, TypeOK', NEW a \in Accounts, NEW m, m.delta \in Int,
           ChangeBalance([x \in {a} |-> m])
    PROVE  SumOf(balance') = SumOf(balance) + m.delta
<1> DEFINE moves == [x \in {a} |-> m]
<1>1. ChangeBalance(moves) /\ DOMAIN moves = {a} /\ moves[a] = m
  OBVIOUS
<1> HIDE DEF moves
<1>2. balance'[a] = balance[a] + m.delta
  BY <1>1, LogChange
<1>3. \A b \in Accounts \ {a} : balance'[b] = balance[b]
  BY <1>1, LogChange
<1>4. balance[a] \in Int
  BY DEF TypeOK
<1>5. SumOf(balance') = SumOf(balance) + (balance'[a] - balance[a])
  BY <1>3, TotalChanged
<1>. QED
  BY <1>2, <1>4, <1>5

(* The two moves of a transfer cancel out. *)
LEMMA TotalTransferred ==
    ASSUME TypeOK, TypeOK', NEW t \in Transfers, NEW dto \in TransferDto, dto.from # dto.to,
           NEW k1, NEW k2, NEW amount \in Int,
           ChangeBalance(TransferMoves(t, dto, k1, k2, amount))
    PROVE  SumOf(balance') = SumOf(balance)
<1> DEFINE a == dto.from
           b == dto.to
           f == balance
           g == [balance EXCEPT ![a] = @ - amount]
           h == balance'
           moves == TransferMoves(t, dto, k1, k2, amount)
<1>1. a \in Accounts /\ b \in Accounts /\ a # b
  BY TransferDtoFields
<1>2. /\ ChangeBalance(moves)
      /\ DOMAIN moves = {a, b}
      /\ moves[a].delta = -amount
      /\ moves[b].delta = amount
  BY DEF TransferMoves, Move
<1>3. /\ IsFiniteSet(DOMAIN f) /\ DOMAIN f = Accounts /\ DOMAIN h = Accounts
      /\ \A x \in Accounts : f[x] \in Int /\ h[x] \in Int
  BY FinanceAssumption DEF TypeOK
<1> HIDE DEF a, b, moves
<1>4. /\ DOMAIN g = Accounts
      /\ \A x \in Accounts : g[x] = IF x = a THEN f[x] - amount ELSE f[x]
  BY <1>3
<1>5. \A x \in Accounts : h[x] = IF x = a THEN f[x] + (-amount)
                                 ELSE IF x = b THEN f[x] + amount ELSE f[x]
  BY <1>1, <1>2, LogChange
<1> HIDE DEF f, g, h
<1>6. \A x \in Accounts : g[x] \in Int
  BY <1>3, <1>4
<1>7. SumOf(g) = SumOf(f) + (g[a] - f[a])
  BY <1>1, <1>3, <1>4, <1>6, SumOfChanged
<1>8. \A x \in Accounts : x # b => h[x] = g[x]
  BY <1>3, <1>4, <1>5
<1>9. SumOf(h) = SumOf(g) + (h[b] - g[b])
  BY <1>1, <1>3, <1>4, <1>6, <1>8, SumOfChanged
<1>10. SumOf(f) \in Int
  BY <1>3, SumOfType
<1>11. g[a] - f[a] = -amount /\ h[b] - g[b] = amount
  BY <1>1, <1>3, <1>4, <1>5
<1>12. SumOf(h) = SumOf(f)
  BY <1>7, <1>9, <1>10, <1>11
<1>. QED
  BY <1>12 DEF f, h

LEMMA PaymentDtoFields ==
    ASSUME NEW dto \in PaymentDto
    PROVE  dto.account \in Accounts /\ PaymentDelta(dto) \in Int
<1>1. dto.account \in Accounts
  BY DEF PaymentDto
<1>2. dto.amount \in Nat
  BY AmountsAreNaturals DEF PaymentDto
<1>3. PaymentDelta(dto) \in Int
  BY <1>2 DEF PaymentDelta
<1>. QED
  BY <1>1, <1>3

LEMMA ExpenseDtoFields ==
    ASSUME NEW dto \in ExpenseDto
    PROVE  dto.account \in Accounts /\ dto.amount \in Int
<1>1. dto.account \in Accounts
  BY DEF ExpenseDto
<1>2. dto.amount \in Nat
  BY AmountsAreNaturals DEF ExpenseDto
<1>. QED
  BY <1>1, <1>2

LEMMA PaidChanges ==
    ASSUME TypeOK, TypeOK', NEW p \in Payments, payments'[p].data = payments[p].data,
           \A q \in Payments \ {p} : payments'[q] = payments[q]
    PROVE  /\ payments[p].status # "POSTED" /\ payments'[p].status = "POSTED"
                => SumOf(Paid') = SumOf(Paid) + PaymentDelta(payments[p].data)
           /\ payments[p].status = "POSTED" /\ payments'[p].status # "POSTED"
                => SumOf(Paid) = SumOf(Paid') + PaymentDelta(payments[p].data)
<1> DEFINE f == Paid
           h == Paid'
           amount == PaymentDelta(payments[p].data)
<1>1. /\ IsFiniteSet(DOMAIN f) /\ \A q \in DOMAIN f : f[q] \in Int
      /\ IsFiniteSet(DOMAIN h) /\ \A q \in DOMAIN h : h[q] \in Int
  BY BooksType, BooksTypeNext DEF BooksFinite
<1>2. \A q \in DOMAIN f \ {p} : q \in DOMAIN h /\ h[q] = f[q]
  BY DEF Paid
<1>3. \A q \in DOMAIN h \ {p} : q \in DOMAIN f
  BY DEF Paid
<1>4. /\ payments[p].status = "POSTED" => p \in DOMAIN f /\ f[p] = amount
      /\ payments[p].status # "POSTED" => p \notin DOMAIN f
      /\ payments'[p].status = "POSTED" => p \in DOMAIN h /\ h[p] = amount
      /\ payments'[p].status # "POSTED" => p \notin DOMAIN h
  BY DEF Paid
<1> HIDE DEF f, h, amount
<1>5. ASSUME payments[p].status # "POSTED", payments'[p].status = "POSTED"
      PROVE  SumOf(h) = SumOf(f) + amount
  <2>1. p \in DOMAIN h /\ DOMAIN f = DOMAIN h \ {p} /\ \A q \in DOMAIN f : f[q] = h[q]
    BY <1>2, <1>3, <1>4, <1>5
  <2>2. SumOf(h) = SumOf(f) + h[p]
    BY <1>1, <2>1, SumOfAdded
  <2>. QED
    BY <1>4, <1>5, <2>2
<1>6. ASSUME payments[p].status = "POSTED", payments'[p].status # "POSTED"
      PROVE  SumOf(f) = SumOf(h) + amount
  <2>1. p \in DOMAIN f /\ DOMAIN h = DOMAIN f \ {p} /\ \A q \in DOMAIN h : h[q] = f[q]
    BY <1>2, <1>3, <1>4, <1>6
  <2>2. SumOf(f) = SumOf(h) + f[p]
    BY <1>1, <2>1, SumOfAdded
  <2>. QED
    BY <1>4, <1>6, <2>2
<1>. QED
  BY <1>5, <1>6 DEF f, h, amount

LEMMA SpentChanges ==
    ASSUME TypeOK, TypeOK', NEW e \in Expenses, expenses'[e].data = expenses[e].data,
           \A x \in Expenses \ {e} : expenses'[x] = expenses[x]
    PROVE  /\ expenses[e].status # "POSTED" /\ expenses'[e].status = "POSTED"
                => SumOf(Spent') = SumOf(Spent) + expenses[e].data.amount
           /\ expenses[e].status = "POSTED" /\ expenses'[e].status # "POSTED"
                => SumOf(Spent) = SumOf(Spent') + expenses[e].data.amount
<1> DEFINE f == Spent
           h == Spent'
           amount == expenses[e].data.amount
<1>1. /\ IsFiniteSet(DOMAIN f) /\ \A q \in DOMAIN f : f[q] \in Int
      /\ IsFiniteSet(DOMAIN h) /\ \A q \in DOMAIN h : h[q] \in Int
  BY BooksType, BooksTypeNext DEF BooksFinite
<1>2. \A q \in DOMAIN f \ {e} : q \in DOMAIN h /\ h[q] = f[q]
  BY DEF Spent
<1>3. \A q \in DOMAIN h \ {e} : q \in DOMAIN f
  BY DEF Spent
<1>4. /\ expenses[e].status = "POSTED" => e \in DOMAIN f /\ f[e] = amount
      /\ expenses[e].status # "POSTED" => e \notin DOMAIN f
      /\ expenses'[e].status = "POSTED" => e \in DOMAIN h /\ h[e] = amount
      /\ expenses'[e].status # "POSTED" => e \notin DOMAIN h
  BY DEF Spent
<1> HIDE DEF f, h, amount
<1>5. ASSUME expenses[e].status # "POSTED", expenses'[e].status = "POSTED"
      PROVE  SumOf(h) = SumOf(f) + amount
  <2>1. e \in DOMAIN h /\ DOMAIN f = DOMAIN h \ {e} /\ \A q \in DOMAIN f : f[q] = h[q]
    BY <1>2, <1>3, <1>4, <1>5
  <2>2. SumOf(h) = SumOf(f) + h[e]
    BY <1>1, <2>1, SumOfAdded
  <2>. QED
    BY <1>4, <1>5, <2>2
<1>6. ASSUME expenses[e].status = "POSTED", expenses'[e].status # "POSTED"
      PROVE  SumOf(f) = SumOf(h) + amount
  <2>1. e \in DOMAIN f /\ DOMAIN h = DOMAIN f \ {e} /\ \A q \in DOMAIN h : h[q] = f[q]
    BY <1>2, <1>3, <1>4, <1>6
  <2>2. SumOf(f) = SumOf(h) + f[e]
    BY <1>1, <2>1, SumOfAdded
  <2>. QED
    BY <1>4, <1>6, <2>2
<1>. QED
  BY <1>5, <1>6 DEF f, h, amount

LEMMA TermsKept ==
    /\ (\A a \in Accounts : account'[a].opening = account[a].opening) => Opened' = Opened
    /\ (\A p \in Payments :
          /\ payments'[p].status = "POSTED" <=> payments[p].status = "POSTED"
          /\ payments[p].status = "POSTED" => payments'[p].data = payments[p].data)
       => Paid' = Paid
    /\ (\A e \in Expenses :
          /\ expenses'[e].status = "POSTED" <=> expenses[e].status = "POSTED"
          /\ expenses[e].status = "POSTED" => expenses'[e].data = expenses[e].data)
       => Spent' = Spent
<1>1. (\A a \in Accounts : account'[a].opening = account[a].opening) => Opened' = Opened
  BY DEF Opened
<1>2. ASSUME \A p \in Payments :
                /\ payments'[p].status = "POSTED" <=> payments[p].status = "POSTED"
                /\ payments[p].status = "POSTED" => payments'[p].data = payments[p].data
      PROVE  Paid' = Paid
  <2>1. {q \in Payments : payments'[q].status = "POSTED"}
        = {q \in Payments : payments[q].status = "POSTED"}
    BY <1>2
  <2>. QED
    BY <1>2, <2>1 DEF Paid
<1>3. ASSUME \A e \in Expenses :
                /\ expenses'[e].status = "POSTED" <=> expenses[e].status = "POSTED"
                /\ expenses[e].status = "POSTED" => expenses'[e].data = expenses[e].data
      PROVE  Spent' = Spent
  <2>1. {e \in Expenses : expenses'[e].status = "POSTED"}
        = {e \in Expenses : expenses[e].status = "POSTED"}
    BY <1>3
  <2>. QED
    BY <1>3, <2>1 DEF Spent
<1>. QED
  BY <1>1, <1>2, <1>3

(* What PostedExpenseFrozen says of one step. *)
ExpensesFrozen ==
    \A e \in Expenses :
        expenses[e].status \in {"POSTED", "CANCELLED"} =>
            expenses'[e] \in {expenses[e], [expenses[e] EXCEPT !.status = "CANCELLED"]}

LEMMA ShapeBalance ==
    ASSUME TypeOK, TypeOK', AbsentEmpty, AbsentUnopened, TwoAccounts, BooksBalance,
           ExpensesFrozen, Shape
    PROVE  BooksBalance'
<1> DEFINE Total == SumOf(balance)
           In == SumOf(Opened)
           Got == SumOf(Paid)
           Out == SumOf(Spent)
<1>1. /\ Total \in Int /\ In \in Int /\ Got \in Int /\ Out \in Int
      /\ SumOf(Paid') \in Int /\ SumOf(Spent') \in Int
  BY BooksType, BooksTypeNext DEF BooksFinite
<1>2. Total = In + Got - Out
  BY BooksBalanceDef
<1> SUFFICES SumOf(balance') = SumOf(Opened') + SumOf(Paid') - SumOf(Spent')
  BY DEF BooksBalance, Opened, Paid, Spent
<1> DEFINE Goal == SumOf(balance') = SumOf(Opened') + SumOf(Paid') - SumOf(Spent')
<1>3. UNCHANGED account => Opened' = Opened
  BY TermsKept
<1>4. UNCHANGED payments => Paid' = Paid
  BY TermsKept
<1>5. UNCHANGED expenses => Spent' = Spent
  BY TermsKept
<1>6. CASE Elsewhere
  <2>1. /\ balance' = balance /\ payments' = payments /\ expenses' = expenses
        /\ Opened' = Opened
    BY <1>6, TermsKept DEF Elsewhere
  <2>. QED
    BY <1>2, <1>4, <1>5, <2>1
<1>7. ASSUME NEW a \in Accounts, NEW opening \in Openings, NEW active \in BOOLEAN,
             CreateAccount(a, opening, active)
      PROVE  Goal
  <2>1. payments' = payments /\ expenses' = expenses /\ opening \in Nat
    BY <1>7, AmountsAreNaturals DEF CreateAccount, rows
  <2>2. /\ balance[a] = 0 /\ Opened[a] = 0
        /\ balance'[a] = opening /\ Opened'[a] = opening
    BY <1>7 DEF CreateAccount, AbsentEmpty, AbsentUnopened, Opened, TypeOK
  <2>3. \A b \in Accounts \ {a} : balance'[b] = balance[b] /\ Opened'[b] = Opened[b]
    BY <1>7 DEF CreateAccount, Opened, TypeOK
  <2>4. SumOf(balance') = Total + opening
    <3>1. SumOf(balance') = Total + (balance'[a] - balance[a])
      BY <2>3, TotalChanged
    <3>. QED
      BY <2>1, <2>2, <3>1
  <2>5. SumOf(Opened') = In + opening
    <3> DEFINE f == Opened
               h == Opened'
    <3>1. /\ IsFiniteSet(DOMAIN f) /\ DOMAIN h = DOMAIN f /\ a \in DOMAIN f
          /\ \A y \in DOMAIN f : f[y] \in Int /\ h[y] \in Int
          /\ \A y \in DOMAIN f : y # a => h[y] = f[y]
          /\ f[a] = 0 /\ h[a] = opening
      BY <2>2, <2>3, BooksType, BooksTypeNext DEF BooksFinite
    <3> HIDE DEF f, h
    <3>2. SumOf(h) = SumOf(f) + (h[a] - f[a])
      BY <3>1, SumOfChanged
    <3>3. SumOf(h) = SumOf(f) + opening
      BY <2>1, <3>1, <3>2
    <3>. QED
      BY <3>3 DEF f, h
  <2> HIDE DEF Total, In, Got, Out
  <2>6. SumOf(Paid') = Got /\ SumOf(Spent') = Out
    BY <1>4, <1>5, <2>1 DEF Got, Out
  <2>. QED
    BY <1>1, <1>2, <2>1, <2>4, <2>5, <2>6
<1>8. ASSUME NEW p \in Payments, DraftingPayment(p) PROVE Goal
  <2>1. /\ balance' = balance /\ account' = account /\ expenses' = expenses
        /\ Paid' = Paid
    BY <1>8, TermsKept DEF DraftingPayment, Posted, books
  <2>. QED
    BY <1>2, <1>3, <1>5, <2>1
<1>9. ASSUME NEW p \in Payments, PostPayment(p) PROVE Goal
  <2>1. PICK dto \in PaymentDto : dto = payments[p].data
    BY <1>9, PaymentPosted
  <2>2. dto.account \in Accounts /\ PaymentDelta(dto) \in Int
    BY PaymentDtoFields
  <2>3. PICK m : m = Move(dto.type, PaymentDelta(dto), p)
    OBVIOUS
  <2>4. /\ ChangeBalance([x \in {dto.account} |-> m]) /\ m.delta = PaymentDelta(dto)
        /\ account' = account /\ expenses' = expenses
    BY <1>9, <2>1, <2>3 DEF PostPayment, Move, ChangeBalance
  <2>5. SumOf(balance') = Total + PaymentDelta(dto)
    BY <2>2, <2>4, TotalMoved
  <2>6. /\ payments[p].status # "POSTED"
        /\ payments'[p].status = "POSTED" /\ payments'[p].data = payments[p].data
        /\ \A q \in Payments \ {p} : payments'[q] = payments[q]
    <3>1. payments[p].status # "POSTED"
      BY <1>9 DEF PostPayment
    <3>2. /\ payments'[p].status = "POSTED" /\ payments'[p].data = payments[p].data
          /\ \A q \in Payments \ {p} : payments'[q] = payments[q]
      BY <1>9, PaymentPosted
    <3>. QED
      BY <3>1, <3>2
  <2>7. SumOf(Paid') = Got + PaymentDelta(dto)
    BY <2>1, <2>6, PaidChanges
  <2> HIDE DEF Total, In, Got, Out
  <2>8. SumOf(Opened') = In /\ SumOf(Spent') = Out
    BY <1>3, <1>5, <2>4 DEF In, Out
  <2>. QED
    BY <1>1, <1>2, <2>2, <2>5, <2>7, <2>8
<1>10. ASSUME NEW p \in Payments, ReversePayment(p) PROVE Goal
  <2>1. PICK dto \in PaymentDto : dto = payments[p].data
    BY <1>10, PaymentReversed
  <2>2. dto.account \in Accounts /\ PaymentDelta(dto) \in Int
    BY PaymentDtoFields
  <2>3. PICK m : m = Move("PAYMENT_REVERSAL", -PaymentDelta(dto), p)
    OBVIOUS
  <2>4. /\ ChangeBalance([x \in {dto.account} |-> m]) /\ m.delta = -PaymentDelta(dto)
        /\ account' = account /\ expenses' = expenses
    BY <1>10, <2>1, <2>3 DEF ReversePayment, Move, ChangeBalance
  <2>5. SumOf(balance') = Total + (-PaymentDelta(dto))
    <3>1. m.delta \in Int
      BY <2>2, <2>4
    <3>. QED
      BY <2>2, <2>4, <3>1, TotalMoved
  <2>6. /\ payments[p].status = "POSTED"
        /\ payments'[p].status # "POSTED" /\ payments'[p].data = payments[p].data
        /\ \A q \in Payments \ {p} : payments'[q] = payments[q]
    <3>1. payments[p].status = "POSTED"
      BY <1>10 DEF ReversePayment
    <3>2. payments'[p] = [status |-> "REVERSED", data |-> payments[p].data,
                          number |-> payments[p].number]
      BY <1>10, PaymentReversed
    <3>3. \A q \in Payments \ {p} : payments'[q] = payments[q]
      BY <1>10, PaymentReversed
    <3>. QED
      BY <3>1, <3>2, <3>3
  <2>7. Got = SumOf(Paid') + PaymentDelta(dto)
    BY <2>1, <2>6, PaidChanges
  <2> HIDE DEF Total, In, Got, Out
  <2>8. SumOf(Opened') = In /\ SumOf(Spent') = Out
    BY <1>3, <1>5, <2>4 DEF In, Out
  <2>. QED
    BY <1>1, <1>2, <2>2, <2>5, <2>7, <2>8
<1>11. ASSUME NEW e \in Expenses, EditingExpense(e) PROVE Goal
  <2>1. /\ balance' = balance /\ account' = account /\ payments' = payments
        /\ \A x \in Expenses \ {e} : expenses'[x] = expenses[x]
    BY <1>11 DEF EditingExpense, books
  <2>2. expenses'[e].status = "POSTED" <=> expenses[e].status = "POSTED"
    BY <1>11 DEF EditingExpense, Posted
  <2>3. expenses[e].status = "POSTED" => expenses'[e].data = expenses[e].data
    <3>1. ASSUME expenses[e].status = "POSTED"
          PROVE  [expenses[e] EXCEPT !.status = "CANCELLED"].data = expenses[e].data
      <4>1. expenses[e] \in [status : {"DRAFT", "POSTED", "CANCELLED"}, data : ExpenseDto,
                             number : (Years \X Nat) \cup {NoNumber}]
        BY <3>1 DEF TypeOK, ExpenseRows, Rows, Absent
      <4>. QED
        BY <4>1
    <3>. QED
      BY <3>1 DEF ExpensesFrozen
  <2>4. Spent' = Spent
    BY <2>1, <2>2, <2>3, TermsKept
  <2>. QED
    BY <1>2, <1>3, <1>4, <2>1, <2>4
<1>12. ASSUME NEW e \in Expenses, PostExpense(e) PROVE Goal
  <2>1. PICK dto \in ExpenseDto : dto = expenses[e].data
    BY <1>12, ExpensePosted
  <2>2. dto.account \in Accounts /\ dto.amount \in Int
    BY ExpenseDtoFields
  <2>3. PICK m : m = Move("EXPENSE", -dto.amount, e)
    OBVIOUS
  <2>4. /\ ChangeBalance([x \in {dto.account} |-> m]) /\ m.delta = -dto.amount
        /\ account' = account /\ payments' = payments
    BY <1>12, <2>1, <2>3 DEF PostExpense, Move, ChangeBalance
  <2>5. SumOf(balance') = Total + (-dto.amount)
    <3>1. m.delta \in Int
      BY <2>2, <2>4
    <3>. QED
      BY <2>2, <2>4, <3>1, TotalMoved
  <2>6. /\ expenses[e].status # "POSTED"
        /\ expenses'[e].status = "POSTED" /\ expenses'[e].data = expenses[e].data
        /\ \A x \in Expenses \ {e} : expenses'[x] = expenses[x]
    <3>1. expenses[e].status # "POSTED"
      BY <1>12 DEF PostExpense
    <3>2. /\ expenses'[e].status = "POSTED" /\ expenses'[e].data = expenses[e].data
          /\ \A x \in Expenses \ {e} : expenses'[x] = expenses[x]
      BY <1>12, ExpensePosted
    <3>. QED
      BY <3>1, <3>2
  <2>7. SumOf(Spent') = Out + dto.amount
    BY <2>1, <2>6, SpentChanges
  <2> HIDE DEF Total, In, Got, Out
  <2>8. SumOf(Opened') = In /\ SumOf(Paid') = Got
    BY <1>3, <1>4, <2>4 DEF In, Got
  <2>. QED
    BY <1>1, <1>2, <2>2, <2>5, <2>7, <2>8
<1>13. ASSUME NEW e \in Expenses, CancelExpense(e) PROVE Goal
  <2>1. PICK dto \in ExpenseDto : dto = expenses[e].data
    BY <1>13, ExpenseCancelled
  <2>2. dto.account \in Accounts /\ dto.amount \in Int
    BY ExpenseDtoFields
  <2>3. PICK m : m = Move("EXPENSE_REVERSAL", dto.amount, e)
    OBVIOUS
  <2>4. /\ ChangeBalance([x \in {dto.account} |-> m]) /\ m.delta = dto.amount
        /\ account' = account /\ payments' = payments
    BY <1>13, <2>1, <2>3 DEF CancelExpense, Move, ChangeBalance
  <2>5. SumOf(balance') = Total + dto.amount
    BY <2>2, <2>4, TotalMoved
  <2>6. /\ expenses[e].status = "POSTED"
        /\ expenses'[e].status # "POSTED" /\ expenses'[e].data = expenses[e].data
        /\ \A x \in Expenses \ {e} : expenses'[x] = expenses[x]
    <3>1. expenses[e].status = "POSTED"
      BY <1>13 DEF CancelExpense
    <3>2. expenses'[e] = [status |-> "CANCELLED", data |-> expenses[e].data,
                          number |-> expenses[e].number]
      BY <1>13, ExpenseCancelled
    <3>3. \A x \in Expenses \ {e} : expenses'[x] = expenses[x]
      BY <1>13, ExpenseCancelled
    <3>. QED
      BY <3>1, <3>2, <3>3
  <2>7. Out = SumOf(Spent') + dto.amount
    BY <2>1, <2>6, SpentChanges
  <2> HIDE DEF Total, In, Got, Out
  <2>8. SumOf(Opened') = In /\ SumOf(Paid') = Got
    BY <1>3, <1>4, <2>4 DEF In, Got
  <2>. QED
    BY <1>1, <1>2, <2>2, <2>5, <2>7, <2>8
<1>14. ASSUME NEW t \in Transfers, NEW dto \in TransferDto, CreateTransfer(t, dto) PROVE Goal
  <2>1. /\ dto.from # dto.to
        /\ ChangeBalance(TransferMoves(t, dto, "TRANSFER_OUT", "TRANSFER_IN", dto.amount))
        /\ account' = account /\ payments' = payments /\ expenses' = expenses
    BY <1>14 DEF CreateTransfer, ChangeBalance
  <2>2. dto.amount \in Int
    BY TransferDtoFields
  <2>3. SumOf(balance') = Total
    BY <2>1, <2>2, TotalTransferred
  <2>. QED
    BY <1>2, <1>3, <1>4, <1>5, <2>1, <2>3
<1>15. ASSUME NEW t \in Transfers, ReverseTransfer(t) PROVE Goal
  <2>1. PICK dto \in TransferDto : dto = transfers[t].data
    BY <1>15, TransferReversed
  <2>2. PICK amount \in Int : amount = -dto.amount
    BY TransferDtoFields
  <2>3. /\ transfers[t].status = "POSTED"
        /\ ChangeBalance(TransferMoves(t, dto, "TRANSFER_REVERSAL", "TRANSFER_REVERSAL", amount))
        /\ account' = account /\ payments' = payments /\ expenses' = expenses
    BY <1>15, <2>1, <2>2 DEF ReverseTransfer, ChangeBalance
  <2>4. dto.from # dto.to
    BY <2>1, <2>3 DEF TwoAccounts
  <2>5. SumOf(balance') = Total
    BY <2>3, <2>4, TotalTransferred
  <2>. QED
    BY <1>2, <1>3, <1>4, <1>5, <2>3, <2>5
<1> HIDE DEF Goal
<1>16. Goal
  BY <1>6, <1>7, <1>8, <1>9, <1>10, <1>11, <1>12, <1>13, <1>14, <1>15 DEF Shape, Goal
<1>. QED
  BY <1>16 DEF Goal

-----------------------------------------------------------------------------
(* The steps of the abstract specification.                                *)

Items == Payments \cup Transfers

PhaseAt(i) == IF i \in Payments THEN PhaseOf(payments[i].status) ELSE PhaseOf(transfers[i].status)

EffectAt(i) ==
    IF PhaseAt(i) = "idle" THEN [a \in Accounts |-> 0]
    ELSE IF i \in Payments THEN PaymentEffect(payments[i].data)
    ELSE TransferEffect(transfers[i].data)

Posting(i) == [phase |-> PhaseAt(i), effect |-> EffectAt(i)]

(* The mapping of the refinement, item by item. *)
PostingMap == [i \in Items |-> Posting(i)]

MapIsPosting ==
    PostingMap = [i \in Payments \cup Transfers |->
                     IF i \in Payments THEN PostingOf(payments[i], PaymentEffect)
                                       ELSE PostingOf(transfers[i], TransferEffect)]

LEMMA PostingMapIs == MapIsPosting
<1>1. \A i \in Payments : PostingOf(payments[i], PaymentEffect) = Posting(i)
  BY DEF PostingOf, Posting, PhaseAt, EffectAt
<1>2. \A i \in Transfers : i \notin Payments
  BY DistinctRefs
<1>3. \A i \in Transfers : PostingOf(transfers[i], TransferEffect) = Posting(i)
  BY <1>2 DEF PostingOf, Posting, PhaseAt, EffectAt
<1>. QED
  BY <1>1, <1>2, <1>3 DEF MapIsPosting, PostingMap, Items

LEMMA PostingMapNext == MapIsPosting'
BY PostingMapIs, PTL

LEMMA BookInit == Init => Book!Init
<1> SUFFICES ASSUME Init PROVE Book!Init
  OBVIOUS
<1>1. \A i \in Items : PhaseAt(i) = "idle"
  BY DEF Init, Absent, Items, PhaseAt, PhaseOf
<1>2. PostingMap = [i \in Payments \cup Transfers |->
                       [phase |-> "idle", effect |-> [a \in Accounts |-> 0]]]
  BY <1>1 DEF PostingMap, Posting, EffectAt, Items
<1>3. balance = [a \in Accounts |-> 0]
  BY DEF Init
<1>. QED
  BY <1>2, <1>3, PostingMapIs DEF MapIsPosting, Book!Init, Book!Idle, Book!NoEffect

LEMMA BookAdjusts ==
    ASSUME TypeOK, TypeOK', payments' = payments, transfers' = transfers,
           NEW a \in Accounts, \A b \in Accounts \ {a} : balance'[b] = balance[b]
    PROVE  Book!Next
<1>1. balance' = [balance EXCEPT ![a] = balance'[a]]
  BY DEF TypeOK
<1>2. PostingMap' = PostingMap
  BY DEF PostingMap, Posting, PhaseAt, EffectAt
<1>3. Book!Adjust(a)
  BY <1>1, <1>2, PostingMapIs, PostingMapNext DEF MapIsPosting, Book!Adjust
<1>. QED
  BY <1>3 DEF Book!Next

LEMMA BookStutters ==
    ASSUME balance' = balance, \A i \in Items : Posting(i)' = Posting(i)
    PROVE  UNCHANGED Book!vars
<1>1. PostingMap' = PostingMap
  BY DEF PostingMap
<1>. QED
  BY <1>1, PostingMapIs, PostingMapNext DEF MapIsPosting, Book!vars

(* An item takes effect, and is undone, with exactly its own effect. *)
LEMMA BookApplies ==
    ASSUME TypeOK, TypeOK', NEW i \in Items, PhaseAt(i) = "idle", PhaseAt(i)' = "applied",
           \A j \in Items \ {i} : Posting(j)' = Posting(j),
           \A a \in Accounts : balance'[a] = balance[a] + EffectAt(i)'[a] /\ EffectAt(i)'[a] \in Int,
           EffectAt(i)' = [a \in Accounts |-> EffectAt(i)'[a]]
    PROVE  Book!Next
<1> DEFINE change == [a \in Accounts |-> balance'[a] - balance[a]]
<1>1. \A a \in Accounts : balance[a] \in Int
  BY DEF TypeOK
<1>2. \A a \in Accounts : EffectAt(i)'[a] = balance'[a] - balance[a]
  BY <1>1
<1>3. EffectAt(i)' = change
  BY <1>2
<1> HIDE DEF change
<1>4. Posting(i)' = [phase |-> "applied", effect |-> change]
  BY <1>3 DEF Posting
<1>5. PostingMap' = [PostingMap EXCEPT ![i] = [phase |-> "applied", effect |-> change]]
  BY <1>4 DEF PostingMap
<1>6. PostingMap[i].phase = "idle"
  BY DEF PostingMap, Posting
<1>7. Book!Apply(i)
  BY <1>5, <1>6, PostingMapIs, PostingMapNext DEF MapIsPosting, Book!Apply, Book!Change, change
<1>. QED
  BY <1>7 DEF Book!Next, Items

LEMMA BookUndoes ==
    ASSUME TypeOK, TypeOK', NEW i \in Items, PhaseAt(i) = "applied", PhaseAt(i)' = "undone",
           EffectAt(i)' = EffectAt(i),
           \A j \in Items \ {i} : Posting(j)' = Posting(j),
           \A a \in Accounts : balance'[a] = balance[a] - EffectAt(i)[a]
    PROVE  Book!Next
<1>1. Posting(i)' = [Posting(i) EXCEPT !.phase = "undone"]
  BY DEF Posting
<1>2. PostingMap' = [PostingMap EXCEPT ![i].phase = "undone"]
  BY <1>1 DEF PostingMap
<1>3. PostingMap[i].phase = "applied" /\ PostingMap[i].effect = EffectAt(i)
  BY DEF PostingMap, Posting
<1>4. balance' = [a \in Accounts |-> balance[a] - PostingMap[i].effect[a]]
  BY <1>3 DEF TypeOK
<1>5. Book!Undo(i)
  BY <1>2, <1>3, <1>4, PostingMapIs, PostingMapNext DEF MapIsPosting, Book!Undo
<1>. QED
  BY <1>5 DEF Book!Next, Items

LEMMA OneBalance ==
    ASSUME TypeOK, NEW a \in Accounts, NEW m, ChangeBalance([x \in {a} |-> m])
    PROVE  \A b \in Accounts : balance'[b] = IF b = a THEN balance[b] + m.delta ELSE balance[b]
<1> DEFINE moves == [x \in {a} |-> m]
<1>1. ChangeBalance(moves) /\ DOMAIN moves = {a} /\ moves[a] = m
  OBVIOUS
<1> HIDE DEF moves
<1>. QED
  BY <1>1, LogChange

LEMMA TransferBalances ==
    ASSUME TypeOK, NEW t \in Transfers, NEW dto \in TransferDto, NEW k1, NEW k2, NEW amount,
           ChangeBalance(TransferMoves(t, dto, k1, k2, amount))
    PROVE  \A b \in Accounts : balance'[b] = IF b = dto.from THEN balance[b] + (-amount)
                                             ELSE IF b = dto.to THEN balance[b] + amount
                                             ELSE balance[b]
<1> DEFINE moves == TransferMoves(t, dto, k1, k2, amount)
<1>1. /\ ChangeBalance(moves)
      /\ DOMAIN moves = {dto.from, dto.to}
      /\ \A a \in DOMAIN moves : moves[a].delta = IF a = dto.from THEN -amount ELSE amount
  BY DEF TransferMoves, Move
<1> HIDE DEF moves
<1>. QED
  BY <1>1, LogChange

LEMMA BookNext == ASSUME TypeOK, TypeOK', Shape PROVE [Book!Next]_(Book!vars)
<1>1. \A i : /\ i \in Payments /\ payments'[i] = payments[i] => Posting(i)' = Posting(i)
             /\ i \notin Payments /\ transfers'[i] = transfers[i] => Posting(i)' = Posting(i)
  BY DEF Posting, PhaseAt, EffectAt
<1>2. Transfers \cap Payments = {}
  BY DistinctRefs
<1>3. CASE Elsewhere
  BY <1>1, <1>3, BookStutters DEF Elsewhere
<1>4. ASSUME NEW a \in Accounts, NEW opening \in Openings, NEW active \in BOOLEAN,
             CreateAccount(a, opening, active)
      PROVE  Book!Next
  <2>1. payments' = payments /\ transfers' = transfers
        /\ \A b \in Accounts \ {a} : balance'[b] = balance[b]
    BY <1>4 DEF CreateAccount, rows, TypeOK
  <2>. QED
    BY <2>1, BookAdjusts
<1>5. ASSUME NEW p \in Payments, DraftingPayment(p) PROVE UNCHANGED Book!vars
  <2>1. /\ balance' = balance /\ transfers' = transfers
        /\ \A q \in Payments \ {p} : payments'[q] = payments[q]
    BY <1>5 DEF DraftingPayment, books
  <2>2. PhaseOf(payments[p].status) = "idle" /\ PhaseOf(payments[p].status)' = "idle"
    BY <1>5 DEF DraftingPayment, Posted, PhaseOf
  <2>3. Posting(p)' = Posting(p)
    BY <2>2 DEF Posting, PhaseAt, EffectAt
  <2>4. \A i \in Items : Posting(i)' = Posting(i)
    BY <1>1, <2>1, <2>3
  <2>. QED
    BY <2>1, <2>4, BookStutters
<1>6. ASSUME NEW p \in Payments, PostPayment(p) PROVE Book!Next
  <2>1. PICK dto \in PaymentDto : dto = payments[p].data
    BY <1>6, PaymentPosted
  <2>2. dto.account \in Accounts /\ PaymentDelta(dto) \in Int
    BY PaymentDtoFields
  <2>3. PICK m : m = Move(dto.type, PaymentDelta(dto), p)
    OBVIOUS
  <2>4. /\ ChangeBalance([x \in {dto.account} |-> m]) /\ m.delta = PaymentDelta(dto)
        /\ transfers' = transfers /\ payments[p].status = "DRAFT"
    BY <1>6, <2>1, <2>3 DEF PostPayment, Move
  <2>5. /\ payments'[p].status = "POSTED" /\ payments'[p].data = dto
        /\ \A q \in Payments \ {p} : payments'[q] = payments[q]
    BY <1>6, <2>1, PaymentPosted
  <2>6. PhaseAt(p) = "idle" /\ PhaseAt(p)' = "applied"
    BY <2>4, <2>5 DEF PhaseAt, PhaseOf
  <2>7. EffectAt(p)' = PaymentEffect(dto)
    BY <2>5, <2>6 DEF EffectAt, PaymentEffect
  <2>8. \A a \in Accounts : balance'[a] = balance[a] + PaymentEffect(dto)[a]
                            /\ PaymentEffect(dto)[a] \in Int
    <3>1. \A b \in Accounts : balance'[b] = IF b = dto.account THEN balance[b] + m.delta
                                                              ELSE balance[b]
      BY <2>2, <2>4, OneBalance
    <3>2. PaymentEffect(dto) = [a \in Accounts |-> IF a = dto.account THEN PaymentDelta(dto) ELSE 0]
      BY DEF PaymentEffect
    <3>3. \A a \in Accounts : balance[a] \in Int
      BY DEF TypeOK
    <3>. QED
      BY <2>2, <2>4, <3>1, <3>2, <3>3
  <2>9. PaymentEffect(dto) = [a \in Accounts |-> PaymentEffect(dto)[a]]
    BY DEF PaymentEffect
  <2>10. \A j \in Items \ {p} : Posting(j)' = Posting(j)
    BY <1>1, <2>4, <2>5
  <2>. QED
    BY <2>6, <2>7, <2>8, <2>9, <2>10, BookApplies DEF Items
<1>7. ASSUME NEW p \in Payments, ReversePayment(p) PROVE Book!Next
  <2>1. PICK dto \in PaymentDto : dto = payments[p].data
    BY <1>7, PaymentReversed
  <2>2. dto.account \in Accounts /\ PaymentDelta(dto) \in Int
    BY PaymentDtoFields
  <2>3. PICK m : m = Move("PAYMENT_REVERSAL", -PaymentDelta(dto), p)
    OBVIOUS
  <2>4. /\ ChangeBalance([x \in {dto.account} |-> m]) /\ m.delta = -PaymentDelta(dto)
        /\ transfers' = transfers /\ payments[p].status = "POSTED"
    BY <1>7, <2>1, <2>3 DEF ReversePayment, Move
  <2>5. /\ payments'[p].status = "REVERSED" /\ payments'[p].data = dto
        /\ \A q \in Payments \ {p} : payments'[q] = payments[q]
    <3>1. payments'[p] = [status |-> "REVERSED", data |-> payments[p].data,
                          number |-> payments[p].number]
      BY <1>7, PaymentReversed
    <3>2. \A q \in Payments \ {p} : payments'[q] = payments[q]
      BY <1>7, PaymentReversed
    <3>. QED
      BY <2>1, <3>1, <3>2
  <2>6. PhaseAt(p) = "applied" /\ PhaseAt(p)' = "undone"
    BY <2>4, <2>5 DEF PhaseAt, PhaseOf
  <2>7. EffectAt(p)' = PaymentEffect(dto) /\ EffectAt(p) = PaymentEffect(dto)
    BY <2>1, <2>5, <2>6 DEF EffectAt, PaymentEffect
  <2>8. \A a \in Accounts : balance'[a] = balance[a] - PaymentEffect(dto)[a]
    <3>1. \A b \in Accounts : balance'[b] = IF b = dto.account THEN balance[b] + m.delta
                                                              ELSE balance[b]
      BY <2>2, <2>4, OneBalance
    <3>2. PaymentEffect(dto) = [a \in Accounts |-> IF a = dto.account THEN PaymentDelta(dto) ELSE 0]
      BY DEF PaymentEffect
    <3>3. \A a \in Accounts : balance[a] \in Int
      BY DEF TypeOK
    <3>. QED
      BY <2>2, <2>4, <3>1, <3>2, <3>3
  <2>9. \A j \in Items \ {p} : Posting(j)' = Posting(j)
    BY <1>1, <2>4, <2>5
  <2>. QED
    BY <2>6, <2>7, <2>8, <2>9, BookUndoes DEF Items
<1>8. ASSUME NEW e \in Expenses, EditingExpense(e) PROVE UNCHANGED Book!vars
  <2>1. balance' = balance /\ payments' = payments /\ transfers' = transfers
    BY <1>8 DEF EditingExpense, books
  <2>. QED
    BY <1>1, <2>1, BookStutters
<1>9. ASSUME NEW e \in Expenses, PostExpense(e) \/ CancelExpense(e) PROVE Book!Next
  <2>1. PICK dto \in ExpenseDto : dto = expenses[e].data
    BY <1>9, ExpensePosted, ExpenseCancelled
  <2>2. PICK m : ChangeBalance([x \in {dto.account} |-> m])
    BY <1>9, <2>1 DEF PostExpense, CancelExpense
  <2>3. payments' = payments /\ transfers' = transfers
    BY <1>9 DEF PostExpense, CancelExpense
  <2>4. dto.account \in Accounts
    BY ExpenseDtoFields
  <2>5. \A b \in Accounts \ {dto.account} : balance'[b] = balance[b]
    BY <2>2, <2>4, OneBalance
  <2>. QED
    BY <2>3, <2>4, <2>5, BookAdjusts
<1>10. ASSUME NEW t \in Transfers, NEW dto \in TransferDto, CreateTransfer(t, dto) PROVE Book!Next
  <2>1. /\ ChangeBalance(TransferMoves(t, dto, "TRANSFER_OUT", "TRANSFER_IN", dto.amount))
        /\ payments' = payments /\ transfers[t].status = "ABSENT"
    BY <1>10 DEF CreateTransfer, Absent
  <2>2. /\ transfers'[t].status = "POSTED" /\ transfers'[t].data = dto
        /\ \A x \in Transfers \ {t} : transfers'[x] = transfers[x]
    BY <1>10 DEF CreateTransfer, TypeOK
  <2>3. PhaseAt(t) = "idle" /\ PhaseAt(t)' = "applied"
    BY <1>2, <2>1, <2>2 DEF PhaseAt, PhaseOf
  <2>4. EffectAt(t)' = TransferEffect(dto)
    BY <1>2, <2>2, <2>3 DEF EffectAt, TransferEffect
  <2>5. \A a \in Accounts : balance'[a] = balance[a] + TransferEffect(dto)[a]
                            /\ TransferEffect(dto)[a] \in Int
    <3>1. dto.amount \in Int
      BY TransferDtoFields
    <3>2. \A b \in Accounts : balance'[b] = IF b = dto.from THEN balance[b] + (-dto.amount)
                                            ELSE IF b = dto.to THEN balance[b] + dto.amount
                                            ELSE balance[b]
      BY <2>1, TransferBalances
    <3>. QED
      BY <3>1, <3>2 DEF TransferEffect, TypeOK
  <2>6. TransferEffect(dto) = [a \in Accounts |-> TransferEffect(dto)[a]]
    BY DEF TransferEffect
  <2>7. \A j \in Items \ {t} : Posting(j)' = Posting(j)
    BY <1>1, <1>2, <2>1, <2>2 DEF Items
  <2>. QED
    BY <2>3, <2>4, <2>5, <2>6, <2>7, BookApplies DEF Items
<1>11. ASSUME NEW t \in Transfers, ReverseTransfer(t) PROVE Book!Next
  <2>1. PICK dto \in TransferDto : dto = transfers[t].data
    BY <1>11, TransferReversed
  <2>2. PICK amount \in Int : amount = -dto.amount
    BY TransferDtoFields
  <2>3. /\ ChangeBalance(TransferMoves(t, dto, "TRANSFER_REVERSAL", "TRANSFER_REVERSAL", amount))
        /\ payments' = payments /\ transfers[t].status = "POSTED"
    BY <1>11, <2>1, <2>2 DEF ReverseTransfer
  <2>4. /\ transfers'[t].status = "REVERSED" /\ transfers'[t].data = dto
        /\ \A x \in Transfers \ {t} : transfers'[x] = transfers[x]
    <3>1. transfers'[t] = [status |-> "REVERSED", data |-> transfers[t].data,
                           number |-> transfers[t].number]
      BY <1>11, TransferReversed
    <3>2. \A x \in Transfers \ {t} : transfers'[x] = transfers[x]
      BY <1>11, TransferReversed
    <3>. QED
      BY <2>1, <3>1, <3>2
  <2>5. PhaseAt(t) = "applied" /\ PhaseAt(t)' = "undone"
    BY <1>2, <2>3, <2>4 DEF PhaseAt, PhaseOf
  <2>6. EffectAt(t)' = TransferEffect(dto) /\ EffectAt(t) = TransferEffect(dto)
    BY <1>2, <2>1, <2>4, <2>5 DEF EffectAt, TransferEffect
  <2>7. \A a \in Accounts : balance'[a] = balance[a] - TransferEffect(dto)[a]
    <3>1. dto.amount \in Int
      BY TransferDtoFields
    <3>2. \A b \in Accounts : balance'[b] = IF b = dto.from THEN balance[b] + (-amount)
                                            ELSE IF b = dto.to THEN balance[b] + amount
                                            ELSE balance[b]
      BY <2>3, TransferBalances
    <3>. QED
      BY <2>2, <3>1, <3>2 DEF TransferEffect, TypeOK
  <2>8. \A j \in Items \ {t} : Posting(j)' = Posting(j)
    BY <1>1, <1>2, <2>3, <2>4 DEF Items
  <2>. QED
    BY <2>5, <2>6, <2>7, <2>8, BookUndoes DEF Items
<1>. QED
  BY <1>3, <1>4, <1>5, <1>6, <1>7, <1>8, <1>9, <1>10, <1>11 DEF Shape

-----------------------------------------------------------------------------
(* The whole inductive invariant.  Beyond the properties themselves it says *)
(* which ledger rows exist, that a transfer has two accounts, that a        *)
(* request creating an expense has its id to itself (else its late write    *)
(* could undo a posting), and that what does not exist holds nothing.       *)
Inv == IInv /\ EntriesFit /\ CreatesFresh /\ GaplessTables /\ AbsentUnopened

LEMMA NothingNumbered ==
    ASSUME NEW num, DOMAIN num = {}, NEW top, \A y \in Years : top[y] = 0
    PROVE  Gapless(num, top)
<1>1. \A y \in Years : {y} \X (1..top[y]) = {}
  OBVIOUS
<1>2. UNION {{y} \X (1..top[y]) : y \in Years} = {}
  BY <1>1
<1>. QED
  BY <1>2 DEF Gapless

LEMMA InitInv == Init => Inv
<1> SUFFICES ASSUME Init PROVE Inv
  OBVIOUS
<1>1. /\ \A p \in Payments : payments[p].status = "ABSENT"
      /\ \A e \in Expenses : expenses[e].status = "ABSENT"
      /\ \A t \in Transfers : transfers[t].status = "ABSENT"
  BY DEF Init, Absent
<1>2. EntriesFit
  <2>1. \A a \in Accounts : \A r, kinds : RowsOn(a, r, kinds) = {}
    BY DEF Init, RowsOn
  <2>2. \A r, kinds : None(r, kinds)
    BY <2>1 DEF None, RowsOf
  <2>. QED
    BY <1>1, <2>2 DEF EntriesFit, PaymentFits, ExpenseFits, TransferFits
<1>3. CreatesFresh
  BY DEF Init, CreatesFresh
<1>4. GaplessTables
  <2>1. /\ \A type : DOMAIN PaymentNumbers(type) = {}
        /\ DOMAIN ExpenseNumbers = {}
        /\ DOMAIN TransferNumbers = {}
    BY <1>1 DEF Init, PaymentNumbers, ExpenseNumbers, TransferNumbers, Numbered
  <2>2. \A type \in SequenceTypes : \A y \in Years : LastNumber(type)[y] = 0
    BY DEF Init, LastNumber
  <2>. QED
    BY <2>1, <2>2, NothingNumbered, TypesOfNumbers DEF GaplessTables
<1>5. AbsentUnopened
  BY DEF Init, AbsentUnopened
<1>. QED
  BY <1>2, <1>3, <1>4, <1>5, InitIInv DEF Inv

(* Accounts keep their opening balance, and none disappears. *)
LEMMA AccountsKept == ASSUME TypeOK, AbsentUnopened, [Next]_vars PROVE AbsentUnopened'
<1>1. ASSUME account' = account PROVE AbsentUnopened'
  BY <1>1 DEF AbsentUnopened
<1>2. ASSUME NEW a \in Accounts, NEW opening \in Openings, NEW active \in BOOLEAN,
             CreateAccount(a, opening, active)
      PROVE  AbsentUnopened'
  <2>1. /\ account'[a].state # "ABSENT"
        /\ \A b \in Accounts \ {a} : account'[b] = account[b]
    BY <1>2 DEF CreateAccount, TypeOK
  <2>. QED
    BY <2>1 DEF AbsentUnopened
<1>3. ASSUME NEW request \in inflight, WriteAccount(request) PROVE AbsentUnopened'
  <2>1. request.id \in Accounts
    BY <1>3 DEF WriteAccount, TypeOK, Requests
  <2>2. account' = [account EXCEPT ![request.id].state =
                       IF request.active THEN "ACTIVE" ELSE "INACTIVE"]
    BY <1>3 DEF WriteAccount
  <2>3. /\ account'[request.id].state # "ABSENT"
        /\ \A b \in Accounts \ {request.id} : account'[b] = account[b]
    BY <2>1, <2>2 DEF TypeOK
  <2>. QED
    BY <2>3 DEF AbsentUnopened
<1>4. \/ account' = account
      \/ \E a \in Accounts, opening \in Openings, active \in BOOLEAN :
            CreateAccount(a, opening, active)
      \/ \E request \in inflight : WriteAccount(request)
  <2>1. CASE UNCHANGED vars
    BY <2>1 DEF vars, books
  <2>2. CASE Next
    BY <2>2 DEF Next, ReadAccount, CreatePayment, UpdatePayment, PostPayment, ReversePayment,
                ReadPaymentToDelete, ReadForExpense, PostExpense, CancelExpense,
                ReadExpenseToDelete, CreateTransfer, ReverseTransfer, DeletePayment,
                CreateExpense, UpdateExpense, DeleteExpense, Abandon, FinalizeDocument,
                CancelDocument, SetPartyActive, Begin, ChangeBalance, books
  <2>. QED
    BY <2>1, <2>2
<1>. QED
  BY <1>1, <1>2, <1>3, <1>4

LEMMA NextShape == ASSUME Inv, [Next]_vars PROVE Shape
<1>1. CASE Next
  BY <1>1, StepShape DEF Inv, IInv
<1>2. CASE UNCHANGED vars
  BY <1>2 DEF vars, books, rows, Shape, Elsewhere
<1>. QED
  BY <1>1, <1>2

LEMMA NextInv == ASSUME Inv, [Next]_vars PROVE Inv'
<1>1. Shape /\ TypeOK
  BY NextShape DEF Inv, IInv
<1>2. IInv' /\ TypeOK'
  BY NextIInv DEF Inv, IInv
<1>3. EntriesFit'
  BY <1>1, ShapeEntries DEF Inv
<1>4. CreatesFresh'
  <2>1. CASE Next
    BY <1>1, <2>1, NextCreatesFresh DEF Inv
  <2>2. CASE UNCHANGED vars
    BY <2>2, FreshKept DEF Inv, vars, rows
  <2>. QED
    BY <2>1, <2>2
<1>5. GaplessTables'
  BY <1>1, <1>2, ShapeNumbers DEF Inv
<1>6. AbsentUnopened'
  BY <1>1, AccountsKept DEF Inv
<1>. QED
  BY <1>2, <1>3, <1>4, <1>5, <1>6 DEF Inv

(* What PostedPaymentFrozen says of one step. *)
PaymentsFrozen ==
    \A p \in Payments :
        payments[p].status \in {"POSTED", "REVERSED"} =>
            payments'[p] \in {payments[p], [payments[p] EXCEPT !.status = "REVERSED"]}

LEMMA ShapeFrozen == ASSUME TypeOK, Shape PROVE PaymentsFrozen
<1>1. CASE payments' = payments
  BY <1>1 DEF PaymentsFrozen
<1>2. ASSUME NEW p \in Payments, DraftingPayment(p) PROVE PaymentsFrozen
  BY <1>2 DEF DraftingPayment, Posted, PaymentsFrozen
<1>3. ASSUME NEW p \in Payments, PostPayment(p) PROVE PaymentsFrozen
  <2>1. payments[p].status = "DRAFT"
    BY <1>3 DEF PostPayment
  <2>2. \A q \in Payments \ {p} : payments'[q] = payments[q]
    BY <1>3, PaymentPosted
  <2>. QED
    BY <2>1, <2>2 DEF PaymentsFrozen
<1>4. ASSUME NEW p \in Payments, ReversePayment(p) PROVE PaymentsFrozen
  <2>1. /\ payments'[p] = [payments[p] EXCEPT !.status = "REVERSED"]
        /\ \A q \in Payments \ {p} : payments'[q] = payments[q]
    BY <1>4, PaymentReversed
  <2>. QED
    BY <2>1 DEF PaymentsFrozen
<1>5. \/ \E p \in Payments : DraftingPayment(p) \/ PostPayment(p) \/ ReversePayment(p)
      \/ payments' = payments
  BY DEF Shape, Elsewhere, CreateAccount, EditingExpense, PostExpense, CancelExpense,
         CreateTransfer, ReverseTransfer, rows
<1>. QED
  BY <1>1, <1>2, <1>3, <1>4, <1>5

-----------------------------------------------------------------------------

(* However posting, reversing, editing, deleting and stale requests         *)
(* interleave, the ledger holds exactly the rows each payment's, expense's  *)
(* and transfer's status accounts for: nothing is booked twice, reversed    *)
(* twice, or left behind by a row that was deleted.                        *)
THEOREM EntriesAreAccountedFor == Spec => []EntriesFollowStatus
<1>1. Inv => EntriesFollowStatus
  BY RowsCounted DEF Inv
<1>. QED
  BY InitInv, NextInv, <1>1, PTL DEF Spec

(* The permanent numbers of payments, expenses and transfers have no gap   *)
(* and no duplicate, per type and year, for any number of rows and of      *)
(* requests in flight.                                                     *)
THEOREM FinanceNumbersGapFree == Spec => []NumbersGapFree
<1>1. Inv => NumbersGapFree
  BY GaplessIsGapFree DEF Inv
<1>. QED
  BY InitInv, NextInv, <1>1, PTL DEF Spec

(* A posted payment keeps its data, allocations and number for ever: no     *)
(* edit or delete that checked the draft earlier reaches it.               *)
THEOREM PostedPaymentsAreFrozen == Spec => PostedPaymentFrozen
<1>1. Inv /\ [Next]_vars => [PaymentsFrozen]_vars
  <2> SUFFICES ASSUME Inv, [Next]_vars PROVE PaymentsFrozen
    OBVIOUS
  <2>. QED
    BY NextShape, ShapeFrozen DEF Inv, IInv
<1>2. PostedPaymentFrozen <=> [][PaymentsFrozen]_vars
  BY DEF PostedPaymentFrozen, PaymentsFrozen
<1>. QED
  BY InitInv, NextInv, <1>1, <1>2, PTL DEF Spec

(* validateOutstanding keeps every invoice and bill within its total, over  *)
(* all payments together and however they are posted and reversed, as long  *)
(* as no request names a document twice.  The hypothesis is needed: each    *)
(* allocation is compared by itself, and a list that names one document     *)
(* twice over-allocates it.                                                *)
THEOREM DistinctTargetsNeverOverAllocate ==
    ASSUME TargetsDiffer PROVE Spec => []NoOverAllocation
<1>1. Init => NoOverAllocation
  <2> SUFFICES ASSUME Init, NEW d \in Documents PROVE Settled(d, {}) <= GrandTotal[d]
    BY DEF NoOverAllocation
  <2>1. DOMAIN Shares(d, {}) = {}
    BY DEF Init, Absent, Shares
  <2>2. Settled(d, {}) = 0
    BY <2>1, SettledIs, SumOfEmpty
  <2>. QED
    BY <2>2, FinanceAssumption
<1>2. Inv /\ Inv' /\ NoOverAllocation /\ [Next]_vars => NoOverAllocation'
  BY NextShape, ShapeSettled DEF Inv, IInv
<1>. QED
  BY InitInv, NextInv, <1>1, <1>2, PTL DEF Spec

(* The money on all accounts is what they were opened with, plus receipts,  *)
(* less supplier payments and expenses, in every behaviour in which no late *)
(* update rewrites an expense that was posted meanwhile.  That hypothesis   *)
(* is needed, and nothing else is: updateExpense writes by id without       *)
(* asking again for the draft.                                             *)
THEOREM BooksBalanceWhileExpensesKeep ==
    Spec /\ PostedExpenseFrozen => []BooksBalance
<1>1. Init => BooksBalance
  <2> SUFFICES ASSUME Init PROVE BooksBalance
    OBVIOUS
  <2>1. DOMAIN Paid = {} /\ DOMAIN Spent = {}
    BY DEF Init, Absent, Paid, Spent
  <2>2. SumOf(Paid) = 0 /\ SumOf(Spent) = 0
    BY <2>1, SumOfEmpty
  <2>3. balance = Opened
    BY DEF Init, Opened
  <2>4. SumOf(Opened) \in Int
    BY InitIInv, BooksType DEF IInv, BooksFinite
  <2>. QED
    BY <2>2, <2>3, <2>4, BooksBalanceDef
<1>2. Inv /\ Inv' /\ BooksBalance /\ [Next]_vars /\ [ExpensesFrozen]_vars => BooksBalance'
  <2> SUFFICES ASSUME Inv, Inv', BooksBalance, [Next]_vars, [ExpensesFrozen]_vars
               PROVE  BooksBalance'
    OBVIOUS
  <2>1. TwoAccounts
    BY DEF Inv, EntriesFit, TwoAccounts
  <2>2. ExpensesFrozen
    <3>1. CASE UNCHANGED vars
      BY <3>1 DEF vars, rows, ExpensesFrozen
    <3>. QED
      BY <3>1
  <2>. QED
    BY <2>1, <2>2, NextShape, ShapeBalance DEF Inv, IInv
<1>3. PostedExpenseFrozen <=> [][ExpensesFrozen]_vars
  BY DEF PostedExpenseFrozen, ExpensesFrozen
<1>. QED
  BY InitInv, NextInv, <1>1, <1>2, <1>3, PTL DEF Spec

(* Finance implements Postings: every payment and every transfer moves the  *)
(* balances at most once, all its accounts in one step, and its reversal    *)
(* takes back exactly what it moved; openings and expenses move one account *)
(* at a time.                                                              *)
THEOREM FinanceImplementsPostings == Spec => ImplementsPostings
<1>1. Inv /\ Inv' /\ [Next]_vars => [Book!Next]_(Book!vars)
  BY NextShape, BookNext DEF Inv, IInv
<1>2. ImplementsPostings <=> Book!Init /\ [][Book!Next]_(Book!vars)
  BY DEF ImplementsPostings, Book!Spec
<1>. QED
  BY InitInv, NextInv, BookInit, <1>1, <1>2, PTL DEF Spec

=============================================================================
