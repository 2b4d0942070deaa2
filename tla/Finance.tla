------------------------------ MODULE Finance -------------------------------
(***************************************************************************)
(* Money accounts, their ledger, payments with allocations, expenses and   *)
(* internal transfers of one business: finance.service.ts.                 *)
(*                                                                         *)
(* Handlers that run in a Serializable transaction are one action: a       *)
(* conflicting attempt rolls back and changes nothing, so it is a stutter. *)
(* Handlers that run at the default READ COMMITTED level read, and then    *)
(* write by id only, in two steps, with anything in between; the request   *)
(* waits in `inflight` between its read and its write.                     *)
(*                                                                         *)
(* Left out: names, bank details, notes, methods and dates other than      *)
(* their financial year; expense categories and the supplier of an         *)
(* expense, whose active flags only narrow which drafts are accepted.      *)
(***************************************************************************)
EXTENDS Ledger, Sums, FiniteSets

CONSTANTS Accounts, Payments, Expenses, Transfers, \* ids a row may be given
          Invoices, Bills,      \* documents payments are allocated to
          Customers, Suppliers, \* the parties of payments
          Years,                \* financial years
          Amounts,              \* amounts a request may carry, in paise
          Openings,             \* opening balances a request may carry
          AllocationLists,      \* allocation lists a request may carry
          GrandTotal,           \* the total of each document
          NoRef,                \* the reference of an OPENING_BALANCE row
          MaxInflight           \* bound on requests between read and write

Documents == Invoices \cup Bills
Parties == Customers \cup Suppliers

PaymentTypes == {"CUSTOMER_RECEIPT", "SUPPLIER_PAYMENT"}
SequenceTypes == PaymentTypes \cup {"EXPENSE", "TRANSFER"}

PaymentDto == [type : PaymentTypes, party : Parties, account : Accounts,
               year : Years, amount : Amounts, allocations : AllocationLists]
ExpenseDto == [account : Accounts, year : Years, amount : Amounts]
TransferDto == [from : Accounts, to : Accounts, year : Years, amount : Amounts]

Absent == [status |-> "ABSENT"]
NoNumber == << >>
Rows(statuses, dtos) ==
    [status : statuses, data : dtos, number : (Years \X Nat) \cup {NoNumber}]
        \cup {Absent}
PaymentRows == Rows({"DRAFT", "POSTED", "REVERSED"}, PaymentDto)
ExpenseRows == Rows({"DRAFT", "POSTED", "CANCELLED"}, ExpenseDto)
TransferRows == Rows({"POSTED", "REVERSED"}, TransferDto)

Refs == Payments \cup Expenses \cup Transfers \cup {NoRef}
EntryKinds == {"OPENING_BALANCE", "CUSTOMER_RECEIPT", "SUPPLIER_PAYMENT",
               "PAYMENT_REVERSAL", "EXPENSE", "EXPENSE_REVERSAL",
               "TRANSFER_OUT", "TRANSFER_IN", "TRANSFER_REVERSAL"}

(* A request that has done its reads at READ COMMITTED and not yet written. *)
Requests ==
    [op : {"createExpense", "updateExpense"}, id : Expenses, data : ExpenseDto]
    \cup [op : {"deleteExpense"}, id : Expenses]
    \cup [op : {"deletePayment"}, id : Payments]
    \cup [op : {"updateAccount"}, id : Accounts, active : BOOLEAN]

ASSUME FinanceAssumption ==
    /\ IsFiniteSet(Accounts)           \* the rows of a table
    /\ IsFiniteSet(Payments)
    /\ IsFiniteSet(Expenses)
    /\ Amounts \subseteq Nat
    /\ Openings \subseteq Nat
    /\ MaxInflight \in Nat
    /\ Invoices \cap Bills = {}
    /\ Customers \cap Suppliers = {}
    /\ GrandTotal \in [Documents -> Nat]
    /\ \A list \in AllocationLists :
          list \in Seq([target : Documents, amount : Nat])

(* Rows are told apart by their ids. *)
ASSUME DistinctRefs ==
    /\ Payments \cap Expenses = {}
    /\ Payments \cap Transfers = {}
    /\ Expenses \cap Transfers = {}
    /\ NoRef \notin Payments \cup Expenses \cup Transfers

VARIABLES
    account,   \* MoneyAccount rows: state, code and opening balance
    balance,   \* MoneyAccount.currentBalance
    entries,   \* MoneyAccountEntry rows of each account, in order
    payments,  \* Payment rows with their PaymentAllocation rows
    expenses,  \* Expense rows
    transfers, \* AccountTransfer rows
    sequence,  \* FinanceSequence.nextNumber per type and financial year
    nextAccountNumber, \* Business.nextAccountNumber
    docStatus, \* status of the invoices and purchase bills
    partyActive, \* Customer.isActive and Supplier.isActive
    inflight   \* READ COMMITTED requests between their read and their write

books == <<account, balance, entries, nextAccountNumber>>
rows == <<payments, expenses, transfers, sequence>>
world == <<docStatus, partyActive>>
vars == <<books, rows, world, inflight>>

TypeOK ==
    /\ account \in [Accounts -> [state : {"ABSENT", "ACTIVE", "INACTIVE"},
                                 code : Nat, opening : Nat]]
    /\ balance \in [Accounts -> Int]
    /\ entries \in [Accounts -> Seq(EntrySet(EntryKinds, Refs))]
    /\ payments \in [Payments -> PaymentRows]
    /\ expenses \in [Expenses -> ExpenseRows]
    /\ transfers \in [Transfers -> TransferRows]
    /\ sequence \in [SequenceTypes \X Years -> Nat]
    /\ nextAccountNumber \in Nat
    /\ docStatus \in [Documents -> {"DRAFT", "FINALIZED", "CANCELLED"}]
    /\ partyActive \in [Parties -> BOOLEAN]
    /\ inflight \subseteq Requests

Init ==
    /\ account = [a \in Accounts |-> [state |-> "ABSENT", code |-> 0, opening |-> 0]]
    /\ balance = [a \in Accounts |-> 0]
    /\ entries = [a \in Accounts |-> << >>]
    /\ payments = [p \in Payments |-> Absent]
    /\ expenses = [e \in Expenses |-> Absent]
    /\ transfers = [t \in Transfers |-> Absent]
    /\ sequence = [k \in SequenceTypes \X Years |-> 0]
    /\ nextAccountNumber = 0
    /\ docStatus = [d \in Documents |-> "DRAFT"]
    /\ partyActive = [c \in Parties |-> TRUE]
    /\ inflight = {}

-----------------------------------------------------------------------------
(* Helpers shared by the handlers.                                         *)

(* Mutant of NextNumber: the number before the increment. *)
NextNumberStale(type, year) == <<year, sequence[<<type, year>>]>>

(* nextNumber: the number of the next document of this type and year, and *)
(* the increment of its FinanceSequence row.                               *)
NextNumber(type, year) == <<year, sequence[<<type, year>>] + 1>>

TakeNumber(type, year) ==
    sequence' = [sequence EXCEPT ![<<type, year>>] = @ + 1]

Move(kind, delta, ref) == [kind |-> kind, delta |-> delta, ref |-> ref]

(* Mutant of ChangeBalance: the row loses the direction of the change. *)
ChangeBalanceUnsigned(moves) ==
    /\ \A a \in DOMAIN moves : account[a].state = "ACTIVE"
    /\ balance' = [a \in Accounts |->
                      IF a \in DOMAIN moves THEN balance[a] + moves[a].delta
                                            ELSE balance[a]]
    /\ entries' = [a \in Accounts |->
                      IF a \in DOMAIN moves
                      THEN Append(entries[a],
                                  Entry(moves[a].kind,
                                        IF moves[a].delta < 0 THEN -moves[a].delta
                                                              ELSE moves[a].delta,
                                        balance[a], moves[a].ref))
                      ELSE entries[a]]
    /\ UNCHANGED <<account, nextAccountNumber>>

(* changeBalance, once for each account in the domain of `moves`: the      *)
(* account must be active, its balance moves and the row is written.       *)
ChangeBalance(moves) ==
    /\ \A a \in DOMAIN moves : account[a].state = "ACTIVE"
    /\ balance' = [a \in Accounts |->
                      IF a \in DOMAIN moves THEN balance[a] + moves[a].delta
                                            ELSE balance[a]]
    /\ entries' = [a \in Accounts |->
                      IF a \in DOMAIN moves
                      THEN Append(entries[a],
                                  Entry(moves[a].kind, moves[a].delta,
                                        balance[a], moves[a].ref))
                      ELSE entries[a]]
    /\ UNCHANGED <<account, nextAccountNumber>>

(* Mutant of Referenced: foreign keys that cascade. *)
ReferencedNever(ref) == FALSE

(* A row can be deleted only while no ledger row refers to it: the foreign *)
(* keys of MoneyAccountEntry are ON DELETE RESTRICT.                       *)
Referenced(ref) ==
    \E a \in Accounts : \E i \in DOMAIN entries[a] : entries[a][i].ref = ref

Begin(request) ==
    /\ Cardinality(inflight) < MaxInflight
    /\ inflight' = inflight \cup {request}
    /\ UNCHANGED <<books, rows, world>>

(* A new row never gets the id of an earlier one, so never that of a row   *)
(* some request still has in hand.                                         *)
Fresh(id) == \A request \in inflight : request.id # id

End(request) ==
    /\ request \in inflight
    /\ inflight' = inflight \ {request}

-----------------------------------------------------------------------------
(* Money accounts.                                                         *)

(* Mutant of CreateAccount: the opening entry is forgotten. *)
CreateAccountWithoutEntry(a, opening, active) ==
    /\ account[a].state = "ABSENT"
    /\ nextAccountNumber' = nextAccountNumber + 1
    /\ account' = [account EXCEPT ![a] =
                      [state |-> IF active THEN "ACTIVE" ELSE "INACTIVE",
                       code |-> nextAccountNumber + 1, opening |-> opening]]
    /\ balance' = [balance EXCEPT ![a] = opening]
    /\ UNCHANGED <<entries, rows, world, inflight>>

(* createAccount: the row, its ACC code and, unless zero, its opening entry. *)
CreateAccount(a, opening, active) ==
    /\ account[a].state = "ABSENT"
    /\ nextAccountNumber' = nextAccountNumber + 1
    /\ account' = [account EXCEPT ![a] =
                      [state |-> IF active THEN "ACTIVE" ELSE "INACTIVE",
                       code |-> nextAccountNumber + 1, opening |-> opening]]
    /\ balance' = [balance EXCEPT ![a] = opening]
    /\ entries' = [entries EXCEPT ![a] =
                      IF opening = 0 THEN @
                      ELSE Append(@, Entry("OPENING_BALANCE", opening, 0, NoRef))]
    /\ UNCHANGED <<rows, world, inflight>>

(* updateAccount and deactivateAccount read the row.  What they will write *)
(* to isActive is what the request asked for or, if it does not say, the   *)
(* value just read.                                                        *)
ReadAccount(a) ==
    /\ account[a].state # "ABSENT"
    /\ \E active \in BOOLEAN \cup {account[a].state = "ACTIVE"} :
          Begin([op |-> "updateAccount", id |-> a, active |-> active])

(* ... and write it by id, whatever happened to it since. *)
WriteAccount(request) ==
    /\ End(request)
    /\ request.op = "updateAccount"
    /\ account' = [account EXCEPT ![request.id].state =
                      IF request.active THEN "ACTIVE" ELSE "INACTIVE"]
    /\ UNCHANGED <<balance, entries, nextAccountNumber, rows, world>>

-----------------------------------------------------------------------------
(* Payments.                                                               *)

AllocationTotal(list) == SumOf([i \in DOMAIN list |-> list[i].amount])

(* paymentData: what is rejected before any transaction starts. *)
PaymentData(dto) ==
    /\ dto.amount > 0
    /\ dto.type = "CUSTOMER_RECEIPT" <=> dto.party \in Customers
    /\ AllocationTotal(dto.allocations) = dto.amount

EnsurePaymentRefs(dto) ==
    account[dto.account].state = "ACTIVE" /\ partyActive[dto.party]

CreatePayment(p, dto) ==
    /\ payments[p] = Absent /\ Fresh(p)
    /\ PaymentData(dto)
    /\ EnsurePaymentRefs(dto)
    /\ payments' = [payments EXCEPT ![p] =
                      [status |-> "DRAFT", data |-> dto, number |-> NoNumber]]
    /\ UNCHANGED <<books, expenses, transfers, sequence, world, inflight>>

(* updatePayment: the allocations are deleted and created again. *)
UpdatePayment(p, dto) ==
    /\ payments[p].status = "DRAFT"
    /\ PaymentData(dto)
    /\ EnsurePaymentRefs(dto)
    /\ payments' = [payments EXCEPT ![p].data = dto]
    /\ UNCHANGED <<books, expenses, transfers, sequence, world, inflight>>

(* What the payments in state POSTED, `except` aside, settle of document d. *)
AllocatedTo(list, d) ==
    SumOf([i \in {j \in DOMAIN list : list[j].target = d} |-> list[i].amount])

Settled(d, except) ==
    SumOf([p \in {q \in Payments \ except : payments[q].status = "POSTED"} |->
              AllocatedTo(payments[p].data.allocations, d)])

(* Mutant of ValidateOutstanding: what others have settled is not asked. *)
ValidateOutstandingAlone(p, dto) ==
    \A i \in DOMAIN dto.allocations :
        LET a == dto.allocations[i] IN
        /\ a.target \in IF dto.type = "CUSTOMER_RECEIPT" THEN Invoices ELSE Bills
        /\ docStatus[a.target] = "FINALIZED"
        /\ a.amount <= GrandTotal[a.target]

(* validateOutstanding: each allocation by itself, against what OTHER      *)
(* posted payments have settled.                                           *)
ValidateOutstanding(p, dto) ==
    \A i \in DOMAIN dto.allocations :
        LET a == dto.allocations[i] IN
        /\ a.target \in IF dto.type = "CUSTOMER_RECEIPT" THEN Invoices ELSE Bills
        /\ docStatus[a.target] = "FINALIZED"
        /\ Settled(a.target, {p}) + a.amount <= GrandTotal[a.target]

(* How a payment moves the balance of its account. *)
PaymentDelta(dto) ==
    IF dto.type = "CUSTOMER_RECEIPT" THEN dto.amount ELSE -dto.amount

PostPayment(p) ==
    LET dto == payments[p].data IN
    /\ payments[p].status = "DRAFT"
    /\ ValidateOutstanding(p, dto)
    /\ TakeNumber(dto.type, dto.year)
    /\ ChangeBalance([a \in {dto.account} |->
                         Move(dto.type, PaymentDelta(dto), p)])
    /\ payments' = [payments EXCEPT
                      ![p].status = "POSTED",
                      ![p].number = NextNumber(dto.type, dto.year)]
    /\ UNCHANGED <<expenses, transfers, world, inflight>>

(* Mutants of ReversePayment: it may run twice, it moves the balance the   *)
(* same way again, it writes the status of a cancelled expense.            *)
ReversePaymentAgain(p) ==
    LET dto == payments[p].data IN
    /\ payments[p].status \in {"POSTED", "REVERSED"}
    /\ ChangeBalance([a \in {dto.account} |->
                         Move("PAYMENT_REVERSAL", -PaymentDelta(dto), p)])
    /\ payments' = [payments EXCEPT ![p].status = "REVERSED"]
    /\ UNCHANGED <<expenses, transfers, sequence, world, inflight>>

ReversePaymentSameWay(p) ==
    LET dto == payments[p].data IN
    /\ payments[p].status = "POSTED"
    /\ ChangeBalance([a \in {dto.account} |->
                         Move("PAYMENT_REVERSAL", PaymentDelta(dto), p)])
    /\ payments' = [payments EXCEPT ![p].status = "REVERSED"]
    /\ UNCHANGED <<expenses, transfers, sequence, world, inflight>>

ReversePaymentAsCancelled(p) ==
    LET dto == payments[p].data IN
    /\ payments[p].status = "POSTED"
    /\ ChangeBalance([a \in {dto.account} |->
                         Move("PAYMENT_REVERSAL", -PaymentDelta(dto), p)])
    /\ payments' = [payments EXCEPT ![p].status = "CANCELLED"]
    /\ UNCHANGED <<expenses, transfers, sequence, world, inflight>>

ReversePayment(p) ==
    LET dto == payments[p].data IN
    /\ payments[p].status = "POSTED"
    /\ ChangeBalance([a \in {dto.account} |->
                         Move("PAYMENT_REVERSAL", -PaymentDelta(dto), p)])
    /\ payments' = [payments EXCEPT ![p].status = "REVERSED"]
    /\ UNCHANGED <<expenses, transfers, sequence, world, inflight>>

(* deletePayment checks DRAFT, and then deletes by id. *)
ReadPaymentToDelete(p) ==
    /\ payments[p].status = "DRAFT"
    /\ Begin([op |-> "deletePayment", id |-> p])

DeletePayment(request) ==
    /\ End(request)
    /\ request.op = "deletePayment"
    /\ payments' = IF Referenced(request.id) THEN payments
                   ELSE [payments EXCEPT ![request.id] = Absent]
    /\ UNCHANGED <<books, expenses, transfers, sequence, world>>

-----------------------------------------------------------------------------
(* Expenses.                                                               *)

(* createExpense and updateExpense check the request and the row they read *)
ReadForExpense(e, dto) ==
    /\ dto.amount > 0
    /\ account[dto.account].state = "ACTIVE"
    /\ \/ /\ expenses[e] = Absent /\ Fresh(e)
          /\ Begin([op |-> "createExpense", id |-> e, data |-> dto])
       \/ /\ expenses[e].status = "DRAFT"
          /\ Begin([op |-> "updateExpense", id |-> e, data |-> dto])

CreateExpense(request) ==
    /\ End(request)
    /\ request.op = "createExpense"
    /\ expenses' = [expenses EXCEPT ![request.id] =
                      [status |-> "DRAFT", data |-> request.data, number |-> NoNumber]]
    /\ UNCHANGED <<books, payments, transfers, sequence, world>>

(* ... and updateExpense writes by id; a row deleted meanwhile is an error. *)
UpdateExpense(request) ==
    /\ End(request)
    /\ request.op = "updateExpense"
    /\ expenses' = IF expenses[request.id] = Absent THEN expenses
                   ELSE [expenses EXCEPT ![request.id].data = request.data]
    /\ UNCHANGED <<books, payments, transfers, sequence, world>>

ReadExpenseToDelete(e) ==
    /\ expenses[e].status = "DRAFT"
    /\ Begin([op |-> "deleteExpense", id |-> e])

DeleteExpense(request) ==
    /\ End(request)
    /\ request.op = "deleteExpense"
    /\ expenses' = IF Referenced(request.id) THEN expenses
                   ELSE [expenses EXCEPT ![request.id] = Absent]
    /\ UNCHANGED <<books, payments, transfers, sequence, world>>

PostExpense(e) ==
    LET dto == expenses[e].data IN
    /\ expenses[e].status = "DRAFT"
    /\ TakeNumber("EXPENSE", dto.year)
    /\ ChangeBalance([a \in {dto.account} |-> Move("EXPENSE", -dto.amount, e)])
    /\ expenses' = [expenses EXCEPT
                      ![e].status = "POSTED",
                      ![e].number = NextNumber("EXPENSE", dto.year)]
    /\ UNCHANGED <<payments, transfers, world, inflight>>

(* Mutant of CancelExpense: the number is given up. *)
CancelExpenseUnnumbered(e) ==
    LET dto == expenses[e].data IN
    /\ expenses[e].status = "POSTED"
    /\ ChangeBalance([a \in {dto.account} |->
                         Move("EXPENSE_REVERSAL", dto.amount, e)])
    /\ expenses' = [expenses EXCEPT ![e].status = "CANCELLED",
                                          ![e].number = NoNumber]
    /\ UNCHANGED <<payments, transfers, sequence, world, inflight>>

CancelExpense(e) ==
    LET dto == expenses[e].data IN
    /\ expenses[e].status = "POSTED"
    /\ ChangeBalance([a \in {dto.account} |->
                         Move("EXPENSE_REVERSAL", dto.amount, e)])
    /\ expenses' = [expenses EXCEPT ![e].status = "CANCELLED"]
    /\ UNCHANGED <<payments, transfers, sequence, world, inflight>>

-----------------------------------------------------------------------------
(* Internal transfers, posted as they are created.                         *)

(* Mutant of TransferMoves: both accounts move the same way. *)
TransferMovesSameWay(t, dto, outKind, inKind, amount) ==
    [a \in {dto.from, dto.to} |->
        IF a = dto.from THEN Move(outKind, amount, t)
                        ELSE Move(inKind, amount, t)]

TransferMoves(t, dto, outKind, inKind, amount) ==
    [a \in {dto.from, dto.to} |->
        IF a = dto.from THEN Move(outKind, -amount, t)
                        ELSE Move(inKind, amount, t)]

CreateTransfer(t, dto) ==
    /\ transfers[t] = Absent
    /\ dto.amount > 0
    /\ dto.from # dto.to
    /\ TakeNumber("TRANSFER", dto.year)
    /\ transfers' = [transfers EXCEPT ![t] =
                      [status |-> "POSTED", data |-> dto,
                       number |-> NextNumber("TRANSFER", dto.year)]]
    /\ ChangeBalance(TransferMoves(t, dto, "TRANSFER_OUT", "TRANSFER_IN",
                                   dto.amount))
    /\ UNCHANGED <<payments, expenses, world, inflight>>

ReverseTransfer(t) ==
    LET dto == transfers[t].data IN
    /\ transfers[t].status = "POSTED"
    /\ ChangeBalance(TransferMoves(t, dto, "TRANSFER_REVERSAL",
                                   "TRANSFER_REVERSAL", -dto.amount))
    /\ transfers' = [transfers EXCEPT ![t].status = "REVERSED"]
    /\ UNCHANGED <<payments, expenses, sequence, world, inflight>>

-----------------------------------------------------------------------------
(* What the rest of the system does to the rows finance reads.             *)

FinalizeDocument(d) ==
    /\ docStatus[d] = "DRAFT"
    /\ docStatus' = [docStatus EXCEPT ![d] = "FINALIZED"]
    /\ UNCHANGED <<books, rows, partyActive, inflight>>

CancelDocument(d) ==
    /\ docStatus[d] = "FINALIZED"
    /\ docStatus' = [docStatus EXCEPT ![d] = "CANCELLED"]
    /\ UNCHANGED <<books, rows, partyActive, inflight>>

SetPartyActive(c) ==
    /\ partyActive' = [partyActive EXCEPT ![c] = ~@]
    /\ UNCHANGED <<books, rows, docStatus, inflight>>

(* A READ COMMITTED request dies (error, lost connection, restart): its    *)
(* transaction is rolled back.                                             *)
Abandon(request) ==
    /\ End(request)
    /\ UNCHANGED <<books, rows, world>>

Next ==
    \/ \E a \in Accounts :
          \/ \E opening \in Openings, active \in BOOLEAN :
                CreateAccount(a, opening, active)
          \/ ReadAccount(a)
    \/ \E p \in Payments :
          \/ \E dto \in PaymentDto : CreatePayment(p, dto) \/ UpdatePayment(p, dto)
          \/ PostPayment(p)
          \/ ReversePayment(p)
          \/ ReadPaymentToDelete(p)
    \/ \E e \in Expenses :
          \/ \E dto \in ExpenseDto : ReadForExpense(e, dto)
          \/ PostExpense(e)
          \/ CancelExpense(e)
          \/ ReadExpenseToDelete(e)
    \/ \E t \in Transfers :
          \/ \E dto \in TransferDto : CreateTransfer(t, dto)
          \/ ReverseTransfer(t)
    \/ \E request \in inflight :
          \/ WriteAccount(request)
          \/ DeletePayment(request)
          \/ CreateExpense(request)
          \/ UpdateExpense(request)
          \/ DeleteExpense(request)
          \/ Abandon(request)
    \/ \E d \in Documents : FinalizeDocument(d) \/ CancelDocument(d)
    \/ \E c \in Parties : SetPartyActive(c)

Spec == Init /\ [][Next]_vars

-----------------------------------------------------------------------------
(* Properties.                                                             *)

(* Every account's stored balance is the balance after its last ledger     *)
(* row, and its rows chain from zero without a gap: what changeBalance and *)
(* createAccount keep by writing both in one transaction.                  *)
LedgerReconciles == \A a \in Accounts : Reconciles(entries[a], balance[a])

(* No invoice or bill has more posted against it than its total, over all  *)
(* payments together: the purpose of validateOutstanding.                  *)
NoOverAllocation == \A d \in Documents : Settled(d, {}) <= GrandTotal[d]

(* The ledger rows of `ref` of these kinds: on one account, and on all. *)
RowsOn(a, ref, kinds) ==
    {i \in DOMAIN entries[a] : entries[a][i].ref = ref /\ entries[a][i].kind \in kinds}

RowsOf(ref, kinds) == UNION {{a} \X RowsOn(a, ref, kinds) : a \in Accounts}

HasRows(n, ref, kinds, condition) ==
    Cardinality(RowsOf(ref, kinds)) = IF condition THEN n ELSE 0

(* The ledger holds exactly the rows the life of each document accounts    *)
(* for: one for a posting, one more for its reversal, twice that for a     *)
(* transfer, none for a draft or a deleted row, whatever stale request     *)
(* writes late.                                                            *)
EntriesFollowStatus ==
    /\ \A p \in Payments : LET s == payments[p].status IN
          /\ HasRows(1, p, PaymentTypes, s \in {"POSTED", "REVERSED"})
          /\ HasRows(1, p, {"PAYMENT_REVERSAL"}, s = "REVERSED")
    /\ \A e \in Expenses : LET s == expenses[e].status IN
          /\ HasRows(1, e, {"EXPENSE"}, s \in {"POSTED", "CANCELLED"})
          /\ HasRows(1, e, {"EXPENSE_REVERSAL"}, s = "CANCELLED")
    /\ \A t \in Transfers : LET s == transfers[t].status IN
          /\ HasRows(1, t, {"TRANSFER_OUT"}, s # "ABSENT")
          /\ HasRows(1, t, {"TRANSFER_IN"}, s # "ABSENT")
          /\ HasRows(2, t, {"TRANSFER_REVERSAL"}, s = "REVERSED")

(* The numbers the rows `ids` of a table carry are 1, 2, 3 ... of each     *)
(* financial year, up to the last the sequence gave out, and no two rows   *)
(* carry the same.                                                         *)
GapFree(table, ids, type) ==
    /\ \A i, j \in ids : table[i].number = table[j].number => i = j
    /\ {table[i].number : i \in ids} =
          UNION {{y} \X (1..sequence[<<type, y>>]) : y \in Years}

Numbered(table) ==
    {i \in DOMAIN table : table[i].status \notin {"ABSENT", "DRAFT"}}

(* Permanent numbers have no gap and no duplicate per type and year,       *)
(* although drafts are deleted, documents reversed and expenses edited     *)
(* while they are being posted.                                            *)
NumbersGapFree ==
    /\ \A type \in PaymentTypes :
          GapFree(payments, {p \in Numbered(payments) :
                                payments[p].data.type = type}, type)
    /\ GapFree(expenses, Numbered(expenses), "EXPENSE")
    /\ GapFree(transfers, Numbered(transfers), "TRANSFER")

(* The money on all accounts is what they were opened with, plus the posted *)
(* receipts, less the posted supplier payments and expenses: transfers and *)
(* everything reversed cancel out.                                         *)
BooksBalance ==
    SumOf(balance) =
        SumOf([a \in Accounts |-> account[a].opening])
        + SumOf([p \in {q \in Payments : payments[q].status = "POSTED"} |->
                    PaymentDelta(payments[p].data)])
        - SumOf([e \in {x \in Expenses : expenses[x].status = "POSTED"} |->
                    expenses[e].data.amount])

(* A posted payment keeps its data, allocations and number for ever, and   *)
(* may only become REVERSED: no edit or delete that checked the draft      *)
(* earlier reaches it.                                                     *)
PostedPaymentFrozen ==
    [][\A p \in Payments :
          payments[p].status \in {"POSTED", "REVERSED"} =>
             payments'[p] \in {payments[p], [payments[p] EXCEPT !.status = "REVERSED"]}]_vars

(* The same of expenses, which is what "Only draft expenses can be edited" *)
(* says in updateExpense.                                                  *)
PostedExpenseFrozen ==
    [][\A e \in Expenses :
          expenses[e].status \in {"POSTED", "CANCELLED"} =>
             expenses'[e] \in {expenses[e], [expenses[e] EXCEPT !.status = "CANCELLED"]}]_vars

(* A payment is posted only while its customer or supplier is active.      *)
PostedForActiveParty ==
    [][\A p \in Payments :
          payments[p].status = "DRAFT" /\ payments'[p].status = "POSTED"
             => partyActive[payments[p].data.party]]_vars

-----------------------------------------------------------------------------
(* Finance implements Postings: a payment or a transfer moves the balances *)
(* once, and its reversal takes back exactly that.                         *)

PaymentEffect(dto) ==
    [a \in Accounts |-> IF a = dto.account THEN PaymentDelta(dto) ELSE 0]

TransferEffect(dto) ==
    [a \in Accounts |-> IF a = dto.from THEN -dto.amount
                        ELSE IF a = dto.to THEN dto.amount ELSE 0]

PhaseOf(status) ==
    CASE status \in {"ABSENT", "DRAFT"} -> "idle"
      [] status = "POSTED" -> "applied"
      [] status = "REVERSED" -> "undone"

PostingOf(row, Effect(_)) ==
    [phase |-> PhaseOf(row.status),
     effect |-> IF PhaseOf(row.status) = "idle" THEN [a \in Accounts |-> 0]
                                                ELSE Effect(row.data)]

Book == INSTANCE Postings
    WITH Cells <- Accounts, Items <- Payments \cup Transfers,
         quantity <- balance,
         posting <- [i \in Payments \cup Transfers |->
                        IF i \in Payments
                        THEN PostingOf(payments[i], PaymentEffect)
                        ELSE PostingOf(transfers[i], TransferEffect)]

ImplementsPostings == Book!Spec

=============================================================================
