--------------------------- MODULE FinanceProofs ----------------------------
(***************************************************************************)
(* Theorems about Finance, for any number of accounts, payments, expenses, *)
(* transfers, documents and pending requests.                              *)
(***************************************************************************)
EXTENDS Finance, LedgerProofs

(* An account not created yet has no rows and no money: what the first row *)
(* of a new account relies on.                                             *)
AbsentEmpty ==
    \A a \in Accounts :
        account[a].state = "ABSENT" => entries[a] = << >> /\ balance[a] = 0

(* What a changeBalance call does to the books, whatever it is for: types, *)
(* and every account's log stays reconciled with its balance.              *)
LEMMA ChangeBalanceLemma ==
    ASSUME TypeOK, NEW moves, DOMAIN moves \subseteq Accounts,
           \A a \in DOMAIN moves :
              moves[a] \in [kind : EntryKinds, delta : Int, ref : Refs],
           ChangeBalance(moves)
    PROVE  /\ balance' \in [Accounts -> Int]
           /\ entries' \in [Accounts -> Seq(EntrySet(EntryKinds, Refs))]
           /\ account' = account
           /\ nextAccountNumber' = nextAccountNumber
           /\ LedgerReconciles => LedgerReconciles'
           /\ AbsentEmpty => AbsentEmpty'
<1>1. ASSUME NEW a \in DOMAIN moves
      PROVE  /\ entries[a] \in Seq(EntrySet(EntryKinds, Refs))
             /\ balance[a] \in Int
             /\ moves[a].kind \in EntryKinds
             /\ moves[a].delta \in Int
             /\ moves[a].ref \in Refs
  BY DEF TypeOK
<1>2. ASSUME NEW a \in DOMAIN moves
      PROVE  Entry(moves[a].kind, moves[a].delta, balance[a], moves[a].ref)
                \in EntrySet(EntryKinds, Refs)
  BY <1>1 DEF Entry, EntrySet
<1>3. entries' \in [Accounts -> Seq(EntrySet(EntryKinds, Refs))]
  BY <1>1, <1>2 DEF ChangeBalance, TypeOK
<1>4. balance' \in [Accounts -> Int]
  BY <1>1 DEF ChangeBalance, TypeOK
<1>5. ASSUME LedgerReconciles, NEW a \in Accounts
      PROVE  Reconciles(entries'[a], balance'[a])
  <2>1. Reconciles(entries[a], balance[a])
    BY <1>5 DEF LedgerReconciles
  <2>2. CASE a \in DOMAIN moves
    <3>1. Reconciles(Append(entries[a],
                            Entry(moves[a].kind, moves[a].delta, balance[a],
                                  moves[a].ref)),
                     balance[a] + moves[a].delta)
      BY <2>1, <2>2, <1>1, ReconcilesAppend
    <3>. QED
      BY <2>2, <3>1 DEF ChangeBalance
  <2>3. CASE a \notin DOMAIN moves
    BY <2>1, <2>3 DEF ChangeBalance
  <2>. QED
    BY <2>2, <2>3
<1>6. ASSUME AbsentEmpty PROVE AbsentEmpty'
  BY <1>6 DEF AbsentEmpty, ChangeBalance
<1>. QED
  BY <1>3, <1>4, <1>5, <1>6 DEF ChangeBalance, LedgerReconciles

-----------------------------------------------------------------------------
(* A row that exists holds what a request may carry. *)

LEMMA AmountsAreNaturals == Amounts \subseteq Nat /\ Openings \subseteq Nat
BY FinanceAssumption

LEMMA PaymentRow ==
    ASSUME TypeOK, NEW p \in Payments, payments[p].status # "ABSENT"
    PROVE  /\ payments[p].data \in PaymentDto
           /\ payments[p].data.account \in Accounts
           /\ payments[p].data.type \in PaymentTypes
           /\ payments[p].data.year \in Years
           /\ PaymentDelta(payments[p].data) \in Int
           /\ -PaymentDelta(payments[p].data) \in Int
<1>1. payments[p].data \in PaymentDto
  BY DEF TypeOK, PaymentRows, ExpenseRows, TransferRows, Rows, Absent
<1>2. payments[p].data.amount \in Nat
  BY <1>1, AmountsAreNaturals DEF PaymentDto
<1>. QED
  BY <1>1, <1>2 DEF PaymentDto, PaymentDelta

LEMMA ExpenseRow ==
    ASSUME TypeOK, NEW e \in Expenses, expenses[e].status # "ABSENT"
    PROVE  /\ expenses[e].data \in ExpenseDto
           /\ expenses[e].data.account \in Accounts
           /\ expenses[e].data.year \in Years
           /\ expenses[e].data.amount \in Int
           /\ -expenses[e].data.amount \in Int
<1>1. expenses[e].data \in ExpenseDto
  BY DEF TypeOK, PaymentRows, ExpenseRows, TransferRows, Rows, Absent
<1>2. expenses[e].data.amount \in Nat
  BY <1>1, AmountsAreNaturals DEF ExpenseDto
<1>. QED
  BY <1>1, <1>2 DEF ExpenseDto

LEMMA TransferRow ==
    ASSUME TypeOK, NEW t \in Transfers, transfers[t].status # "ABSENT"
    PROVE  transfers[t].data \in TransferDto
BY DEF TypeOK, PaymentRows, ExpenseRows, TransferRows, Rows, Absent

LEMMA TransferDtoFields ==
    ASSUME NEW dto \in TransferDto
    PROVE  /\ dto.year \in Years
           /\ dto.from \in Accounts
           /\ dto.to \in Accounts
           /\ dto.amount \in Int
           /\ -dto.amount \in Int
<1>1. dto.amount \in Nat
  BY AmountsAreNaturals DEF TransferDto
<1>. QED
  BY <1>1 DEF TransferDto

(* A table stays well typed when one row changes status, takes a number or *)
(* has its data replaced.                                                  *)
LEMMA PaymentChange ==
    ASSUME TypeOK, NEW i \in Payments, payments[i].status # "ABSENT"
    PROVE  /\ \A s \in {"DRAFT", "POSTED", "REVERSED"} :
                 [payments EXCEPT ![i].status = s] \in [Payments -> PaymentRows]
           /\ \A s \in {"DRAFT", "POSTED", "REVERSED"}, n \in Years \X Nat :
                 [payments EXCEPT ![i].status = s, ![i].number = n]
                    \in [Payments -> PaymentRows]
           /\ \A d \in PaymentDto :
                 [payments EXCEPT ![i].data = d] \in [Payments -> PaymentRows]
<1> DEFINE S == {"DRAFT", "POSTED", "REVERSED"}
           N == (Years \X Nat) \cup {NoNumber}
           R == [status : S, data : PaymentDto, number : N]
<1>1. payments[i] \in R /\ R \subseteq PaymentRows /\ payments \in [Payments -> PaymentRows]
  BY DEF TypeOK, PaymentRows, Rows, Absent
<1>2. /\ \A s \in S : [payments[i] EXCEPT !.status = s] \in R
      /\ \A s \in S, n \in Years \X Nat :
            [payments[i] EXCEPT !.status = s, !.number = n] \in R
      /\ \A d \in PaymentDto : [payments[i] EXCEPT !.data = d] \in R
  BY <1>1
<1>3. \A row \in R : [payments EXCEPT ![i] = row] \in [Payments -> PaymentRows]
  <2> HIDE DEF R
  <2>. QED
    BY <1>1
<1>4. ASSUME NEW s \in S, NEW n \in Years \X Nat
      PROVE  [payments EXCEPT ![i].status = s, ![i].number = n]
                = [payments EXCEPT ![i] = [payments[i] EXCEPT !.status = s, !.number = n]]
  BY <1>1
<1> HIDE DEF R
<1>5. ASSUME NEW s \in S
      PROVE  [payments EXCEPT ![i].status = s] \in [Payments -> PaymentRows]
  BY <1>2, <1>3
<1>6. ASSUME NEW s \in S, NEW n \in Years \X Nat
      PROVE  [payments EXCEPT ![i].status = s, ![i].number = n] \in [Payments -> PaymentRows]
  <2> DEFINE row == [payments[i] EXCEPT !.status = s, !.number = n]
  <2>1. row \in R
    BY <1>2, <1>6
  <2>2. [payments EXCEPT ![i].status = s, ![i].number = n] = [payments EXCEPT ![i] = row]
    BY <1>4, <1>6
  <2> HIDE DEF row
  <2>3. [payments EXCEPT ![i] = row] \in [Payments -> PaymentRows]
    BY <1>3, <2>1
  <2>. QED
    BY <2>2, <2>3
<1>7. ASSUME NEW d \in PaymentDto
      PROVE  [payments EXCEPT ![i].data = d] \in [Payments -> PaymentRows]
  BY <1>2, <1>3
<1>. QED
  BY <1>5, <1>6, <1>7

LEMMA ExpenseChange ==
    ASSUME TypeOK, NEW i \in Expenses, expenses[i].status # "ABSENT"
    PROVE  /\ \A s \in {"DRAFT", "POSTED", "CANCELLED"} :
                 [expenses EXCEPT ![i].status = s] \in [Expenses -> ExpenseRows]
           /\ \A s \in {"DRAFT", "POSTED", "CANCELLED"}, n \in Years \X Nat :
                 [expenses EXCEPT ![i].status = s, ![i].number = n]
                    \in [Expenses -> ExpenseRows]
           /\ \A d \in ExpenseDto :
                 [expenses EXCEPT ![i].data = d] \in [Expenses -> ExpenseRows]
<1> DEFINE S == {"DRAFT", "POSTED", "CANCELLED"}
           N == (Years \X Nat) \cup {NoNumber}
           R == [status : S, data : ExpenseDto, number : N]
<1>1. expenses[i] \in R /\ R \subseteq ExpenseRows /\ expenses \in [Expenses -> ExpenseRows]
  BY DEF TypeOK, ExpenseRows, Rows, Absent
<1>2. /\ \A s \in S : [expenses[i] EXCEPT !.status = s] \in R
      /\ \A s \in S, n \in Years \X Nat :
            [expenses[i] EXCEPT !.status = s, !.number = n] \in R
      /\ \A d \in ExpenseDto : [expenses[i] EXCEPT !.data = d] \in R
  BY <1>1
<1>3. \A row \in R : [expenses EXCEPT ![i] = row] \in [Expenses -> ExpenseRows]
  <2> HIDE DEF R
  <2>. QED
    BY <1>1
<1>4. ASSUME NEW s \in S, NEW n \in Years \X Nat
      PROVE  [expenses EXCEPT ![i].status = s, ![i].number = n]
                = [expenses EXCEPT ![i] = [expenses[i] EXCEPT !.status = s, !.number = n]]
  BY <1>1
<1> HIDE DEF R
<1>5. ASSUME NEW s \in S
      PROVE  [expenses EXCEPT ![i].status = s] \in [Expenses -> ExpenseRows]
  BY <1>2, <1>3
<1>6. ASSUME NEW s \in S, NEW n \in Years \X Nat
      PROVE  [expenses EXCEPT ![i].status = s, ![i].number = n] \in [Expenses -> ExpenseRows]
  <2> DEFINE row == [expenses[i] EXCEPT !.status = s, !.number = n]
  <2>1. row \in R
    BY <1>2, <1>6
  <2>2. [expenses EXCEPT ![i].status = s, ![i].number = n] = [expenses EXCEPT ![i] = row]
    BY <1>4, <1>6
  <2> HIDE DEF row
  <2>3. [expenses EXCEPT ![i] = row] \in [Expenses -> ExpenseRows]
    BY <1>3, <2>1
  <2>. QED
    BY <2>2, <2>3
<1>7. ASSUME NEW d \in ExpenseDto
      PROVE  [expenses EXCEPT ![i].data = d] \in [Expenses -> ExpenseRows]
  BY <1>2, <1>3
<1>. QED
  BY <1>5, <1>6, <1>7

LEMMA TransferChange ==
    ASSUME TypeOK, NEW i \in Transfers, transfers[i].status # "ABSENT"
    PROVE  /\ \A s \in {"POSTED", "REVERSED"} :
                 [transfers EXCEPT ![i].status = s] \in [Transfers -> TransferRows]
           /\ \A s \in {"POSTED", "REVERSED"}, n \in Years \X Nat :
                 [transfers EXCEPT ![i].status = s, ![i].number = n]
                    \in [Transfers -> TransferRows]
           /\ \A d \in TransferDto :
                 [transfers EXCEPT ![i].data = d] \in [Transfers -> TransferRows]
<1> DEFINE S == {"POSTED", "REVERSED"}
           N == (Years \X Nat) \cup {NoNumber}
           R == [status : S, data : TransferDto, number : N]
<1>1. transfers[i] \in R /\ R \subseteq TransferRows /\ transfers \in [Transfers -> TransferRows]
  BY DEF TypeOK, TransferRows, Rows, Absent
<1>2. /\ \A s \in S : [transfers[i] EXCEPT !.status = s] \in R
      /\ \A s \in S, n \in Years \X Nat :
            [transfers[i] EXCEPT !.status = s, !.number = n] \in R
      /\ \A d \in TransferDto : [transfers[i] EXCEPT !.data = d] \in R
  BY <1>1
<1>3. \A row \in R : [transfers EXCEPT ![i] = row] \in [Transfers -> TransferRows]
  <2> HIDE DEF R
  <2>. QED
    BY <1>1
<1>4. ASSUME NEW s \in S, NEW n \in Years \X Nat
      PROVE  [transfers EXCEPT ![i].status = s, ![i].number = n]
                = [transfers EXCEPT ![i] = [transfers[i] EXCEPT !.status = s, !.number = n]]
  BY <1>1
<1> HIDE DEF R
<1>5. ASSUME NEW s \in S
      PROVE  [transfers EXCEPT ![i].status = s] \in [Transfers -> TransferRows]
  BY <1>2, <1>3
<1>6. ASSUME NEW s \in S, NEW n \in Years \X Nat
      PROVE  [transfers EXCEPT ![i].status = s, ![i].number = n] \in [Transfers -> TransferRows]
  BY <1>2, <1>3, <1>4
<1>7. ASSUME NEW d \in TransferDto
      PROVE  [transfers EXCEPT ![i].data = d] \in [Transfers -> TransferRows]
  BY <1>2, <1>3
<1>. QED
  BY <1>5, <1>6, <1>7

LEMMA TransferMovesType ==
    ASSUME NEW t \in Transfers, NEW dto \in TransferDto,
           NEW k1 \in EntryKinds, NEW k2 \in EntryKinds, NEW n \in Int
    PROVE  LET moves == TransferMoves(t, dto, k1, k2, n) IN
           /\ DOMAIN moves \subseteq Accounts
           /\ \A a \in DOMAIN moves :
                 moves[a] \in [kind : EntryKinds, delta : Int, ref : Refs]
<1>1. dto.from \in Accounts /\ dto.to \in Accounts /\ t \in Refs
  BY DEF TransferDto, Refs
<1>2. -n \in Int
  OBVIOUS
<1>. QED
  BY <1>1, <1>2 DEF TransferMoves, Move

LEMMA TakeNumberLemma ==
    ASSUME TypeOK, NEW type \in SequenceTypes, NEW year \in Years,
           TakeNumber(type, year)
    PROVE  /\ sequence' \in [SequenceTypes \X Years -> Nat]
           /\ NextNumber(type, year) \in Years \X Nat
BY DEF TypeOK, TakeNumber, NextNumber

-----------------------------------------------------------------------------
(* Type correctness, and with it the ledger: every action keeps both.      *)

IInv == TypeOK /\ LedgerReconciles /\ AbsentEmpty

BooksOK ==
    /\ account \in [Accounts -> [state : {"ABSENT", "ACTIVE", "INACTIVE"},
                                 code : Nat, opening : Nat]]
    /\ balance \in [Accounts -> Int]
    /\ entries \in [Accounts -> Seq(EntrySet(EntryKinds, Refs))]
    /\ nextAccountNumber \in Nat
    /\ LedgerReconciles
    /\ AbsentEmpty

RowsOK ==
    /\ payments \in [Payments -> PaymentRows]
    /\ expenses \in [Expenses -> ExpenseRows]
    /\ transfers \in [Transfers -> TransferRows]
    /\ sequence \in [SequenceTypes \X Years -> Nat]

WorldOK ==
    /\ docStatus \in [Documents -> {"DRAFT", "FINALIZED", "CANCELLED"}]
    /\ partyActive \in [Parties -> BOOLEAN]

InflightOK == inflight \subseteq Requests

(* The invariant by groups of variables, as the actions leave them alone. *)
LEMMA IInvByGroup == IInv <=> BooksOK /\ RowsOK /\ WorldOK /\ InflightOK
BY DEF IInv, TypeOK, BooksOK, RowsOK, WorldOK, InflightOK

LEMMA IInvByGroupPrime == IInv' <=> BooksOK' /\ RowsOK' /\ WorldOK' /\ InflightOK'
BY DEF IInv, TypeOK, BooksOK, RowsOK, WorldOK, InflightOK

LEMMA BooksUnchanged == BooksOK /\ UNCHANGED books => BooksOK'
BY DEF BooksOK, books, LedgerReconciles, AbsentEmpty

LEMMA RowsUnchanged == RowsOK /\ UNCHANGED rows => RowsOK'
BY DEF RowsOK, rows

LEMMA WorldUnchanged == WorldOK /\ UNCHANGED world => WorldOK'
BY DEF WorldOK, world

LEMMA BooksChanged ==
    ASSUME IInv, NEW moves, DOMAIN moves \subseteq Accounts,
           \A a \in DOMAIN moves :
              moves[a] \in [kind : EntryKinds, delta : Int, ref : Refs],
           ChangeBalance(moves)
    PROVE  BooksOK'
BY ChangeBalanceLemma DEF IInv, BooksOK, TypeOK

LEMMA BeginInflight ==
    ASSUME IInv, NEW request \in Requests, Begin(request)
    PROVE  IInv'
<1>1. BooksOK' /\ RowsOK' /\ WorldOK'
  BY BooksUnchanged, RowsUnchanged, WorldUnchanged, IInvByGroup DEF Begin
<1>2. InflightOK'
  BY DEF IInv, TypeOK, InflightOK, Begin
<1>. QED
  BY <1>1, <1>2, IInvByGroupPrime

LEMMA EndInflight ==
    ASSUME IInv, NEW request, End(request)
    PROVE  InflightOK' /\ request \in Requests
BY DEF IInv, TypeOK, InflightOK, End

LEMMA InitIInv == Init => IInv
<1> SUFFICES ASSUME Init PROVE IInv
  OBVIOUS
<1>1. TypeOK
  BY DEF Init, TypeOK, PaymentRows, ExpenseRows, TransferRows, Rows
<1>2. LedgerReconciles /\ AbsentEmpty
  BY DEF Init, LedgerReconciles, Reconciles, AbsentEmpty
<1>. QED
  BY <1>1, <1>2 DEF IInv

-----------------------------------------------------------------------------
(* One lemma per group of handlers.                                        *)

LEMMA AccountSteps ==
    ASSUME IInv, NEW a \in Accounts,
           \/ \E opening \in Openings, active \in BOOLEAN :
                 CreateAccount(a, opening, active)
           \/ ReadAccount(a)
    PROVE  IInv'
<1>1. ASSUME NEW opening \in Openings, NEW active \in BOOLEAN,
             CreateAccount(a, opening, active)
      PROVE  IInv'
  <2>1. opening \in Nat /\ nextAccountNumber \in Nat
    BY AmountsAreNaturals DEF IInv, TypeOK
  <2>2. /\ account' \in [Accounts -> [state : {"ABSENT", "ACTIVE", "INACTIVE"},
                                      code : Nat, opening : Nat]]
        /\ balance' \in [Accounts -> Int]
        /\ nextAccountNumber' \in Nat
    BY <1>1, <2>1 DEF CreateAccount, IInv, TypeOK
  <2>3. /\ entries[a] = << >>
        /\ balance[a] = 0
        /\ Reconciles(entries[a], 0)
        /\ entries[a] \in Seq(EntrySet(EntryKinds, Refs))
    BY <1>1 DEF CreateAccount, IInv, TypeOK, AbsentEmpty, LedgerReconciles
  <2> DEFINE new == Append(entries[a], Entry("OPENING_BALANCE", opening, 0, NoRef))
  <2>4. /\ new \in Seq(EntrySet(EntryKinds, Refs))
        /\ Reconciles(new, 0 + opening)
    <3>1. "OPENING_BALANCE" \in EntryKinds /\ NoRef \in Refs /\ 0 \in Int /\ opening \in Int
      BY <2>1 DEF EntryKinds, Refs
    <3>. QED
      BY <3>1, <2>3, ReconcilesAppend
  <2>5. entries' = [entries EXCEPT ![a] = IF opening = 0 THEN @ ELSE new]
    BY <1>1 DEF CreateAccount
  <2>6. entries' \in [Accounts -> Seq(EntrySet(EntryKinds, Refs))]
    BY <2>3, <2>4, <2>5 DEF IInv, TypeOK
  <2>7. ASSUME NEW b \in Accounts PROVE Reconciles(entries'[b], balance'[b])
    <3>1. CASE b # a
      BY <3>1, <1>1, <2>5 DEF CreateAccount, IInv, TypeOK, LedgerReconciles
    <3>2. CASE b = a
      <4>1. balance'[a] = opening
        BY <1>1 DEF CreateAccount, IInv, TypeOK
      <4>2. entries'[a] = IF opening = 0 THEN entries[a] ELSE new
        BY <2>5 DEF IInv, TypeOK
      <4>3. 0 + opening = opening
        BY <2>1
      <4>. QED
        BY <3>2, <4>1, <4>2, <4>3, <2>3, <2>4
    <3>. QED
      BY <3>1, <3>2
  <2>8. AbsentEmpty'
    BY <1>1, <2>5 DEF CreateAccount, IInv, TypeOK, AbsentEmpty
  <2>9. BooksOK'
    BY <2>2, <2>6, <2>7, <2>8 DEF BooksOK, LedgerReconciles
  <2>10. RowsOK' /\ WorldOK' /\ InflightOK'
    BY <1>1, RowsUnchanged, WorldUnchanged, IInvByGroup
    DEF CreateAccount, InflightOK
  <2>. QED
    BY <2>9, <2>10, IInvByGroupPrime
<1>2. ASSUME ReadAccount(a) PROVE IInv'
  <2>1. PICK active \in BOOLEAN \cup {account[a].state = "ACTIVE"} :
           Begin([op |-> "updateAccount", id |-> a, active |-> active])
    BY <1>2 DEF ReadAccount
  <2>2. (account[a].state = "ACTIVE") \in BOOLEAN
    OBVIOUS
  <2>3. [op |-> "updateAccount", id |-> a, active |-> active] \in Requests
    BY <2>1, <2>2 DEF Requests
  <2>. QED
    BY <2>1, <2>3, BeginInflight
<1>. QED
  BY <1>1, <1>2

LEMMA PaymentSteps ==
    ASSUME IInv, NEW p \in Payments,
           \/ \E dto \in PaymentDto : CreatePayment(p, dto) \/ UpdatePayment(p, dto)
           \/ PostPayment(p)
           \/ ReversePayment(p)
           \/ ReadPaymentToDelete(p)
    PROVE  IInv'
<1>1. ASSUME NEW dto \in PaymentDto, CreatePayment(p, dto) PROVE IInv'
  <2>1. RowsOK'
    BY <1>1 DEF CreatePayment, IInv, TypeOK, RowsOK, PaymentRows, ExpenseRows, TransferRows, Rows
  <2>2. BooksOK' /\ WorldOK' /\ InflightOK'
    BY <1>1, BooksUnchanged, WorldUnchanged, IInvByGroup
    DEF CreatePayment, InflightOK
  <2>. QED
    BY <2>1, <2>2, IInvByGroupPrime
<1>2. ASSUME NEW dto \in PaymentDto, UpdatePayment(p, dto) PROVE IInv'
  <2>1. RowsOK'
    BY <1>2, PaymentChange DEF UpdatePayment, IInv, TypeOK, RowsOK
  <2>2. BooksOK' /\ WorldOK' /\ InflightOK'
    BY <1>2, BooksUnchanged, WorldUnchanged, IInvByGroup
    DEF UpdatePayment, InflightOK
  <2>. QED
    BY <2>1, <2>2, IInvByGroupPrime
<1>3. ASSUME PostPayment(p) PROVE IInv'
  <2> DEFINE dto == payments[p].data
             moves == [a \in {dto.account} |-> Move(dto.type, PaymentDelta(dto), p)]
  <2>1. /\ TakeNumber(dto.type, dto.year)
        /\ ChangeBalance(moves)
        /\ payments[p].status = "DRAFT"
        /\ payments' = [payments EXCEPT ![p].status = "POSTED",
                                        ![p].number = NextNumber(dto.type, dto.year)]
    BY <1>3 DEF PostPayment
  <2>2. payments[p].status # "ABSENT" /\ TypeOK
    BY <2>1 DEF IInv
  <2>3. /\ dto \in PaymentDto /\ dto.account \in Accounts /\ dto.type \in PaymentTypes
        /\ dto.year \in Years /\ PaymentDelta(dto) \in Int
    BY <2>2, PaymentRow
  <2>4. dto.type \in EntryKinds /\ dto.type \in SequenceTypes /\ p \in Refs
    BY <2>3 DEF EntryKinds, SequenceTypes, PaymentTypes, Refs
  <2>5. BooksOK'
    <3>1. DOMAIN moves \subseteq Accounts
      BY <2>3
    <3>2. \A a \in DOMAIN moves :
             moves[a] \in [kind : EntryKinds, delta : Int, ref : Refs]
      BY <2>3, <2>4 DEF Move
    <3>. QED
      BY <3>1, <3>2, <2>1, BooksChanged
  <2>6. /\ sequence' \in [SequenceTypes \X Years -> Nat]
        /\ NextNumber(dto.type, dto.year) \in Years \X Nat
    BY <2>1, <2>2, <2>3, <2>4, TakeNumberLemma
  <2>7. RowsOK'
    <3>1. payments' \in [Payments -> PaymentRows]
      BY <2>1, <2>2, <2>6, PaymentChange
    <3>. QED
      BY <3>1, <2>1, <2>2, <2>6, <1>3 DEF PostPayment, TypeOK, RowsOK
  <2>8. WorldOK' /\ InflightOK'
    BY <1>3, WorldUnchanged, IInvByGroup DEF PostPayment, InflightOK
  <2>. QED
    BY <2>5, <2>7, <2>8, IInvByGroupPrime
<1>4. ASSUME ReversePayment(p) PROVE IInv'
  <2> DEFINE dto == payments[p].data
             moves == [a \in {dto.account} |->
                          Move("PAYMENT_REVERSAL", -PaymentDelta(dto), p)]
  <2>1. /\ ChangeBalance(moves)
        /\ payments[p].status = "POSTED"
        /\ payments' = [payments EXCEPT ![p].status = "REVERSED"]
    BY <1>4 DEF ReversePayment
  <2>2. payments[p].status # "ABSENT" /\ TypeOK
    BY <2>1 DEF IInv
  <2>3. dto.account \in Accounts /\ -PaymentDelta(dto) \in Int
    BY <2>2, PaymentRow
  <2>4. "PAYMENT_REVERSAL" \in EntryKinds /\ p \in Refs
    BY DEF EntryKinds, Refs
  <2>5. BooksOK'
    <3>1. DOMAIN moves \subseteq Accounts
      BY <2>3
    <3>2. \A a \in DOMAIN moves :
             moves[a] \in [kind : EntryKinds, delta : Int, ref : Refs]
      BY <2>3, <2>4 DEF Move
    <3>. QED
      BY <3>1, <3>2, <2>1, BooksChanged
  <2>6. RowsOK'
    <3>1. payments' \in [Payments -> PaymentRows]
      BY <2>1, <2>2, PaymentChange
    <3>. QED
      BY <3>1, <2>1, <2>2, <1>4 DEF ReversePayment, TypeOK, RowsOK
  <2>7. WorldOK' /\ InflightOK'
    BY <1>4, WorldUnchanged, IInvByGroup DEF ReversePayment, InflightOK
  <2>. QED
    BY <2>5, <2>6, <2>7, IInvByGroupPrime
<1>5. ASSUME ReadPaymentToDelete(p) PROVE IInv'
  <2>1. [op |-> "deletePayment", id |-> p] \in Requests
    BY DEF Requests
  <2>. QED
    BY <1>5, <2>1, BeginInflight DEF ReadPaymentToDelete
<1>. QED
  BY <1>1, <1>2, <1>3, <1>4, <1>5

LEMMA ExpenseSteps ==
    ASSUME IInv, NEW e \in Expenses,
           \/ \E dto \in ExpenseDto : ReadForExpense(e, dto)
           \/ PostExpense(e)
           \/ CancelExpense(e)
           \/ ReadExpenseToDelete(e)
    PROVE  IInv'
<1>1. ASSUME NEW dto \in ExpenseDto, ReadForExpense(e, dto) PROVE IInv'
  <2>1. /\ [op |-> "createExpense", id |-> e, data |-> dto] \in Requests
        /\ [op |-> "updateExpense", id |-> e, data |-> dto] \in Requests
    BY DEF Requests
  <2>. QED
    BY <1>1, <2>1, BeginInflight DEF ReadForExpense
<1>2. ASSUME PostExpense(e) PROVE IInv'
  <2> DEFINE dto == expenses[e].data
             moves == [a \in {dto.account} |-> Move("EXPENSE", -dto.amount, e)]
  <2>1. /\ TakeNumber("EXPENSE", dto.year)
        /\ ChangeBalance(moves)
        /\ expenses[e].status = "DRAFT"
        /\ expenses' = [expenses EXCEPT ![e].status = "POSTED",
                                        ![e].number = NextNumber("EXPENSE", dto.year)]
    BY <1>2 DEF PostExpense
  <2>2. expenses[e].status # "ABSENT" /\ TypeOK
    BY <2>1 DEF IInv
  <2>3. dto.account \in Accounts /\ dto.year \in Years /\ -dto.amount \in Int
    BY <2>2, ExpenseRow
  <2>4. "EXPENSE" \in EntryKinds /\ "EXPENSE" \in SequenceTypes /\ e \in Refs
    BY DEF EntryKinds, SequenceTypes, Refs
  <2>5. BooksOK'
    <3>1. DOMAIN moves \subseteq Accounts
      BY <2>3
    <3>2. \A a \in DOMAIN moves :
             moves[a] \in [kind : EntryKinds, delta : Int, ref : Refs]
      BY <2>3, <2>4 DEF Move
    <3>. QED
      BY <3>1, <3>2, <2>1, BooksChanged
  <2>6. /\ sequence' \in [SequenceTypes \X Years -> Nat]
        /\ NextNumber("EXPENSE", dto.year) \in Years \X Nat
    BY <2>1, <2>2, <2>3, <2>4, TakeNumberLemma
  <2>7. RowsOK'
    <3>1. expenses' \in [Expenses -> ExpenseRows]
      BY <2>1, <2>2, <2>6, ExpenseChange
    <3>. QED
      BY <3>1, <2>1, <2>2, <2>6, <1>2 DEF PostExpense, TypeOK, RowsOK
  <2>8. WorldOK' /\ InflightOK'
    BY <1>2, WorldUnchanged, IInvByGroup DEF PostExpense, InflightOK
  <2>. QED
    BY <2>5, <2>7, <2>8, IInvByGroupPrime
<1>3. ASSUME CancelExpense(e) PROVE IInv'
  <2> DEFINE dto == expenses[e].data
             moves == [a \in {dto.account} |-> Move("EXPENSE_REVERSAL", dto.amount, e)]
  <2>1. /\ ChangeBalance(moves)
        /\ expenses[e].status = "POSTED"
        /\ expenses' = [expenses EXCEPT ![e].status = "CANCELLED"]
    BY <1>3 DEF CancelExpense
  <2>2. expenses[e].status # "ABSENT" /\ TypeOK
    BY <2>1 DEF IInv
  <2>3. dto.account \in Accounts /\ dto.amount \in Int
    BY <2>2, ExpenseRow
  <2>4. "EXPENSE_REVERSAL" \in EntryKinds /\ e \in Refs
    BY DEF EntryKinds, Refs
  <2>5. BooksOK'
    <3>1. DOMAIN moves \subseteq Accounts
      BY <2>3
    <3>2. \A a \in DOMAIN moves :
             moves[a] \in [kind : EntryKinds, delta : Int, ref : Refs]
      BY <2>3, <2>4 DEF Move
    <3>. QED
      BY <3>1, <3>2, <2>1, BooksChanged
  <2>6. RowsOK'
    <3>1. expenses' \in [Expenses -> ExpenseRows]
      BY <2>1, <2>2, ExpenseChange
    <3>. QED
      BY <3>1, <2>1, <2>2, <1>3 DEF CancelExpense, TypeOK, RowsOK
  <2>7. WorldOK' /\ InflightOK'
    BY <1>3, WorldUnchanged, IInvByGroup DEF CancelExpense, InflightOK
  <2>. QED
    BY <2>5, <2>6, <2>7, IInvByGroupPrime
<1>4. ASSUME ReadExpenseToDelete(e) PROVE IInv'
  <2>1. [op |-> "deleteExpense", id |-> e] \in Requests
    BY DEF Requests
  <2>. QED
    BY <1>4, <2>1, BeginInflight DEF ReadExpenseToDelete
<1>. QED
  BY <1>1, <1>2, <1>3, <1>4

LEMMA TransferSteps ==
    ASSUME IInv, NEW t \in Transfers,
           \/ \E dto \in TransferDto : CreateTransfer(t, dto)
           \/ ReverseTransfer(t)
    PROVE  IInv'
<1> USE DEF IInv
<1>1. ASSUME NEW dto \in TransferDto, CreateTransfer(t, dto) PROVE IInv'
  <2>1. "TRANSFER_OUT" \in EntryKinds /\ "TRANSFER_IN" \in EntryKinds
        /\ "TRANSFER" \in SequenceTypes
    BY DEF EntryKinds, SequenceTypes
  <2>2. dto.year \in Years /\ dto.amount \in Int
    BY TransferDtoFields
  <2>3. /\ ChangeBalance(TransferMoves(t, dto, "TRANSFER_OUT", "TRANSFER_IN", dto.amount))
        /\ TakeNumber("TRANSFER", dto.year)
        /\ transfers' = [transfers EXCEPT ![t] =
                            [status |-> "POSTED", data |-> dto,
                             number |-> NextNumber("TRANSFER", dto.year)]]
    BY <1>1 DEF CreateTransfer
  <2>4. BooksOK'
    BY <2>1, <2>2, <2>3, TransferMovesType, BooksChanged
  <2>5. /\ sequence' \in [SequenceTypes \X Years -> Nat]
        /\ NextNumber("TRANSFER", dto.year) \in Years \X Nat
    BY <2>1, <2>2, <2>3, TakeNumberLemma
  <2>6. RowsOK'
    BY <1>1, <2>3, <2>5 DEF CreateTransfer, TypeOK, RowsOK, PaymentRows, ExpenseRows, TransferRows, Rows
  <2>7. WorldOK' /\ InflightOK'
    BY <1>1, WorldUnchanged, IInvByGroup DEF CreateTransfer, InflightOK
  <2>. QED
    BY <2>4, <2>6, <2>7, IInvByGroupPrime
<1>2. ASSUME ReverseTransfer(t) PROVE IInv'
  <2> DEFINE dto == transfers[t].data
  <2>1. "TRANSFER_REVERSAL" \in EntryKinds
    BY DEF EntryKinds
  <2>2. dto \in TransferDto
    BY <1>2, TransferRow DEF ReverseTransfer
  <2>3. -dto.amount \in Int
    BY <2>2, TransferDtoFields
  <2>4. /\ ChangeBalance(TransferMoves(t, dto, "TRANSFER_REVERSAL",
                                       "TRANSFER_REVERSAL", -dto.amount))
        /\ transfers[t].status = "POSTED"
        /\ transfers' = [transfers EXCEPT ![t].status = "REVERSED"]
    BY <1>2 DEF ReverseTransfer
  <2>5. BooksOK'
    BY <2>1, <2>2, <2>3, <2>4, TransferMovesType, BooksChanged
  <2>6. RowsOK'
    <3>1. transfers' \in [Transfers -> TransferRows]
      BY <2>4, TransferChange
    <3>2. UNCHANGED <<payments, expenses, sequence>>
      BY <1>2 DEF ReverseTransfer
    <3>. QED
      BY <3>1, <3>2 DEF TypeOK, RowsOK
  <2>7. WorldOK' /\ InflightOK'
    BY <1>2, WorldUnchanged, IInvByGroup DEF ReverseTransfer, InflightOK
  <2>. QED
    BY <2>5, <2>6, <2>7, IInvByGroupPrime
<1>. QED
  BY <1>1, <1>2

LEMMA RequestSteps ==
    ASSUME IInv, NEW request \in inflight,
           \/ WriteAccount(request)
           \/ DeletePayment(request)
           \/ CreateExpense(request)
           \/ UpdateExpense(request)
           \/ DeleteExpense(request)
           \/ Abandon(request)
    PROVE  IInv'
<1>0. request \in Requests
  BY DEF IInv, TypeOK
<1>1. ASSUME WriteAccount(request) PROVE IInv'
  <2> DEFINE R == [state : {"ABSENT", "ACTIVE", "INACTIVE"}, code : Nat, opening : Nat]
             s == IF request.active THEN "ACTIVE" ELSE "INACTIVE"
  <2>1. account' \in [Accounts -> R]
    <3>1. account \in [Accounts -> R]
      BY DEF IInv, TypeOK
    <3>2. account' = [account EXCEPT ![request.id].state = s]
      BY <1>1 DEF WriteAccount
    <3>3. \A row \in R : [row EXCEPT !.state = s] \in R
      OBVIOUS
    <3> HIDE DEF R, s
    <3>. QED
      BY <3>1, <3>2, <3>3
  <2>2. AbsentEmpty'
    BY <1>1 DEF WriteAccount, IInv, TypeOK, AbsentEmpty
  <2>3. BooksOK'
    BY <1>1, <2>1, <2>2 DEF WriteAccount, IInv, TypeOK, BooksOK, LedgerReconciles
  <2>4. RowsOK' /\ WorldOK' /\ InflightOK'
    BY <1>1, RowsUnchanged, WorldUnchanged, EndInflight, IInvByGroup DEF WriteAccount
  <2>. QED
    BY <2>3, <2>4, IInvByGroupPrime
<1>2. ASSUME DeletePayment(request) PROVE IInv'
  <2>1. RowsOK'
    BY <1>2 DEF DeletePayment, IInv, TypeOK, RowsOK, PaymentRows, ExpenseRows, TransferRows, Rows
  <2>2. BooksOK' /\ WorldOK' /\ InflightOK'
    BY <1>2, BooksUnchanged, WorldUnchanged, EndInflight, IInvByGroup DEF DeletePayment
  <2>. QED
    BY <2>1, <2>2, IInvByGroupPrime
<1>3. ASSUME CreateExpense(request) PROVE IInv'
  <2>1. request.data \in ExpenseDto
    BY <1>3, <1>0 DEF CreateExpense, Requests
  <2>2. RowsOK'
    BY <1>3, <2>1 DEF CreateExpense, IInv, TypeOK, RowsOK, PaymentRows, ExpenseRows, TransferRows, Rows
  <2>3. BooksOK' /\ WorldOK' /\ InflightOK'
    BY <1>3, BooksUnchanged, WorldUnchanged, EndInflight, IInvByGroup DEF CreateExpense
  <2>. QED
    BY <2>2, <2>3, IInvByGroupPrime
<1>4. ASSUME UpdateExpense(request) PROVE IInv'
  <2>1. request.data \in ExpenseDto /\ request.id \in Expenses
    BY <1>4, <1>0 DEF UpdateExpense, Requests
  <2>2. RowsOK'
    <3>1. CASE expenses[request.id] = Absent
      BY <1>4, <3>1 DEF UpdateExpense, IInv, TypeOK, RowsOK
    <3>2. CASE expenses[request.id] # Absent
      <4>1. expenses[request.id].status # "ABSENT"
        BY <3>2, <2>1 DEF IInv, TypeOK, PaymentRows, ExpenseRows, TransferRows, Rows, Absent
      <4>. QED
        BY <1>4, <3>2, <4>1, <2>1, ExpenseChange DEF UpdateExpense, IInv, TypeOK, RowsOK
    <3>. QED
      BY <3>1, <3>2
  <2>3. BooksOK' /\ WorldOK' /\ InflightOK'
    BY <1>4, BooksUnchanged, WorldUnchanged, EndInflight, IInvByGroup DEF UpdateExpense
  <2>. QED
    BY <2>2, <2>3, IInvByGroupPrime
<1>5. ASSUME DeleteExpense(request) PROVE IInv'
  <2>1. RowsOK'
    BY <1>5 DEF DeleteExpense, IInv, TypeOK, RowsOK, PaymentRows, ExpenseRows, TransferRows, Rows
  <2>2. BooksOK' /\ WorldOK' /\ InflightOK'
    BY <1>5, BooksUnchanged, WorldUnchanged, EndInflight, IInvByGroup DEF DeleteExpense
  <2>. QED
    BY <2>1, <2>2, IInvByGroupPrime
<1>6. ASSUME Abandon(request) PROVE IInv'
  BY <1>6, BooksUnchanged, RowsUnchanged, WorldUnchanged, EndInflight,
     IInvByGroup, IInvByGroupPrime DEF Abandon
<1>. QED
  BY <1>1, <1>2, <1>3, <1>4, <1>5, <1>6

LEMMA WorldSteps ==
    ASSUME IInv,
           \/ \E d \in Documents : FinalizeDocument(d) \/ CancelDocument(d)
           \/ \E c \in Parties : SetPartyActive(c)
    PROVE  IInv'
<1>1. UNCHANGED <<books, rows, inflight>>
  BY DEF FinalizeDocument, CancelDocument, SetPartyActive
<1>2. WorldOK'
  BY DEF FinalizeDocument, CancelDocument, SetPartyActive, IInv, TypeOK, WorldOK
<1>. QED
  BY <1>1, <1>2, BooksUnchanged, RowsUnchanged, IInvByGroup, IInvByGroupPrime
  DEF InflightOK

LEMMA NextIInv == IInv /\ [Next]_vars => IInv'
<1> SUFFICES ASSUME IInv, [Next]_vars PROVE IInv'
  OBVIOUS
<1>1. CASE Next
  BY <1>1, AccountSteps, PaymentSteps, ExpenseSteps, TransferSteps, RequestSteps,
     WorldSteps DEF Next
<1>2. CASE UNCHANGED vars
  BY <1>2, BooksUnchanged, RowsUnchanged, WorldUnchanged, IInvByGroup,
     IInvByGroupPrime DEF vars, InflightOK
<1>. QED
  BY <1>1, <1>2

(* Every reachable state is well typed: whatever the numbers of rows and   *)
(* requests, no handler writes a value outside its column's type.          *)
THEOREM FinanceTypeOK == Spec => []TypeOK
<1>1. IInv => TypeOK
  BY DEF IInv
<1>. QED
  BY <1>1, InitIInv, NextIInv, PTL DEF Spec

(* In every reachable state the balance stored on a money account is the   *)
(* one its ledger rows add up to, row by row without a gap.                *)
THEOREM FinanceLedgerReconciles == Spec => []LedgerReconciles
<1>1. IInv => LedgerReconciles
  BY DEF IInv
<1>. QED
  BY <1>1, InitIInv, NextIInv, PTL DEF Spec

=============================================================================
