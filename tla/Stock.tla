------------------------------- MODULE Stock --------------------------------
(***************************************************************************)
(* The products of one business, their stock and its movement log, the     *)
(* invoices and the other business documents that move stock:              *)
(* inventory.service.ts, products.service.ts, invoices.service.ts and      *)
(* business-documents.service.ts.                                          *)
(*                                                                         *)
(* Every handler here runs in one Serializable transaction (or, creating a *)
(* product, touches only rows it has just made and a counter it locks), so *)
(* it is one action.  Its guard is everything it checks; an attempt that   *)
(* fails a check or loses a conflict rolls back and is a stutter.          *)
(*                                                                         *)
(* Left out: prices, taxes, snapshots and parties, which never decide what *)
(* happens to stock (InvoiceCalculator, Parties); the line a converted     *)
(* line came from, which nothing reads.  A line is named by its document   *)
(* and position; the code's ids also tell a replaced line of a draft from  *)
(* the one it replaced, so the model accepts more returns than the code.   *)
(***************************************************************************)
EXTENDS Ledger, Sums, FiniteSets

CONSTANTS Products,      \* product and service ids
          Tracked,       \* the products of type PRODUCT with trackInventory
          Services,      \* the items of type SERVICE
          Documents,     \* ids of invoices and business documents
          TypeOf,        \* the type of each document
          Years,         \* financial years
          Drafts,        \* Drafts[d]: the drafts a request may carry for d
          NoDocument,    \* no source document, or no document behind a movement
          Openings,      \* opening stock a request may carry
          Quantities,    \* quantities an adjustment may carry
          MaxStock,      \* the largest quantity a column holds
          MaxAdjustments \* bound on the adjustments of a product

QuoteTypes == {"QUOTATION", "SALES_ORDER", "DELIVERY_CHALLAN", "PURCHASE_ORDER"}
ReturnTypes == {"SALES_RETURN", "PURCHASE_RETURN"}
DocumentTypes == QuoteTypes \cup ReturnTypes \cup {"INVOICE", "PURCHASE_BILL"}

Invoices == {d \in Documents : TypeOf[d] = "INVOICE"}
BusinessDocuments == Documents \ Invoices

(* A return's line names the line it returns, <<document, position>>. *)
NoLine == << >>
Line == [product : Products, quantity : Nat \ {0},
         sourceLine : (Documents \X (Nat \ {0})) \cup {NoLine}]
Draft == [lines : Seq(Line), source : Documents \cup {NoDocument}, year : Years]

LineLists == {draft.lines : draft \in UNION {Drafts[d] : d \in Documents}}

Absent == [status |-> "ABSENT"]
NoNumber == << >>
Statuses == {"DRAFT", "ISSUED", "ACCEPTED", "CONFIRMED", "FINALIZED", "CANCELLED"}
Data == [lines : LineLists, source : Documents \cup {NoDocument}, year : Years]
Row == [status : Statuses, data : Data,
        number : (Years \X Nat) \cup {NoNumber}]

(* The type of a movement; the code's also spells out the document's type. *)
MovementKinds == {"OPENING", "ADJUSTMENT_IN", "ADJUSTMENT_OUT",
                  "FINALIZED", "CANCELLED"}

(* The products of a list of lines that keep stock, and how many of each:  *)
(* lines of the same product are added up.                                 *)
TrackedIn(lines) == {lines[i].product : i \in DOMAIN lines} \cap Tracked

ProductQuantity(lines, p) ==
    SumOf([i \in {j \in DOMAIN lines : lines[j].product = p} |-> lines[i].quantity])

ASSUME StockAssumption ==
    /\ Tracked \subseteq Products
    /\ Services \subseteq Products \ Tracked
    /\ TypeOf \in [Documents -> DocumentTypes]
    /\ IsFiniteSet(Documents)          \* the rows of a table
    /\ NoDocument \notin Documents
    /\ \A d \in Documents : Drafts[d] \subseteq Draft
    /\ Openings \subseteq Nat
    /\ Quantities \subseteq Nat
    /\ MaxStock \in Nat
    /\ MaxAdjustments \in Nat

VARIABLES
    product,   \* Product rows: do they exist, are they active
    stock,     \* Product.currentStock
    movements, \* StockMovement rows of each product, in order
    docs,      \* Invoice and BusinessDocument rows with their lines
    sequence   \* InvoiceSequence and BusinessDocumentSequence.nextNumber

vars == <<product, stock, movements, docs, sequence>>

TypeOK ==
    /\ product \in [Products -> {"ABSENT", "ACTIVE", "INACTIVE"}]
    /\ stock \in [Products -> 0..MaxStock]
    /\ movements \in [Products -> Seq(EntrySet(MovementKinds,
                                               Documents \cup {NoDocument}))]
    /\ docs \in [Documents -> Row \cup {Absent}]
    /\ sequence \in [DocumentTypes \X Years -> Nat]

Init ==
    /\ product = [p \in Products |-> "ABSENT"]
    /\ stock = [p \in Products |-> 0]
    /\ movements = [p \in Products |-> << >>]
    /\ docs = [d \in Documents |-> Absent]
    /\ sequence = [k \in DocumentTypes \X Years |-> 0]

-----------------------------------------------------------------------------
(* Helpers shared by the handlers.                                         *)

Move(kind, delta, ref) == [kind |-> kind, delta |-> delta, ref |-> ref]

(* Mutants of ChangeStock: the limits are not checked, the movement loses  *)
(* its direction.                                                          *)
ChangeStockUnchecked(moves) ==
    /\ stock' = [p \in Products |->
                    IF p \in DOMAIN moves THEN stock[p] + moves[p].delta
                                          ELSE stock[p]]
    /\ movements' = [p \in Products |->
                        IF p \in DOMAIN moves
                        THEN Append(movements[p],
                                    Entry(moves[p].kind, moves[p].delta,
                                          stock[p], moves[p].ref))
                        ELSE movements[p]]

ChangeStockUnsigned(moves) ==
    /\ \A p \in DOMAIN moves : stock[p] + moves[p].delta \in 0..MaxStock
    /\ stock' = [p \in Products |->
                    IF p \in DOMAIN moves THEN stock[p] + moves[p].delta
                                          ELSE stock[p]]
    /\ movements' = [p \in Products |->
                        IF p \in DOMAIN moves
                        THEN Append(movements[p],
                                    Entry(moves[p].kind,
                                          IF moves[p].delta < 0 THEN -moves[p].delta
                                                                ELSE moves[p].delta,
                                          stock[p], moves[p].ref))
                        ELSE movements[p]]

(* Each product in the domain of `moves` changes its stock and gets a      *)
(* movement row; the handler fails if a stock would become negative, and   *)
(* the database refuses one its column cannot hold.                        *)
ChangeStock(moves) ==
    /\ \A p \in DOMAIN moves : stock[p] + moves[p].delta \in 0..MaxStock
    /\ stock' = [p \in Products |->
                    IF p \in DOMAIN moves THEN stock[p] + moves[p].delta
                                          ELSE stock[p]]
    /\ movements' = [p \in Products |->
                        IF p \in DOMAIN moves
                        THEN Append(movements[p],
                                    Entry(moves[p].kind, moves[p].delta,
                                          stock[p], moves[p].ref))
                        ELSE movements[p]]

(* The direction in which a document of each type moves stock. *)
Sign(type) ==
    CASE type \in {"PURCHASE_BILL", "SALES_RETURN"} -> 1
      [] type \in {"INVOICE", "PURCHASE_RETURN"} -> -1
      [] type \in QuoteTypes -> 0

(* Mutant of StockMoves: a cancellation moves the same way again. *)
StockMovesSameWay(d, lines, sign, kind) ==
    [p \in IF Sign(TypeOf[d]) = 0 THEN {} ELSE TrackedIn(lines) |->
        Move(kind, Sign(TypeOf[d]) * ProductQuantity(lines, p), d)]

(* What finalizing (sign 1) or cancelling (sign -1) document d moves. *)
StockMoves(d, lines, sign, kind) ==
    [p \in IF Sign(TypeOf[d]) = 0 THEN {} ELSE TrackedIn(lines) |->
        Move(kind, sign * Sign(TypeOf[d]) * ProductQuantity(lines, p), d)]

TakeNumber(type, year) ==
    sequence' = [sequence EXCEPT ![<<type, year>>] = @ + 1]

(* The row of a document that leaves the DRAFT state with a number. *)
NumberedRow(d, data, status) ==
    [status |-> status, data |-> data,
     number |-> <<data.year, sequence[<<TypeOf[d], data.year>>] + 1>>]

DraftRow(data) == [status |-> "DRAFT", data |-> data, number |-> NoNumber]

(* lineData: a draft can name only active products. *)
LineData(lines) ==
    \A i \in DOMAIN lines : product[lines[i].product] = "ACTIVE"

-----------------------------------------------------------------------------
(* Products and stock adjustments.                                         *)

(* Mutant of CreateProduct: the opening movement is forgotten. *)
CreateProductWithoutMovement(p, opening, active) ==
    /\ product[p] = "ABSENT"
    /\ opening # 0 => p \in Tracked
    /\ product' = [product EXCEPT ![p] = IF active THEN "ACTIVE" ELSE "INACTIVE"]
    /\ stock' = [stock EXCEPT ![p] = opening]
    /\ UNCHANGED <<movements, docs, sequence>>

(* create: the row and, unless zero, its opening stock and movement. *)
CreateProduct(p, opening, active) ==
    /\ product[p] = "ABSENT"
    /\ opening # 0 => p \in Tracked
    /\ product' = [product EXCEPT ![p] = IF active THEN "ACTIVE" ELSE "INACTIVE"]
    /\ ChangeStock([x \in IF opening = 0 THEN {} ELSE {p} |->
                       Move("OPENING", opening, NoDocument)])
    /\ UNCHANGED <<docs, sequence>>

(* update may change isActive; type and trackInventory are fixed at birth. *)
UpdateProduct(p, active) ==
    /\ product[p] # "ABSENT"
    /\ product' = [product EXCEPT ![p] = IF active THEN "ACTIVE" ELSE "INACTIVE"]
    /\ UNCHANGED <<stock, movements, docs, sequence>>

Adjustments(p) ==
    {i \in DOMAIN movements[p] : movements[p][i].kind \in {"ADJUSTMENT_IN", "ADJUSTMENT_OUT"}}

AdjustStock(p, quantity, direction) ==
    /\ Cardinality(Adjustments(p)) < MaxAdjustments
    /\ quantity > 0
    /\ product[p] = "ACTIVE" /\ p \in Tracked
    /\ ChangeStock([x \in {p} |->
          IF direction = "INCREASE" THEN Move("ADJUSTMENT_IN", quantity, NoDocument)
                                    ELSE Move("ADJUSTMENT_OUT", -quantity, NoDocument)])
    /\ UNCHANGED <<product, docs, sequence>>

-----------------------------------------------------------------------------
(* Invoices.                                                               *)

CreateInvoice(d, draft) ==
    /\ docs[d] = Absent
    /\ LineData(draft.lines)
    /\ docs' = [docs EXCEPT ![d] = DraftRow(draft)]
    /\ UNCHANGED <<product, stock, movements, sequence>>

UpdateInvoice(d, draft) ==
    /\ docs[d].status = "DRAFT"
    /\ LineData(draft.lines)
    /\ docs' = [docs EXCEPT ![d] = DraftRow(draft)]
    /\ UNCHANGED <<product, stock, movements, sequence>>

DiscardInvoice(d) ==
    /\ docs[d].status = "DRAFT"
    /\ docs' = [docs EXCEPT ![d] = Absent]
    /\ UNCHANGED <<product, stock, movements, sequence>>

(* Mutant of AssertStockAvailable: only the draft's lines were checked. *)
AssertStockAvailableInactive(lines) ==
    \A p \in TrackedIn(lines) : stock[p] >= ProductQuantity(lines, p)

(* assertStockAvailable: every tracked product is active and has enough. *)
AssertStockAvailable(lines) ==
    \A p \in TrackedIn(lines) :
        /\ product[p] = "ACTIVE"
        /\ stock[p] >= ProductQuantity(lines, p)

FinalizeInvoice(d) ==
    LET data == docs[d].data IN
    /\ docs[d].status = "DRAFT"
    /\ AssertStockAvailable(data.lines)
    /\ TakeNumber("INVOICE", data.year)
    /\ docs' = [docs EXCEPT ![d] = NumberedRow(d, data, "FINALIZED")]
    /\ ChangeStock(StockMoves(d, data.lines, 1, "FINALIZED"))
    /\ UNCHANGED product

(* Mutant of CreateFinalizedPosInvoice: the sequence is read, not taken. *)
PosInvoiceWithoutSequence(d, draft) ==
    /\ docs[d] = Absent
    /\ LineData(draft.lines)
    /\ AssertStockAvailable(draft.lines)
    /\ docs' = [docs EXCEPT ![d] = NumberedRow(d, draft, "FINALIZED")]
    /\ ChangeStock(StockMoves(d, draft.lines, 1, "FINALIZED"))
    /\ UNCHANGED <<product, sequence>>

(* createFinalizedPosInvoice: a new invoice, finalized at once. *)
CreateFinalizedPosInvoice(d, draft) ==
    /\ docs[d] = Absent
    /\ LineData(draft.lines)
    /\ AssertStockAvailable(draft.lines)
    /\ TakeNumber("INVOICE", draft.year)
    /\ docs' = [docs EXCEPT ![d] = NumberedRow(d, draft, "FINALIZED")]
    /\ ChangeStock(StockMoves(d, draft.lines, 1, "FINALIZED"))
    /\ UNCHANGED product

(* Mutants of CancelInvoice: nothing is restored, only active products are. *)
CancelInvoiceUnrestored(d) ==
    /\ docs[d].status = "FINALIZED"
    /\ docs' = [docs EXCEPT ![d].status = "CANCELLED"]
    /\ UNCHANGED <<product, stock, movements, sequence>>

CancelInvoiceActiveOnly(d) ==
    /\ docs[d].status = "FINALIZED"
    /\ docs' = [docs EXCEPT ![d].status = "CANCELLED"]
    /\ LET moves == StockMoves(d, docs[d].data.lines, -1, "CANCELLED") IN
       ChangeStock([p \in {x \in DOMAIN moves : product[x] = "ACTIVE"} |-> moves[p]])
    /\ UNCHANGED <<product, sequence>>

CancelInvoice(d) ==
    /\ docs[d].status = "FINALIZED"
    /\ docs' = [docs EXCEPT ![d].status = "CANCELLED"]
    /\ ChangeStock(StockMoves(d, docs[d].data.lines, -1, "CANCELLED"))
    /\ UNCHANGED <<product, sequence>>

-----------------------------------------------------------------------------
(* Business documents.                                                     *)

(* build: a return must name its source. *)
Build(d, draft) ==
    /\ LineData(draft.lines)
    /\ TypeOf[d] \in ReturnTypes => draft.source # NoDocument

CreateDocument(d, draft) ==
    /\ docs[d] = Absent
    /\ Build(d, draft)
    /\ docs' = [docs EXCEPT ![d] = DraftRow(draft)]
    /\ UNCHANGED <<product, stock, movements, sequence>>

UpdateDocument(d, draft) ==
    /\ docs[d].status = "DRAFT"
    /\ Build(d, draft)
    /\ docs' = [docs EXCEPT ![d] = DraftRow(draft)]
    /\ UNCHANGED <<product, stock, movements, sequence>>

DiscardDocument(d) ==
    /\ docs[d].status = "DRAFT"
    /\ docs' = [docs EXCEPT ![d] = Absent]
    /\ UNCHANGED <<product, stock, movements, sequence>>

(* The states a draft of each type may move to (REJECTED has no route). *)
Allowed(type) ==
    CASE type = "QUOTATION" -> {"ISSUED", "ACCEPTED"}
      [] type = "DELIVERY_CHALLAN" -> {"ISSUED"}
      [] type \in {"SALES_ORDER", "PURCHASE_ORDER"} -> {"CONFIRMED"}
      [] type \in ReturnTypes \cup {"PURCHASE_BILL"} -> {"FINALIZED"}

(* How much of source line <<s, i>> the lines of one return ask back. *)
Returned(lines, s, i) ==
    SumOf([j \in {k \in DOMAIN lines : lines[k].sourceLine = <<s, i>>} |->
              lines[j].quantity])

(* How much of it the finalized returns against s have already taken back. *)
Used(s, i) ==
    SumOf([r \in {x \in Documents : /\ TypeOf[x] \in ReturnTypes
                                    /\ docs[x].status = "FINALIZED"
                                    /\ docs[x].data.source = s} |->
              Returned(docs[r].data.lines, s, i)])

(* Mutant of ValidateReturnBounds: earlier returns are not counted. *)
ValidateReturnBoundsAlone(d, data) ==
    TypeOf[d] \in ReturnTypes =>
        LET s == data.source
            source == docs[s].data.lines
            lines == data.lines
        IN
        /\ s \in Documents
        /\ TypeOf[s] = IF TypeOf[d] = "SALES_RETURN" THEN "INVOICE" ELSE "PURCHASE_BILL"
        /\ docs[s].status = "FINALIZED"
        /\ \A j \in DOMAIN lines : \E i \in DOMAIN source :
              /\ lines[j].sourceLine = <<s, i>>
              /\ lines[j].product = source[i].product
              /\ source[i].product \notin Services
        /\ \A i \in DOMAIN source :
              Returned(lines, s, i) > 0 => Returned(lines, s, i) <= source[i].quantity

(* validateReturnBounds and ensureReturnable: the source is a finalized    *)
(* invoice or purchase bill, every line names a line of it with the same   *)
(* product, no service, and no source line is exceeded.                    *)
ValidateReturnBounds(d, data) ==
    TypeOf[d] \in ReturnTypes =>
        LET s == data.source
            source == docs[s].data.lines
            lines == data.lines
        IN
        /\ s \in Documents
        /\ TypeOf[s] = IF TypeOf[d] = "SALES_RETURN" THEN "INVOICE" ELSE "PURCHASE_BILL"
        /\ docs[s].status = "FINALIZED"
        /\ \A j \in DOMAIN lines : \E i \in DOMAIN source :
              /\ lines[j].sourceLine = <<s, i>>
              /\ lines[j].product = source[i].product
              /\ source[i].product \notin Services
        /\ \A i \in DOMAIN source :
              Returned(lines, s, i) > 0
                => Used(s, i) + Returned(lines, s, i) <= source[i].quantity

Transition(d, next) ==
    LET data == docs[d].data IN
    /\ docs[d].status = "DRAFT"
    /\ next \in Allowed(TypeOf[d])
    /\ next = "FINALIZED" => ValidateReturnBounds(d, data)
    /\ TakeNumber(TypeOf[d], data.year)
    /\ docs' = [docs EXCEPT ![d] = NumberedRow(d, data, next)]
    /\ ChangeStock(StockMoves(d, data.lines, 1, "FINALIZED"))
    /\ UNCHANGED product

(* Mutant of CancelDocument: it may run twice. *)
CancelDocumentAgain(d) ==
    /\ docs[d].status \notin {"ABSENT", "DRAFT"}
    /\ docs' = [docs EXCEPT ![d].status = "CANCELLED"]
    /\ ChangeStock(StockMoves(d, docs[d].data.lines, -1, "CANCELLED"))
    /\ UNCHANGED <<product, sequence>>

CancelDocument(d) ==
    /\ docs[d].status \notin {"ABSENT", "DRAFT", "CANCELLED"}
    /\ docs' = [docs EXCEPT ![d].status = "CANCELLED"]
    /\ ChangeStock(StockMoves(d, docs[d].data.lines, -1, "CANCELLED"))
    /\ UNCHANGED <<product, sequence>>

Conversions == {<<"QUOTATION", "SALES_ORDER">>,
                <<"SALES_ORDER", "DELIVERY_CHALLAN">>,
                <<"PURCHASE_ORDER", "PURCHASE_BILL">>}

(* convert: a new draft with the lines of document s, dated today. *)
Convert(s, d, year) ==
    /\ <<TypeOf[s], TypeOf[d]>> \in Conversions
    /\ docs[s].status \notin {"ABSENT", "DRAFT", "CANCELLED"}
    /\ docs[d] = Absent
    /\ LineData(docs[s].data.lines)
    /\ docs' = [docs EXCEPT ![d] =
                   DraftRow([lines |-> docs[s].data.lines, source |-> s, year |-> year])]
    /\ UNCHANGED <<product, stock, movements, sequence>>

(* convertToInvoice: the lines of s are read in a transaction of their own *)
(* and the invoice created in the next, when s may have been cancelled; it *)
(* cannot have become a draft again, so its lines are the same.            *)
ConvertToInvoice(s, d, year) ==
    /\ TypeOf[s] \in {"QUOTATION", "SALES_ORDER", "DELIVERY_CHALLAN"}
    /\ docs[s].status \notin {"ABSENT", "DRAFT"}
    /\ CreateInvoice(d, [lines |-> docs[s].data.lines,
                         source |-> NoDocument, year |-> year])

Next ==
    \/ \E p \in Products :
          \/ \E opening \in Openings, active \in BOOLEAN :
                CreateProduct(p, opening, active)
          \/ \E active \in BOOLEAN : UpdateProduct(p, active)
          \/ \E quantity \in Quantities, direction \in {"INCREASE", "DECREASE"} :
                AdjustStock(p, quantity, direction)
    \/ \E d \in Invoices :
          \/ \E draft \in Drafts[d] :
                \/ CreateInvoice(d, draft)
                \/ UpdateInvoice(d, draft)
                \/ CreateFinalizedPosInvoice(d, draft)
          \/ DiscardInvoice(d)
          \/ FinalizeInvoice(d)
          \/ CancelInvoice(d)
          \/ \E s \in BusinessDocuments, year \in Years : ConvertToInvoice(s, d, year)
    \/ \E d \in BusinessDocuments :
          \/ \E draft \in Drafts[d] : CreateDocument(d, draft) \/ UpdateDocument(d, draft)
          \/ DiscardDocument(d)
          \/ \E next \in Statuses : Transition(d, next)
          \/ CancelDocument(d)
          \/ \E s \in BusinessDocuments, year \in Years : Convert(s, d, year)

Spec == Init /\ [][Next]_vars

-----------------------------------------------------------------------------
(* Properties.                                                             *)

(* Every product's stored stock is the stock after its last movement, and  *)
(* its movements chain from zero without a gap: what the conditional       *)
(* updates of stock and the movement rows written beside them keep.        *)
StockReconciles == \A p \in Products : Reconciles(movements[p], stock[p])

(* The finalized returns against an invoice or a bill, all together, never *)
(* take back more of a line than it has: what validateReturnBounds is for, *)
(* with lines split, returns cancelled and drafts edited in between.       *)
ReturnsWithinSource ==
    \A s \in Documents : docs[s].status \notin {"ABSENT", "DRAFT"} =>
        \A i \in DOMAIN docs[s].data.lines :
            Used(s, i) <= docs[s].data.lines[i].quantity

(* An invoice gives back to stock, through its returns and its own         *)
(* cancellation together, no more than it took: the README's "restores     *)
(* stock exactly once".                                                    *)
StockRestoredOnce ==
    \A d \in Invoices : docs[d].status \in {"FINALIZED", "CANCELLED"} =>
        \A i \in DOMAIN docs[d].data.lines :
            LET sold == docs[d].data.lines[i].quantity IN
            Used(d, i) + (IF docs[d].status = "CANCELLED" THEN sold ELSE 0) <= sold

MovesStock(d, p) ==
    /\ docs[d].status \in {"FINALIZED", "CANCELLED"}
    /\ TypeOf[d] \notin QuoteTypes
    /\ p \in TrackedIn(docs[d].data.lines)

RowsOf(p, d, kind) ==
    {i \in DOMAIN movements[p] : movements[p][i].ref = d /\ movements[p][i].kind = kind}

(* The movement rows that name a document are those its life accounts for: *)
(* on each tracked product of its lines one row for the finalization, one  *)
(* more for the cancellation that takes it back, and no row otherwise, for *)
(* whatever was converted, edited or discarded before.                     *)
MovementsFollowStatus ==
    \A d \in Documents, p \in Products :
        LET finalized == RowsOf(p, d, "FINALIZED")
            cancelled == RowsOf(p, d, "CANCELLED")
        IN
        /\ Cardinality(finalized) = IF MovesStock(d, p) THEN 1 ELSE 0
        /\ Cardinality(cancelled) = IF MovesStock(d, p) /\ docs[d].status = "CANCELLED"
                                    THEN 1 ELSE 0
        /\ \A i \in finalized, j \in cancelled :
              movements[p][j].delta = -movements[p][i].delta

(* A product's stock is what it was opened and adjusted with, plus what    *)
(* the finalized bills and sales returns brought in, less what the         *)
(* finalized invoices and purchase returns took out.                       *)
StockExplained ==
    \A p \in Tracked :
        LET own == {i \in DOMAIN movements[p] : movements[p][i].ref = NoDocument}
            Finalized(types) == {d \in Documents : /\ TypeOf[d] \in types
                                                   /\ docs[d].status = "FINALIZED"}
            Total(types) == SumOf([d \in Finalized(types) |->
                                      ProductQuantity(docs[d].data.lines, p)])
        IN
        stock[p] = SumOf([i \in own |-> movements[p][i].delta])
                   + Total({"PURCHASE_BILL", "SALES_RETURN"})
                   - Total({"INVOICE", "PURCHASE_RETURN"})

(* Permanent numbers run 1, 2, 3 ... per type and year without a gap or a  *)
(* duplicate, whichever handler took them and whatever was cancelled.      *)
NumbersGapFree ==
    \A type \in DocumentTypes :
        LET numbered == {d \in Documents : TypeOf[d] = type
                                          /\ docs[d].status \notin {"ABSENT", "DRAFT"}}
        IN
        /\ \A d, e \in numbered : docs[d].number = docs[e].number => d = e
        /\ {docs[d].number : d \in numbered} =
              UNION {{y} \X (1..sequence[<<type, y>>]) : y \in Years}

(* A product deactivated after it was drafted is not sold and not adjusted *)
(* ("Inactive inventory products cannot be invoiced"): while it is         *)
(* inactive only bills, returns and cancellations move its stock.          *)
InactiveNotSold ==
    [][\A p \in Products :
          product[p] = "INACTIVE" /\ movements'[p] # movements[p] =>
              LET m == movements'[p][Len(movements'[p])] IN
              /\ m.ref # NoDocument
              /\ TypeOf[m.ref] = "INVOICE" => m.kind = "CANCELLED"]_vars

(* Stock implements Postings: a document moves the stock of its products   *)
(* once, all together, and its cancellation takes back exactly that.       *)
PhaseOf(status) ==
    CASE status \in {"ABSENT", "DRAFT"} -> "idle"
      [] status \in {"ISSUED", "ACCEPTED", "CONFIRMED", "FINALIZED"} -> "applied"
      [] status = "CANCELLED" -> "undone"

EffectOf(d) ==
    [p \in Products |->
        IF PhaseOf(docs[d].status) # "idle" /\ p \in TrackedIn(docs[d].data.lines)
        THEN Sign(TypeOf[d]) * ProductQuantity(docs[d].data.lines, p)
        ELSE 0]

Shelf == INSTANCE Postings
    WITH Cells <- Products, Items <- Documents, quantity <- stock,
         posting <- [d \in Documents |-> [phase |-> PhaseOf(docs[d].status),
                                          effect |-> EffectOf(d)]]

ImplementsPostings == Shelf!Spec

=============================================================================
