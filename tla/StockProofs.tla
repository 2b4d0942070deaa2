---------------------------- MODULE StockProofs -----------------------------
(***************************************************************************)
(* Theorems about Stock, for any number of products and documents, any     *)
(* drafts and any limits.                                                  *)
(***************************************************************************)
EXTENDS Stock, LedgerProofs

Refs == Documents \cup {NoDocument}
MoveSet == [kind : MovementKinds, delta : Int, ref : Refs]

(* What the helpers need of the constants. *)

LEMMA DraftData ==
    ASSUME NEW d \in Documents, NEW draft \in Drafts[d]
    PROVE  draft \in Data
<1>1. draft \in Draft
  BY StockAssumption
<1>2. draft.lines \in LineLists
  BY DEF LineLists
<1>. QED
  BY <1>1, <1>2 DEF Draft, Data

LEMMA MaxStockIsNatural == MaxStock \in Nat
BY StockAssumption

LEMMA QuantityType ==
    ASSUME NEW lines \in LineLists, NEW p \in TrackedIn(lines)
    PROVE  p \in Products /\ ProductQuantity(lines, p) \in Nat
<1> DEFINE f == [i \in {j \in DOMAIN lines : lines[j].product = p} |-> lines[i].quantity]
<1>1. lines \in Seq(Line) /\ Tracked \subseteq Products
  BY StockAssumption DEF LineLists, Draft
<1>2. ASSUME NEW i \in DOMAIN lines PROVE lines[i].quantity \in Nat
  <2>1. lines[i] \in Line
    BY <1>1
  <2>. QED
    BY <2>1 DEF Line
<1>3. IsFiniteSet(DOMAIN lines)
  BY <1>1, FS_Interval
<1>4. IsFiniteSet(DOMAIN f) /\ \A i \in DOMAIN f : f[i] \in Nat
  BY <1>2, <1>3, FS_Subset
<1>5. SumOf(f) \in Nat
  <2> HIDE DEF f
  <2>. QED
    BY <1>4, SumOfNat
<1>. QED
  BY <1>1, <1>5 DEF TrackedIn, ProductQuantity

LEMMA SignType ==
    ASSUME NEW d \in Documents
    PROVE  TypeOf[d] \in DocumentTypes /\ Sign(TypeOf[d]) \in {-1, 0, 1}
<1>1. TypeOf[d] \in DocumentTypes
  BY StockAssumption
<1>. QED
  BY <1>1 DEF DocumentTypes, QuoteTypes, ReturnTypes, Sign

(* What a document moves, in either direction, is well typed. *)
LEMMA StockMovesType ==
    ASSUME NEW d \in Documents, NEW lines \in LineLists,
           NEW sign \in {-1, 1}, NEW kind \in MovementKinds
    PROVE  LET moves == StockMoves(d, lines, sign, kind) IN
           /\ DOMAIN moves \subseteq Products
           /\ \A p \in DOMAIN moves : moves[p] \in MoveSet
<1> DEFINE moves == StockMoves(d, lines, sign, kind)
           s == Sign(TypeOf[d])
<1>1. DOMAIN moves \subseteq TrackedIn(lines)
  BY DEF StockMoves
<1>2. s \in {-1, 0, 1}
  BY SignType
<1>3. \A q \in Nat : sign * s * q \in Int
  <2> HIDE DEF s
  <2>. QED
    BY <1>2
<1>4. ASSUME NEW p \in DOMAIN moves
      PROVE  p \in Products /\ moves[p] \in MoveSet
  <2>1. p \in Products /\ ProductQuantity(lines, p) \in Nat
    BY <1>1, QuantityType
  <2>2. sign * s * ProductQuantity(lines, p) \in Int
    BY <1>3, <2>1
  <2>3. moves[p] = [kind |-> kind, delta |-> sign * s * ProductQuantity(lines, p),
                    ref |-> d]
    BY DEF StockMoves, Move
  <2>. QED
    BY <2>1, <2>2, <2>3 DEF MoveSet, Refs
<1>. QED
  BY <1>4

(* What changing stock does, whatever it is for: types, and every log stays *)
(* reconciled with the stock of its product.                               *)
LEMMA ChangeStockLemma ==
    ASSUME TypeOK, StockReconciles, NEW moves, DOMAIN moves \subseteq Products,
           \A p \in DOMAIN moves : moves[p] \in MoveSet,
           ChangeStock(moves)
    PROVE  /\ stock' \in [Products -> 0..MaxStock]
           /\ movements' \in [Products -> Seq(EntrySet(MovementKinds, Refs))]
           /\ StockReconciles'
<1> DEFINE E == EntrySet(MovementKinds, Refs)
<1>0. /\ stock \in [Products -> 0..MaxStock]
      /\ movements \in [Products -> Seq(E)]
  BY DEF TypeOK, Refs
<1>1. ASSUME NEW p \in DOMAIN moves
      PROVE  /\ p \in Products
             /\ movements[p] \in Seq(E)
             /\ stock[p] \in Int
             /\ moves[p].kind \in MovementKinds
             /\ moves[p].delta \in Int
             /\ moves[p].ref \in Refs
  <2>1. p \in Products
    OBVIOUS
  <2>2. moves[p].kind \in MovementKinds /\ moves[p].delta \in Int /\ moves[p].ref \in Refs
    BY DEF MoveSet
  <2> HIDE DEF E
  <2>3. movements[p] \in Seq(E) /\ stock[p] \in 0..MaxStock
    BY <1>0, <2>1
  <2>4. stock[p] \in Int
    BY <2>3, MaxStockIsNatural
  <2>. QED
    BY <2>1, <2>2, <2>3, <2>4
<1>2. ASSUME NEW p \in DOMAIN moves
      PROVE  Entry(moves[p].kind, moves[p].delta, stock[p], moves[p].ref) \in E
  BY <1>1 DEF Entry, EntrySet
<1>3. movements' \in [Products -> Seq(E)]
  <2> HIDE DEF E
  <2>1. ASSUME NEW p \in DOMAIN moves
        PROVE  Append(movements[p], Entry(moves[p].kind, moves[p].delta, stock[p],
                                          moves[p].ref)) \in Seq(E)
    BY <1>1, <1>2
  <2>. QED
    BY <1>0, <2>1 DEF ChangeStock
<1>4. stock' \in [Products -> 0..MaxStock]
  BY DEF ChangeStock, TypeOK
<1>5. ASSUME NEW p \in Products
      PROVE  Reconciles(movements'[p], stock'[p])
  <2>1. Reconciles(movements[p], stock[p])
    BY DEF StockReconciles
  <2>2. CASE p \in DOMAIN moves
    <3>1. Reconciles(Append(movements[p],
                            Entry(moves[p].kind, moves[p].delta, stock[p],
                                  moves[p].ref)),
                     stock[p] + moves[p].delta)
      BY <2>1, <2>2, <1>1, ReconcilesAppend
    <3>. QED
      BY <2>2, <3>1 DEF ChangeStock
  <2>3. CASE p \notin DOMAIN moves
    BY <2>1, <2>3 DEF ChangeStock
  <2>. QED
    BY <2>2, <2>3
<1>. QED
  BY <1>3, <1>4, <1>5 DEF StockReconciles

(* Rows. *)

LEMMA RowData ==
    ASSUME TypeOK, NEW d \in Documents, docs[d].status # "ABSENT"
    PROVE  /\ docs[d] \in Row
           /\ docs[d].data \in Data
           /\ docs[d].data.lines \in LineLists
           /\ docs[d].data.year \in Years
<1>1. docs[d] \in Row
  BY DEF TypeOK, Absent
<1>2. docs[d].data \in Data
  BY <1>1 DEF Row
<1>. QED
  BY <1>1, <1>2 DEF Data

LEMMA DraftRowType == ASSUME NEW data \in Data PROVE DraftRow(data) \in Row
BY DEF DraftRow, Row, Statuses

LEMMA NumberedRowType ==
    ASSUME TypeOK, NEW d \in Documents, NEW data \in Data, NEW status \in Statuses
    PROVE  NumberedRow(d, data, status) \in Row
<1>1. data.year \in Years
  BY DEF Data
<1>2. sequence[<<TypeOf[d], data.year>>] + 1 \in Nat
  BY <1>1, SignType DEF TypeOK
<1>. QED
  BY <1>1, <1>2 DEF NumberedRow, Row

LEMMA CancelledRowType ==
    ASSUME NEW row \in Row
    PROVE  [row EXCEPT !.status = "CANCELLED"] \in Row
BY DEF Row, Statuses

LEMMA TakeNumberType ==
    ASSUME TypeOK, NEW type \in DocumentTypes, NEW year \in Years, TakeNumber(type, year)
    PROVE  sequence' \in [DocumentTypes \X Years -> Nat]
BY DEF TypeOK, TakeNumber

(* One table entry may be replaced by any row, or emptied. *)
LEMMA DocsChange ==
    ASSUME TypeOK, NEW d \in Documents, NEW row \in Row \cup {Absent},
           docs' = [docs EXCEPT ![d] = row]
    PROVE  docs' \in [Documents -> Row \cup {Absent}]
BY DEF TypeOK

LEMMA CancelChange ==
    ASSUME TypeOK, NEW d \in Documents, docs[d].status # "ABSENT",
           docs' = [docs EXCEPT ![d].status = "CANCELLED"]
    PROVE  docs' \in [Documents -> Row \cup {Absent}]
<1>1. [docs[d] EXCEPT !.status = "CANCELLED"] \in Row
  BY RowData, CancelledRowType
<1>2. docs' = [docs EXCEPT ![d] = [docs[d] EXCEPT !.status = "CANCELLED"]]
  OBVIOUS
<1>. QED
  BY <1>1, <1>2, DocsChange

-----------------------------------------------------------------------------
(* The inductive invariant: the types, which give the arithmetic, and the  *)
(* reconciliation itself.                                                  *)
IInv == TypeOK /\ StockReconciles

LEMMA InitIInv == Init => IInv
<1>1. ASSUME Init PROVE TypeOK
  <2>1. 0 \in 0..MaxStock
    BY MaxStockIsNatural
  <2>. QED
    BY <1>1, <2>1 DEF Init, TypeOK
<1>2. ASSUME Init PROVE StockReconciles
  BY <1>2 DEF Init, StockReconciles, Reconciles
<1>. QED
  BY <1>1, <1>2 DEF IInv

(* Two ways a step keeps IInv: it leaves the shelf alone, or it changes it *)
(* through ChangeStock.                                                    *)
LEMMA ShelfUnchanged ==
    ASSUME IInv, UNCHANGED <<stock, movements>>,
           product' \in [Products -> {"ABSENT", "ACTIVE", "INACTIVE"}],
           docs' \in [Documents -> Row \cup {Absent}],
           sequence' \in [DocumentTypes \X Years -> Nat]
    PROVE  IInv'
BY DEF IInv, TypeOK, StockReconciles

LEMMA ShelfChanged ==
    ASSUME IInv, NEW moves, DOMAIN moves \subseteq Products,
           \A p \in DOMAIN moves : moves[p] \in MoveSet,
           ChangeStock(moves),
           product' \in [Products -> {"ABSENT", "ACTIVE", "INACTIVE"}],
           docs' \in [Documents -> Row \cup {Absent}],
           sequence' \in [DocumentTypes \X Years -> Nat]
    PROVE  IInv'
<1>1. /\ stock' \in [Products -> 0..MaxStock]
      /\ movements' \in [Products -> Seq(EntrySet(MovementKinds, Refs))]
      /\ StockReconciles'
  BY ChangeStockLemma DEF IInv
<1>. QED
  BY <1>1 DEF IInv, TypeOK, Refs

(* The two kinds of step a document takes that move stock. *)
LEMMA DocumentMoves ==
    ASSUME IInv, NEW d \in Documents, NEW lines \in LineLists, NEW sign \in {-1, 1},
           NEW kind \in MovementKinds,
           ChangeStock(StockMoves(d, lines, sign, kind)), UNCHANGED product,
           docs' \in [Documents -> Row \cup {Absent}],
           sequence' \in [DocumentTypes \X Years -> Nat]
    PROVE  IInv'
<1>1. product' \in [Products -> {"ABSENT", "ACTIVE", "INACTIVE"}]
  BY DEF IInv, TypeOK
<1>. QED
  BY <1>1, StockMovesType, ShelfChanged

-----------------------------------------------------------------------------
(* The steps of Stock, whatever handler takes them, have five shapes.  What *)
(* the theorems below need of a handler is the shape of its steps.         *)

ProductStates == {"ABSENT", "ACTIVE", "INACTIVE"}

(* A product row is made or changed and no stock moves. *)
Renaming ==
    /\ product' \in [Products -> ProductStates]
    /\ UNCHANGED <<stock, movements, docs, sequence>>

(* A product's stock is opened or adjusted, on behalf of no document. *)
Owning(p, m) ==
    /\ m \in MoveSet
    /\ m.ref = NoDocument
    /\ m.kind \notin {"FINALIZED", "CANCELLED"}
    /\ product[p] # "INACTIVE"
    /\ product' \in [Products -> ProductStates]
    /\ ChangeStock([x \in {p} |-> m])
    /\ UNCHANGED <<docs, sequence>>

(* A draft is made, edited or discarded. *)
Drafting(d, row) ==
    /\ docs[d].status \in {"ABSENT", "DRAFT"}
    /\ row = Absent \/ \E data \in Data : row = DraftRow(data)
    /\ docs' = [docs EXCEPT ![d] = row]
    /\ UNCHANGED <<product, stock, movements, sequence>>

(* A document gets its number, and those that move stock move it. *)
Numbering(d, data, status) ==
    /\ docs[d].status \in {"ABSENT", "DRAFT"}
    /\ data \in Data
    /\ status \in Statuses \ {"DRAFT", "CANCELLED"}
    /\ status = "FINALIZED" <=> TypeOf[d] \notin QuoteTypes
    /\ TypeOf[d] = "INVOICE" => \A p \in TrackedIn(data.lines) : product[p] = "ACTIVE"
    /\ ValidateReturnBounds(d, data)
    /\ TakeNumber(TypeOf[d], data.year)
    /\ docs' = [docs EXCEPT ![d] = NumberedRow(d, data, status)]
    /\ ChangeStock(StockMoves(d, data.lines, 1, "FINALIZED"))
    /\ UNCHANGED product

(* A numbered document is cancelled, and takes back what it moved. *)
Cancelling(d) ==
    /\ docs[d].status \notin {"ABSENT", "DRAFT", "CANCELLED"}
    /\ docs' = [docs EXCEPT ![d].status = "CANCELLED"]
    /\ ChangeStock(StockMoves(d, docs[d].data.lines, -1, "CANCELLED"))
    /\ UNCHANGED <<product, sequence>>

Shape ==
    \/ Renaming
    \/ \E p \in Products, m \in MoveSet : Owning(p, m)
    \/ \E d \in Documents, row \in Row \cup {Absent} : Drafting(d, row)
    \/ \E d \in Documents, data \in Data, status \in Statuses : Numbering(d, data, status)
    \/ \E d \in Documents : Cancelling(d)

(* A step that moves no stock at all. *)
LEMMA NothingMoved ==
    ASSUME TypeOK, NEW moves, DOMAIN moves = {}, ChangeStock(moves)
    PROVE  UNCHANGED <<stock, movements>>
<1>1. stock' = [p \in Products |-> stock[p]] /\ movements' = [p \in Products |-> movements[p]]
  BY DEF ChangeStock
<1>. QED
  BY <1>1 DEF TypeOK

(* One lemma per group of handlers. *)

LEMMA ProductShapes ==
    ASSUME TypeOK, NEW p \in Products,
           \/ \E opening \in Openings, active \in BOOLEAN :
                 CreateProduct(p, opening, active)
           \/ \E active \in BOOLEAN : UpdateProduct(p, active)
           \/ \E quantity \in Quantities, direction \in {"INCREASE", "DECREASE"} :
                 AdjustStock(p, quantity, direction)
    PROVE  Shape
<1>1. product \in [Products -> ProductStates]
  BY DEF TypeOK, ProductStates
<1>2. CASE \E opening \in Openings, active \in BOOLEAN : CreateProduct(p, opening, active)
  <2> PICK opening \in Openings, active \in BOOLEAN : CreateProduct(p, opening, active)
    BY <1>2
  <2> DEFINE m == Move("OPENING", opening, NoDocument)
             moves == [x \in IF opening = 0 THEN {} ELSE {p} |-> m]
  <2>1. product' \in [Products -> ProductStates]
    BY <1>1 DEF CreateProduct, ProductStates
  <2>2. ChangeStock(moves) /\ UNCHANGED <<docs, sequence>> /\ product[p] # "INACTIVE"
    BY DEF CreateProduct
  <2>3. CASE opening = 0
    <3>1. DOMAIN moves = {}
      BY <2>3
    <3> HIDE DEF moves
    <3>. QED
      BY <2>1, <2>2, <3>1, NothingMoved DEF Renaming, Shape
  <2>4. CASE opening # 0
    <3>1. opening \in Int
      BY StockAssumption
    <3>2. m \in MoveSet /\ m.ref = NoDocument /\ m.kind = "OPENING"
      BY <3>1 DEF Move, MoveSet, MovementKinds, Refs
    <3>3. moves = [x \in {p} |-> m]
      BY <2>4
    <3> HIDE DEF m, moves
    <3>4. ChangeStock([x \in {p} |-> m])
      BY <2>2, <3>3
    <3>. QED
      BY <2>1, <2>2, <3>2, <3>4 DEF Owning, Shape
  <2>. QED
    BY <2>3, <2>4
<1>3. CASE \E active \in BOOLEAN : UpdateProduct(p, active)
  <2>1. product' \in [Products -> ProductStates]
    BY <1>1, <1>3 DEF UpdateProduct, ProductStates
  <2>. QED
    BY <2>1, <1>3 DEF UpdateProduct, Renaming, Shape
<1>4. CASE \E quantity \in Quantities, direction \in {"INCREASE", "DECREASE"} :
              AdjustStock(p, quantity, direction)
  <2> PICK quantity \in Quantities, direction \in {"INCREASE", "DECREASE"} :
              AdjustStock(p, quantity, direction)
    BY <1>4
  <2> DEFINE m == IF direction = "INCREASE" THEN Move("ADJUSTMENT_IN", quantity, NoDocument)
                                            ELSE Move("ADJUSTMENT_OUT", -quantity, NoDocument)
  <2>1. quantity \in Int /\ -quantity \in Int
    BY StockAssumption
  <2>2. m \in MoveSet /\ m.ref = NoDocument /\ m.kind \in {"ADJUSTMENT_IN", "ADJUSTMENT_OUT"}
    BY <2>1 DEF Move, MoveSet, MovementKinds, Refs
  <2>3. /\ ChangeStock([x \in {p} |-> m])
        /\ UNCHANGED <<product, docs, sequence>>
        /\ product[p] = "ACTIVE"
    BY DEF AdjustStock
  <2> HIDE DEF m
  <2>. QED
    BY <1>1, <2>2, <2>3 DEF Owning, Shape
<1>. QED
  BY <1>2, <1>3, <1>4

LEMMA DraftingShape ==
    ASSUME NEW d \in Documents, NEW row,
           row = Absent \/ \E data \in Data : row = DraftRow(data),
           docs[d].status \in {"ABSENT", "DRAFT"},
           docs' = [docs EXCEPT ![d] = row],
           UNCHANGED <<product, stock, movements, sequence>>
    PROVE  Shape
<1>1. row \in Row \cup {Absent}
  BY DraftRowType
<1>. QED
  BY <1>1 DEF Drafting, Shape

(* The data a conversion gives its new document. *)
LEMMA ConvertedData ==
    ASSUME TypeOK, NEW s \in Documents, docs[s].status # "ABSENT",
           NEW source \in Refs, NEW year \in Years
    PROVE  [lines |-> docs[s].data.lines, source |-> source, year |-> year] \in Data
BY RowData DEF Data, Refs

LEMMA InvoiceShapes ==
    ASSUME TypeOK, NEW d \in Invoices,
           \/ \E draft \in Drafts[d] : \/ CreateInvoice(d, draft)
                                       \/ UpdateInvoice(d, draft)
                                       \/ CreateFinalizedPosInvoice(d, draft)
           \/ DiscardInvoice(d)
           \/ FinalizeInvoice(d)
           \/ CancelInvoice(d)
           \/ \E s \in BusinessDocuments, year \in Years : ConvertToInvoice(s, d, year)
    PROVE  Shape
<1>1. d \in Documents /\ TypeOf[d] = "INVOICE" /\ Absent.status = "ABSENT"
  BY DEF Invoices, Absent
<1>2. ASSUME NEW data \in Data,
             docs[d].status \in {"ABSENT", "DRAFT"},
             AssertStockAvailable(data.lines),
             TakeNumber("INVOICE", data.year),
             docs' = [docs EXCEPT ![d] = NumberedRow(d, data, "FINALIZED")],
             ChangeStock(StockMoves(d, data.lines, 1, "FINALIZED")),
             UNCHANGED product
      PROVE  Shape
  <2>1. Numbering(d, data, "FINALIZED")
    BY <1>1, <1>2 DEF Numbering, Statuses, QuoteTypes, ReturnTypes, ValidateReturnBounds,
                      AssertStockAvailable
  <2>. QED
    BY <1>1, <2>1 DEF Shape, Statuses
<1>3. ASSUME NEW draft \in Drafts[d], CreateInvoice(d, draft) \/ UpdateInvoice(d, draft)
      PROVE  Shape
  BY <1>1, <1>3, DraftData, DraftingShape DEF CreateInvoice, UpdateInvoice
<1>4. ASSUME NEW draft \in Drafts[d], CreateFinalizedPosInvoice(d, draft)
      PROVE  Shape
  BY <1>1, <1>2, <1>4, DraftData DEF CreateFinalizedPosInvoice
<1>5. CASE DiscardInvoice(d)
  BY <1>1, <1>5, DraftingShape DEF DiscardInvoice
<1>6. CASE FinalizeInvoice(d)
  BY <1>1, <1>2, <1>6, RowData DEF FinalizeInvoice
<1>7. CASE CancelInvoice(d)
  <2>1. Cancelling(d)
    BY <1>7 DEF CancelInvoice, Cancelling
  <2>. QED
    BY <1>1, <2>1 DEF Shape
<1>8. ASSUME NEW s \in BusinessDocuments, NEW year \in Years, ConvertToInvoice(s, d, year)
      PROVE  Shape
  <2>1. [lines |-> docs[s].data.lines, source |-> NoDocument, year |-> year] \in Data
    BY <1>8, ConvertedData DEF ConvertToInvoice, BusinessDocuments, Refs
  <2>. QED
    BY <1>1, <1>8, <2>1, DraftingShape DEF ConvertToInvoice, CreateInvoice
<1>. QED
  BY <1>3, <1>4, <1>5, <1>6, <1>7, <1>8

LEMMA BusinessDocumentShapes ==
    ASSUME TypeOK, NEW d \in BusinessDocuments,
           \/ \E draft \in Drafts[d] : CreateDocument(d, draft) \/ UpdateDocument(d, draft)
           \/ DiscardDocument(d)
           \/ \E next \in Statuses : Transition(d, next)
           \/ CancelDocument(d)
           \/ \E s \in BusinessDocuments, year \in Years : Convert(s, d, year)
    PROVE  Shape
<1>1. d \in Documents /\ TypeOf[d] # "INVOICE" /\ Absent.status = "ABSENT"
  BY DEF Invoices, BusinessDocuments, Absent
<1>2. ASSUME NEW draft \in Drafts[d], CreateDocument(d, draft) \/ UpdateDocument(d, draft)
      PROVE  Shape
  BY <1>1, <1>2, DraftData, DraftingShape DEF CreateDocument, UpdateDocument
<1>3. CASE DiscardDocument(d)
  BY <1>1, <1>3, DraftingShape DEF DiscardDocument
<1>4. ASSUME NEW next \in Statuses, Transition(d, next)
      PROVE  Shape
  <2>1. docs[d].data \in Data
    BY <1>1, <1>4, RowData DEF Transition
  <2>2. TypeOf[d] \in DocumentTypes
    BY <1>1, SignType
  <2>3. /\ next \in Statuses \ {"DRAFT", "CANCELLED"}
        /\ next = "FINALIZED" <=> TypeOf[d] \notin QuoteTypes
    BY <1>1, <1>4, <2>2
       DEF Transition, Allowed, DocumentTypes, QuoteTypes, ReturnTypes, Statuses
  <2>4. ValidateReturnBounds(d, docs[d].data)
    <3>1. CASE next = "FINALIZED"
      BY <1>4, <3>1 DEF Transition
    <3>2. CASE next # "FINALIZED"
      BY <2>3, <3>2 DEF ValidateReturnBounds, QuoteTypes, ReturnTypes
    <3>. QED
      BY <3>1, <3>2
  <2>5. Numbering(d, docs[d].data, next)
    BY <1>1, <1>4, <2>1, <2>3, <2>4 DEF Transition, Numbering
  <2>. QED
    BY <1>1, <2>1, <2>5 DEF Shape
<1>5. CASE CancelDocument(d)
  <2>1. Cancelling(d)
    BY <1>5 DEF CancelDocument, Cancelling
  <2>. QED
    BY <1>1, <2>1 DEF Shape
<1>6. ASSUME NEW s \in BusinessDocuments, NEW year \in Years, Convert(s, d, year)
      PROVE  Shape
  <2>1. [lines |-> docs[s].data.lines, source |-> s, year |-> year] \in Data
    BY <1>6, ConvertedData DEF Convert, BusinessDocuments, Refs
  <2>. QED
    BY <1>1, <1>6, <2>1, DraftingShape DEF Convert
<1>. QED
  BY <1>2, <1>3, <1>4, <1>5, <1>6

LEMMA StepShape == ASSUME TypeOK, Next PROVE Shape
BY ProductShapes, InvoiceShapes, BusinessDocumentShapes DEF Next

-----------------------------------------------------------------------------
(* Types and reconciliation are inductive. *)

LEMMA ShapeIInv == ASSUME IInv, Shape PROVE IInv'
<1>0. /\ docs \in [Documents -> Row \cup {Absent}]
      /\ sequence \in [DocumentTypes \X Years -> Nat]
      /\ product \in [Products -> ProductStates]
  BY DEF IInv, TypeOK, ProductStates
<1>1. CASE Renaming
  BY <1>0, <1>1, ShelfUnchanged DEF Renaming, ProductStates
<1>2. ASSUME NEW p \in Products, NEW m \in MoveSet, Owning(p, m) PROVE IInv'
  <2> DEFINE moves == [x \in {p} |-> m]
  <2>1. DOMAIN moves \subseteq Products /\ \A x \in DOMAIN moves : moves[x] \in MoveSet
    OBVIOUS
  <2>2. ChangeStock(moves)
    BY <1>2 DEF Owning
  <2> HIDE DEF moves
  <2>. QED
    BY <1>0, <1>2, <2>1, <2>2, ShelfChanged DEF Owning, ProductStates
<1>3. ASSUME NEW d \in Documents, NEW row \in Row \cup {Absent}, Drafting(d, row) PROVE IInv'
  <2>1. docs' \in [Documents -> Row \cup {Absent}]
    BY <1>3, DocsChange DEF IInv, Drafting
  <2>. QED
    BY <1>0, <1>3, <2>1, ShelfUnchanged DEF Drafting, ProductStates
<1>4. ASSUME NEW d \in Documents, NEW data \in Data, NEW status \in Statuses,
             Numbering(d, data, status)
      PROVE  IInv'
  <2>1. docs' \in [Documents -> Row \cup {Absent}]
    BY <1>4, NumberedRowType, DocsChange DEF IInv, Numbering
  <2>2. data.lines \in LineLists /\ data.year \in Years
    BY DEF Data
  <2>3. sequence' \in [DocumentTypes \X Years -> Nat]
    BY <1>4, <2>2, SignType, TakeNumberType DEF IInv, Numbering
  <2>4. "FINALIZED" \in MovementKinds
    BY DEF MovementKinds
  <2>. QED
    BY <1>4, <2>1, <2>2, <2>3, <2>4, DocumentMoves DEF Numbering
<1>5. ASSUME NEW d \in Documents, Cancelling(d) PROVE IInv'
  <2>1. docs[d].status # "ABSENT"
    BY <1>5 DEF Cancelling
  <2>2. docs' \in [Documents -> Row \cup {Absent}]
    BY <1>5, <2>1, CancelChange DEF IInv, Cancelling
  <2>3. docs[d].data.lines \in LineLists
    BY <2>1, RowData DEF IInv
  <2>4. "CANCELLED" \in MovementKinds
    BY DEF MovementKinds
  <2>. QED
    BY <1>0, <1>5, <2>2, <2>3, <2>4, DocumentMoves DEF Cancelling
<1>. QED
  BY <1>1, <1>2, <1>3, <1>4, <1>5 DEF Shape

-----------------------------------------------------------------------------
(* What the steps do to the documents. *)

LEMMA Drafted ==
    ASSUME TypeOK, NEW d \in Documents, NEW row, Drafting(d, row)
    PROVE  /\ docs'[d].status \in {"ABSENT", "DRAFT"}
           /\ \A e \in Documents \ {d} : docs'[e] = docs[e]
BY DEF TypeOK, Drafting, Absent, DraftRow

LEMMA Numbered ==
    ASSUME TypeOK, NEW d \in Documents, NEW data, NEW status, Numbering(d, data, status)
    PROVE  /\ docs'[d] = NumberedRow(d, data, status)
           /\ docs'[d].status = status
           /\ docs'[d].data = data
           /\ \A e \in Documents \ {d} : docs'[e] = docs[e]
BY DEF TypeOK, Numbering, NumberedRow

LEMMA Cancelled ==
    ASSUME TypeOK, NEW d \in Documents, Cancelling(d)
    PROVE  /\ docs'[d].status = "CANCELLED"
           /\ docs'[d].data = docs[d].data
           /\ docs'[d].number = docs[d].number
           /\ \A e \in Documents \ {d} : docs'[e] = docs[e]
<1>1. docs[d] \in Row
  BY RowData DEF Cancelling
<1>2. docs'[d] = [docs[d] EXCEPT !.status = "CANCELLED"]
  BY DEF Cancelling, TypeOK
<1>. QED
  BY <1>1, <1>2 DEF Cancelling, TypeOK, Row

(* The documents that have a permanent number. *)
NumberedOf(type) ==
    {d \in Documents : TypeOf[d] = type /\ docs[d].status \notin {"ABSENT", "DRAFT"}}

LEMMA NumberedDef ==
    NumbersGapFree <=>
        \A type \in DocumentTypes :
            /\ \A d, e \in NumberedOf(type) : docs[d].number = docs[e].number => d = e
            /\ {docs[d].number : d \in NumberedOf(type)} =
                  UNION {{y} \X (1..sequence[<<type, y>>]) : y \in Years}
BY DEF NumbersGapFree, NumberedOf

(* Steps that give no number change none. *)
LEMMA NumbersKept ==
    ASSUME NumbersGapFree, UNCHANGED sequence,
           \A d \in Documents :
              /\ docs[d].status \in {"ABSENT", "DRAFT"}
                    <=> docs'[d].status \in {"ABSENT", "DRAFT"}
              /\ docs[d].status \notin {"ABSENT", "DRAFT"}
                    => docs'[d].number = docs[d].number
    PROVE  NumbersGapFree'
<1> SUFFICES ASSUME NEW type \in DocumentTypes
             PROVE  /\ \A d, e \in NumberedOf(type)' :
                          docs'[d].number = docs'[e].number => d = e
                    /\ {docs'[d].number : d \in NumberedOf(type)'} =
                          UNION {{y} \X (1..sequence'[<<type, y>>]) : y \in Years}
  BY DEF NumbersGapFree, NumberedOf
<1>1. NumberedOf(type)' = NumberedOf(type)
  BY DEF NumberedOf
<1>2. \A d \in NumberedOf(type) : docs'[d].number = docs[d].number
  BY DEF NumberedOf
<1>3. {docs'[d].number : d \in NumberedOf(type)} = {docs[d].number : d \in NumberedOf(type)}
  BY <1>2
<1>4. UNION {{y} \X (1..sequence'[<<type, y>>]) : y \in Years}
      = UNION {{y} \X (1..sequence[<<type, y>>]) : y \in Years}
  OBVIOUS
<1>5. /\ \A d, e \in NumberedOf(type) : docs[d].number = docs[e].number => d = e
      /\ {docs[d].number : d \in NumberedOf(type)} =
            UNION {{y} \X (1..sequence[<<type, y>>]) : y \in Years}
  BY NumberedDef
<1>6. \A d, e \in NumberedOf(type)' : docs'[d].number = docs'[e].number => d = e
  BY <1>1, <1>2, <1>5
<1>7. {docs'[d].number : d \in NumberedOf(type)'} = {docs'[d].number : d \in NumberedOf(type)}
  BY <1>1
<1>. QED
  BY <1>3, <1>4, <1>5, <1>6, <1>7

LEMMA NumberTaken ==
    ASSUME TypeOK, NumbersGapFree, NEW d \in Documents, NEW data, NEW status,
           Numbering(d, data, status)
    PROVE  NumbersGapFree'
<1> DEFINE k == TypeOf[d]
           year == data.year
           n == sequence[<<k, year>>]
<1>1. k \in DocumentTypes /\ year \in Years /\ d \notin NumberedOf(k)
  BY SignType DEF Numbering, Data, NumberedOf
<1>2. n \in Nat /\ \A y \in Years : sequence[<<k, y>>] \in Nat
  BY <1>1 DEF TypeOK
<1>3. sequence' = [sequence EXCEPT ![<<k, year>>] = n + 1]
  BY DEF Numbering, TakeNumber
<1>4. docs'[d].number = <<year, n + 1>>
  <2>1. docs'[d] = NumberedRow(d, data, status)
    BY Numbered
  <2>. QED
    BY <2>1 DEF NumberedRow
<1>5. \A e \in Documents \ {d} : docs'[e] = docs[e]
  BY Numbered
<1>6. docs'[d].status \notin {"ABSENT", "DRAFT"}
  <2>1. docs'[d].status = status
    BY Numbered
  <2>. QED
    BY <2>1 DEF Numbering, Statuses
<1> HIDE DEF k, year, n
<1> SUFFICES ASSUME NEW type \in DocumentTypes
             PROVE  /\ \A a, b \in NumberedOf(type)' :
                          docs'[a].number = docs'[b].number => a = b
                    /\ {docs'[a].number : a \in NumberedOf(type)'} =
                          UNION {{y} \X (1..sequence'[<<type, y>>]) : y \in Years}
  BY DEF NumbersGapFree, NumberedOf
<1>7. CASE type # k
  <2>1. NumberedOf(type)' = NumberedOf(type) /\ d \notin NumberedOf(type)
    BY <1>5, <1>7 DEF NumberedOf, k
  <2>2. \A a \in NumberedOf(type) : docs'[a].number = docs[a].number
    BY <1>5, <2>1 DEF NumberedOf
  <2>3. \A y \in Years : sequence'[<<type, y>>] = sequence[<<type, y>>]
    BY <1>3, <1>7 DEF TypeOK
  <2>4. {docs'[a].number : a \in NumberedOf(type)} = {docs[a].number : a \in NumberedOf(type)}
    BY <2>2
  <2>5. UNION {{y} \X (1..sequence'[<<type, y>>]) : y \in Years}
        = UNION {{y} \X (1..sequence[<<type, y>>]) : y \in Years}
    BY <2>3
  <2>. QED
    BY <2>1, <2>2, <2>4, <2>5, NumberedDef
<1>8. CASE type = k
  <2> DEFINE Old == UNION {{y} \X (1..sequence[<<k, y>>]) : y \in Years}
             New == UNION {{y} \X (1..sequence'[<<k, y>>]) : y \in Years}
  <2>1. NumberedOf(k)' = NumberedOf(k) \cup {d}
    BY <1>5, <1>6 DEF NumberedOf, k
  <2>2. \A a \in NumberedOf(k) : docs'[a].number = docs[a].number
    BY <1>1, <1>5 DEF NumberedOf
  <2>3. {docs[a].number : a \in NumberedOf(k)} = Old
    BY <1>1, NumberedDef
  <2>4. New = Old \cup {<<year, n + 1>>}
    <3>1. \A y \in Years : sequence'[<<k, y>>] = IF y = year THEN n + 1 ELSE sequence[<<k, y>>]
      BY <1>1, <1>3 DEF TypeOK
    <3>2. 1..(n + 1) = 1..n \cup {n + 1}
      BY <1>2
    <3>3. \A y \in Years : {y} \X (1..sequence'[<<k, y>>])
                            = IF y = year THEN ({y} \X (1..n)) \cup {<<y, n + 1>>}
                                          ELSE {y} \X (1..sequence[<<k, y>>])
      BY <3>1, <3>2
    <3>4. \A y \in Years : {y} \X (1..sequence'[<<k, y>>]) =
             ({y} \X (1..sequence[<<k, y>>])) \cup (IF y = year THEN {<<y, n + 1>>} ELSE {})
      BY <3>3 DEF n
    <3> DEFINE Before(y) == {y} \X (1..sequence[<<k, y>>])
               After(y) == {y} \X (1..sequence'[<<k, y>>])
               Taken(y) == {<<y, n + 1>>}
    <3>5. \A y \in Years : After(y) = Before(y) \cup (IF y = year THEN Taken(y) ELSE {})
      BY <3>4
    <3> HIDE DEF Before, After, Taken
    <3>6. UNION {After(y) : y \in Years} = (UNION {Before(y) : y \in Years}) \cup Taken(year)
      BY <1>1, <3>5
    <3>. QED
      BY <3>6 DEF Before, After, Taken
  <2>5. <<year, n + 1>> \notin Old
    <3>1. ASSUME <<year, n + 1>> \in Old PROVE FALSE
      <4>1. PICK y \in Years : <<year, n + 1>> \in {y} \X (1..sequence[<<k, y>>])
        BY <3>1
      <4>2. y = year /\ n + 1 \in 1..n
        BY <4>1 DEF n
      <4>. QED
        BY <1>2, <4>2
    <3>. QED
      BY <3>1
  <2>6. \A a \in NumberedOf(k) : docs'[a].number # <<year, n + 1>>
    BY <2>2, <2>3, <2>5
  <2>7. \A a, b \in NumberedOf(k) : docs'[a].number = docs'[b].number => a = b
    BY <1>1, <2>2, NumberedDef
  <2>8. {docs'[a].number : a \in NumberedOf(k)} = {docs[a].number : a \in NumberedOf(k)}
    BY <2>2
  <2>9. {docs'[a].number : a \in NumberedOf(k) \cup {d}}
        = {docs'[a].number : a \in NumberedOf(k)} \cup {<<year, n + 1>>}
    BY <1>4
  <2>10. \A a, b \in NumberedOf(k) \cup {d} : docs'[a].number = docs'[b].number => a = b
    BY <1>4, <2>6, <2>7
  <2>11. {docs'[a].number : a \in NumberedOf(k) \cup {d}} = New
    BY <2>3, <2>4, <2>8, <2>9
  <2>12. NumberedOf(type)' = NumberedOf(k) \cup {d}
    BY <1>8, <2>1
  <2>13. New = UNION {{y} \X (1..sequence'[<<type, y>>]) : y \in Years}
    BY <1>8
  <2> HIDE DEF New
  <2>. QED
    BY <2>10, <2>11, <2>12, <2>13
<1>. QED
  BY <1>7, <1>8

LEMMA ShapeNumbers == ASSUME TypeOK, NumbersGapFree, Shape PROVE NumbersGapFree'
<1>1. CASE Renaming
  BY <1>1, NumbersKept DEF Renaming
<1>2. ASSUME NEW p \in Products, NEW m \in MoveSet, Owning(p, m) PROVE NumbersGapFree'
  BY <1>2, NumbersKept DEF Owning
<1>3. ASSUME NEW d \in Documents, NEW row \in Row \cup {Absent}, Drafting(d, row)
      PROVE  NumbersGapFree'
  BY <1>3, Drafted, NumbersKept DEF Drafting
<1>4. ASSUME NEW d \in Documents, NEW data \in Data, NEW status \in Statuses,
             Numbering(d, data, status)
      PROVE  NumbersGapFree'
  BY <1>4, NumberTaken
<1>5. ASSUME NEW d \in Documents, Cancelling(d) PROVE NumbersGapFree'
  BY <1>5, Cancelled, NumbersKept DEF Cancelling
<1>. QED
  BY <1>1, <1>2, <1>3, <1>4, <1>5 DEF Shape

-----------------------------------------------------------------------------
(* What the steps do to the movement rows.                                 *)

(* The change document d makes to product p when it is finalized. *)
Signed(d, p) == Sign(TypeOf[d]) * ProductQuantity(docs[d].data.lines, p)

(* Exactly one row of this kind names d, and it carries this change. *)
RowFor(p, d, kind, delta) ==
    \E i : RowsOf(p, d, kind) = {i} /\ movements[p][i].delta = delta

(* A document that left the draft state is FINALIZED exactly if it is of a  *)
(* type that moves stock.                                                  *)
StatusFits ==
    \A d \in Documents :
        docs[d].status \notin {"ABSENT", "DRAFT", "CANCELLED"}
            => (docs[d].status = "FINALIZED" <=> TypeOf[d] \notin QuoteTypes)

(* MovementsFollowStatus with the rows themselves and what each carries:   *)
(* a cancellation reads the quantities from the lines, not from the row    *)
(* that it takes back.                                                     *)
RowsFit(d, p) ==
    /\ IF MovesStock(d, p) THEN RowFor(p, d, "FINALIZED", Signed(d, p))
                           ELSE RowsOf(p, d, "FINALIZED") = {}
    /\ IF MovesStock(d, p) /\ docs[d].status = "CANCELLED"
       THEN RowFor(p, d, "CANCELLED", -Signed(d, p))
       ELSE RowsOf(p, d, "CANCELLED") = {}

RowsFollow == \A d \in Documents, p \in Products : RowsFit(d, p)

LEMMA StockMovesDomain ==
    ASSUME NEW d \in Documents, NEW lines, NEW sign, NEW kind
    PROVE  /\ DOMAIN StockMoves(d, lines, sign, kind)
                = IF TypeOf[d] \in QuoteTypes THEN {} ELSE TrackedIn(lines)
           /\ \A p \in DOMAIN StockMoves(d, lines, sign, kind) :
                 StockMoves(d, lines, sign, kind)[p]
                    = Move(kind, sign * Sign(TypeOf[d]) * ProductQuantity(lines, p), d)
<1>1. Sign(TypeOf[d]) = 0 <=> TypeOf[d] \in QuoteTypes
  BY SignType DEF DocumentTypes, QuoteTypes, ReturnTypes, Sign
<1>. QED
  BY <1>1 DEF StockMoves

(* A step that changes stock adds to the rows of a kind that name a        *)
(* document the row it writes for it, if it writes one.                    *)
LEMMA RowsChange ==
    ASSUME TypeOK, NEW moves, ChangeStock(moves), NEW p \in Products, NEW d, NEW kind,
           p \in DOMAIN moves => moves[p] \in MoveSet
    PROVE  /\ ~(p \in DOMAIN moves /\ moves[p].ref = d /\ moves[p].kind = kind)
                 => /\ RowsOf(p, d, kind)' = RowsOf(p, d, kind)
                    /\ \A delta : RowFor(p, d, kind, delta) => RowFor(p, d, kind, delta)'
           /\ p \in DOMAIN moves /\ moves[p].ref = d /\ moves[p].kind = kind
                 /\ RowsOf(p, d, kind) = {}
                 => RowFor(p, d, kind, moves[p].delta)'
<1> DEFINE log == movements[p]
           e == Entry(moves[p].kind, moves[p].delta, stock[p], moves[p].ref)
<1>1. log \in Seq(EntrySet(MovementKinds, Refs))
  BY DEF TypeOK, Refs
<1>2. CASE p \notin DOMAIN moves
  <2>1. movements'[p] = log
    BY <1>2 DEF ChangeStock
  <2>. QED
    BY <1>2, <2>1 DEF RowsOf, RowFor
<1>3. CASE p \in DOMAIN moves
  <2>1. movements'[p] = Append(log, e)
    BY <1>3 DEF ChangeStock
  <2>2. e.kind = moves[p].kind /\ e.ref = moves[p].ref /\ e.delta = moves[p].delta
    BY DEF Entry
  <2> HIDE DEF log, e
  <2>3. /\ Len(log) \in Nat
        /\ DOMAIN log = 1..Len(log)
        /\ DOMAIN Append(log, e) = 1..(Len(log) + 1)
        /\ \A i \in 1..Len(log) : Append(log, e)[i] = log[i]
        /\ Append(log, e)[Len(log) + 1] = e
    BY <1>1
  <2>4. RowsOf(p, d, kind)' = RowsOf(p, d, kind)
           \cup (IF moves[p].ref = d /\ moves[p].kind = kind THEN {Len(log) + 1} ELSE {})
    BY <2>1, <2>2, <2>3 DEF RowsOf, log
  <2>5. RowsOf(p, d, kind) \subseteq 1..Len(log)
    BY <2>3 DEF RowsOf, log
  <2>6. \A i \in 1..Len(log) : movements'[p][i] = movements[p][i]
    BY <2>1, <2>3 DEF log
  <2>7. movements'[p][Len(log) + 1].delta = moves[p].delta
    BY <2>1, <2>2, <2>3
  <2>. QED
    BY <1>3, <2>4, <2>5, <2>6, <2>7 DEF RowFor
<1>. QED
  BY <1>2, <1>3

(* The rows of a document that a step leaves alone. *)
LEMMA RowsFitKept ==
    ASSUME NEW d, NEW p, RowsFit(d, p), docs'[d] = docs[d],
           \A kind \in {"FINALIZED", "CANCELLED"} :
              /\ RowsOf(p, d, kind)' = RowsOf(p, d, kind)
              /\ \A delta : RowFor(p, d, kind, delta) => RowFor(p, d, kind, delta)'
    PROVE  RowsFit(d, p)'
<1>1. (MovesStock(d, p) <=> MovesStock(d, p)') /\ Signed(d, p)' = Signed(d, p)
  BY DEF MovesStock, Signed
<1>2. RowFor(p, d, "FINALIZED", Signed(d, p))
         => RowFor(p, d, "FINALIZED", Signed(d, p))'
  <2>1. RowFor(p, d, "FINALIZED", Signed(d, p)) =>
           \E i : RowsOf(p, d, "FINALIZED")' = {i} /\ movements'[p][i].delta = Signed(d, p)
    BY DEF RowFor
  <2>. QED
    BY <1>1, <2>1 DEF RowFor
<1>3. RowFor(p, d, "CANCELLED", -Signed(d, p))
         => RowFor(p, d, "CANCELLED", -Signed(d, p))'
  <2>1. RowFor(p, d, "CANCELLED", -Signed(d, p)) =>
           \E i : RowsOf(p, d, "CANCELLED")' = {i} /\ movements'[p][i].delta = -Signed(d, p)
    BY DEF RowFor
  <2>. QED
    BY <1>1, <2>1 DEF RowFor
<1>. QED
  BY <1>1, <1>2, <1>3 DEF RowsFit

LEMMA ShelfLeftAlone ==
    ASSUME NEW d, NEW p, RowsFit(d, p), docs'[d] = docs[d], movements' = movements
    PROVE  RowsFit(d, p)'
<1>1. \A kind : /\ RowsOf(p, d, kind)' = RowsOf(p, d, kind)
                /\ \A delta : RowFor(p, d, kind, delta) => RowFor(p, d, kind, delta)'
  BY DEF RowsOf, RowFor
<1>. QED
  BY <1>1, RowsFitKept

(* A document's step leaves the rows of the others alone, and so does what *)
(* happens on behalf of none.                                              *)
LEMMA OthersKept ==
    ASSUME TypeOK, NEW moves, ChangeStock(moves),
           NEW d \in Documents, NEW p \in Products, RowsFit(d, p), docs'[d] = docs[d],
           p \in DOMAIN moves => moves[p] \in MoveSet /\ moves[p].ref # d
    PROVE  RowsFit(d, p)'
BY RowsChange, RowsFitKept

LEMMA NumberedRows ==
    ASSUME TypeOK, RowsFollow, NEW d \in Documents, NEW data, NEW status,
           Numbering(d, data, status), NEW p \in Products
    PROVE  RowsFit(d, p)'
<1> DEFINE moves == StockMoves(d, data.lines, 1, "FINALIZED")
           q == Sign(TypeOf[d]) * ProductQuantity(data.lines, p)
<1>1. data.lines \in LineLists /\ "FINALIZED" \in MovementKinds
  BY DEF Numbering, Data, MovementKinds
<1>2. ChangeStock(moves)
  BY DEF Numbering
<1>3. ~MovesStock(d, p)
  BY DEF Numbering, MovesStock
<1>4. RowsOf(p, d, "FINALIZED") = {} /\ RowsOf(p, d, "CANCELLED") = {}
  BY <1>3 DEF RowsFollow, RowsFit
<1>5. /\ docs'[d].status = status /\ docs'[d].data = data
      /\ status # "CANCELLED"
      /\ status = "FINALIZED" <=> TypeOf[d] \notin QuoteTypes
  <2> HIDE DEF moves, q
  <2>1. docs'[d].status = status /\ docs'[d].data = data
    BY Numbered
  <2>2. status # "CANCELLED" /\ (status = "FINALIZED" <=> TypeOf[d] \notin QuoteTypes)
    BY DEF Numbering
  <2> QED BY <2>1, <2>2
<1>6. Signed(d, p)' = q
  BY <1>5 DEF Signed
<1>7. MovesStock(d, p)' <=> p \in DOMAIN moves
  BY <1>5, StockMovesDomain DEF MovesStock
<1>8. ASSUME p \in DOMAIN moves
      PROVE  /\ moves[p] \in MoveSet
             /\ moves[p].kind = "FINALIZED" /\ moves[p].ref = d /\ moves[p].delta = q
  <2>1. moves[p] \in MoveSet
    BY <1>1, <1>8, StockMovesType
  <2>2. moves[p] = Move("FINALIZED", 1 * Sign(TypeOf[d]) * ProductQuantity(data.lines, p), d)
    BY <1>8, StockMovesDomain
  <2>3. 1 * Sign(TypeOf[d]) = Sign(TypeOf[d])
    BY SignType
  <2>. QED
    BY <2>1, <2>2, <2>3 DEF Move
<1> HIDE DEF moves
<1>9. RowsOf(p, d, "CANCELLED")' = {}
  BY <1>2, <1>4, <1>8, RowsChange
<1>10. CASE p \in DOMAIN moves
  <2>1. RowFor(p, d, "FINALIZED", moves[p].delta)'
    BY <1>2, <1>4, <1>8, <1>10, RowsChange
  <2>2. \E i : RowsOf(p, d, "FINALIZED")' = {i} /\ movements'[p][i].delta = q
    <3> HIDE DEF q
    <3>1. \E i : RowsOf(p, d, "FINALIZED")' = {i} /\ movements'[p][i].delta = (moves[p].delta)'
      BY <2>1 DEF RowFor
    <3>. QED
      BY <1>8, <1>10, <3>1 DEF moves, StockMoves
  <2>3. RowFor(p, d, "FINALIZED", Signed(d, p))'
    BY <1>6, <2>2 DEF RowFor
  <2>. QED
    BY <1>5, <1>7, <1>9, <1>10, <2>3 DEF RowsFit
<1>11. CASE p \notin DOMAIN moves
  <2>1. RowsOf(p, d, "FINALIZED")' = {}
    BY <1>2, <1>4, <1>11, RowsChange
  <2>. QED
    BY <1>7, <1>9, <1>11, <2>1 DEF RowsFit
<1>. QED
  BY <1>10, <1>11

LEMMA CancelledRows ==
    ASSUME TypeOK, StatusFits, RowsFollow, NEW d \in Documents, Cancelling(d),
           NEW p \in Products
    PROVE  RowsFit(d, p)'
<1>1. PICK lines \in LineLists : lines = docs[d].data.lines
  BY RowData DEF Cancelling
<1> DEFINE moves == StockMoves(d, lines, -1, "CANCELLED")
           q == Sign(TypeOf[d]) * ProductQuantity(lines, p)
<1>2. ChangeStock(moves)
  BY <1>1 DEF Cancelling
<1>3. MovesStock(d, p) <=> p \in DOMAIN moves
  <2>1. docs[d].status \notin {"ABSENT", "DRAFT", "CANCELLED"}
    BY DEF Cancelling
  <2>2. docs[d].status = "FINALIZED" <=> TypeOf[d] \notin QuoteTypes
    BY <2>1 DEF StatusFits
  <2>. QED
    BY <1>1, <2>1, <2>2, StockMovesDomain DEF MovesStock
<1>4. /\ RowsOf(p, d, "CANCELLED") = {}
      /\ IF MovesStock(d, p) THEN RowFor(p, d, "FINALIZED", q)
                             ELSE RowsOf(p, d, "FINALIZED") = {}
  BY <1>1 DEF Cancelling, RowsFollow, RowsFit, Signed
<1>5. docs'[d].status = "CANCELLED" /\ docs'[d].data = docs[d].data
  BY Cancelled
<1>6. Signed(d, p)' = q
  BY <1>1, <1>5 DEF Signed
<1>7. MovesStock(d, p)' <=> p \in DOMAIN moves
  BY <1>1, <1>5, StockMovesDomain DEF MovesStock
<1>8. ASSUME p \in DOMAIN moves
      PROVE  /\ moves[p] \in MoveSet
             /\ moves[p].kind = "CANCELLED" /\ moves[p].ref = d /\ moves[p].delta = -q
  <2>1. moves[p] \in MoveSet
    BY <1>8, StockMovesType DEF MovementKinds
  <2>2. moves[p] = Move("CANCELLED", (-1) * Sign(TypeOf[d]) * ProductQuantity(lines, p), d)
    BY <1>8, StockMovesDomain
  <2>3. ProductQuantity(lines, p) \in Nat
    BY <1>8, QuantityType, StockMovesDomain
  <2>4. \A n \in Nat : (-1) * Sign(TypeOf[d]) * n = -(Sign(TypeOf[d]) * n)
    BY SignType
  <2>. QED
    BY <2>1, <2>2, <2>3, <2>4 DEF Move
<1> HIDE DEF moves, q
<1>9. CASE p \in DOMAIN moves
  <2>1. RowFor(p, d, "FINALIZED", q)'
    BY <1>2, <1>3, <1>4, <1>8, <1>9, RowsChange
  <2>2. RowFor(p, d, "CANCELLED", moves[p].delta)'
    BY <1>2, <1>4, <1>8, <1>9, RowsChange
  <2>3. RowFor(p, d, "FINALIZED", Signed(d, p))'
    <3>1. \E i : RowsOf(p, d, "FINALIZED")' = {i} /\ movements'[p][i].delta = q
      BY <2>1 DEF RowFor, q
    <3>. QED
      BY <1>6, <3>1 DEF RowFor
  <2>4. RowFor(p, d, "CANCELLED", -Signed(d, p))'
    <3>1. \E i : RowsOf(p, d, "CANCELLED")' = {i} /\ movements'[p][i].delta = moves[p].delta
      BY <2>2 DEF RowFor, moves, StockMoves
    <3>. QED
      BY <1>6, <1>8, <1>9, <3>1 DEF RowFor
  <2>. QED
    BY <1>5, <1>7, <1>9, <2>3, <2>4 DEF RowsFit
<1>10. CASE p \notin DOMAIN moves
  <2>1. RowsOf(p, d, "FINALIZED")' = {} /\ RowsOf(p, d, "CANCELLED")' = {}
    BY <1>2, <1>3, <1>4, <1>10, RowsChange
  <2>. QED
    BY <1>7, <1>10, <2>1 DEF RowsFit
<1>. QED
  BY <1>9, <1>10

LEMMA ShapeRows ==
    ASSUME TypeOK, StatusFits, RowsFollow, Shape PROVE StatusFits' /\ RowsFollow'
<1>1. CASE Renaming
  BY <1>1, ShelfLeftAlone DEF Renaming, StatusFits, RowsFollow
<1>2. ASSUME NEW p \in Products, NEW m \in MoveSet, Owning(p, m)
      PROVE  StatusFits' /\ RowsFollow'
  <2> DEFINE moves == [x \in {p} |-> m]
  <2>1. NoDocument \notin Documents
    BY StockAssumption
  <2>2. \A d \in Documents, x \in DOMAIN moves : moves[x] \in MoveSet /\ moves[x].ref # d
    BY <1>2, <2>1 DEF Owning
  <2>3. ChangeStock(moves) /\ docs' = docs
    BY <1>2 DEF Owning
  <2> HIDE DEF moves
  <2>4. RowsFollow'
    BY <2>2, <2>3, OthersKept DEF RowsFollow
  <2>. QED
    BY <2>3, <2>4 DEF StatusFits
<1>3. ASSUME NEW d \in Documents, NEW row \in Row \cup {Absent}, Drafting(d, row)
      PROVE  StatusFits' /\ RowsFollow'
  <2>1. docs'[d].status \in {"ABSENT", "DRAFT"} /\ docs[d].status \in {"ABSENT", "DRAFT"}
    BY <1>3, Drafted DEF Drafting
  <2>2. \A e \in Documents \ {d} : docs'[e] = docs[e]
    BY <1>3, Drafted
  <2>3. movements' = movements
    BY <1>3 DEF Drafting
  <2>4. ASSUME NEW e \in Documents, NEW p \in Products PROVE RowsFit(e, p)'
    <3>1. CASE e # d
      BY <2>2, <2>3, <3>1, ShelfLeftAlone DEF RowsFollow
    <3>2. CASE e = d
      <4>1. ~MovesStock(d, p) /\ ~MovesStock(d, p)'
        BY <2>1 DEF MovesStock
      <4>2. \A kind : RowsOf(p, d, kind)' = RowsOf(p, d, kind)
        BY <2>3 DEF RowsOf
      <4>. QED
        BY <3>2, <4>1, <4>2 DEF RowsFollow, RowsFit
    <3>. QED
      BY <3>1, <3>2
  <2>. QED
    BY <2>1, <2>2, <2>4 DEF StatusFits, RowsFollow
<1>4. ASSUME NEW d \in Documents, NEW data \in Data, NEW status \in Statuses,
             Numbering(d, data, status)
      PROVE  StatusFits' /\ RowsFollow'
  <2> DEFINE moves == StockMoves(d, data.lines, 1, "FINALIZED")
  <2>1. ChangeStock(moves)
    BY <1>4 DEF Numbering
  <2>2. \A x \in DOMAIN moves : moves[x] \in MoveSet /\ moves[x].ref = d
    <3>1. data.lines \in LineLists /\ "FINALIZED" \in MovementKinds
      BY DEF Data, MovementKinds
    <3>. QED
      BY <3>1, StockMovesType, StockMovesDomain DEF Move
  <2> HIDE DEF moves
  <2>3. \A e \in Documents \ {d} : docs'[e] = docs[e]
    BY <1>4, Numbered
  <2>4. RowsFollow'
    BY <1>4, <2>1, <2>2, <2>3, OthersKept, NumberedRows DEF RowsFollow
  <2>5. docs'[d].status = status
    BY <1>4, Numbered
  <2>6. status = "FINALIZED" <=> TypeOf[d] \notin QuoteTypes
    BY <1>4 DEF Numbering
  <2>. QED
    BY <2>3, <2>4, <2>5, <2>6 DEF StatusFits
<1>5. ASSUME NEW d \in Documents, Cancelling(d) PROVE StatusFits' /\ RowsFollow'
  <2>1. PICK lines \in LineLists : lines = docs[d].data.lines
    BY <1>5, RowData DEF Cancelling
  <2> DEFINE moves == StockMoves(d, lines, -1, "CANCELLED")
  <2>2. ChangeStock(moves)
    BY <1>5, <2>1 DEF Cancelling
  <2>3. \A x \in DOMAIN moves : moves[x] \in MoveSet /\ moves[x].ref = d
    BY StockMovesType, StockMovesDomain DEF Move, MovementKinds
  <2> HIDE DEF moves
  <2>4. \A e \in Documents \ {d} : docs'[e] = docs[e]
    BY <1>5, Cancelled
  <2>5. RowsFollow'
    BY <1>5, <2>2, <2>3, <2>4, OthersKept, CancelledRows DEF RowsFollow
  <2>6. docs'[d].status = "CANCELLED"
    BY <1>5, Cancelled
  <2>. QED
    BY <2>4, <2>5, <2>6 DEF StatusFits
<1>. QED
  BY <1>1, <1>2, <1>3, <1>4, <1>5 DEF Shape

LEMMA RowsCounted == RowsFollow /\ TypeOK => MovementsFollowStatus
<1> SUFFICES ASSUME RowsFollow, TypeOK, NEW d \in Documents, NEW p \in Products
             PROVE  LET finalized == RowsOf(p, d, "FINALIZED")
                        cancelled == RowsOf(p, d, "CANCELLED")
                    IN
                    /\ Cardinality(finalized) = IF MovesStock(d, p) THEN 1 ELSE 0
                    /\ Cardinality(cancelled) =
                          IF MovesStock(d, p) /\ docs[d].status = "CANCELLED" THEN 1 ELSE 0
                    /\ \A i \in finalized, j \in cancelled :
                          movements[p][j].delta = -movements[p][i].delta
  BY DEF MovementsFollowStatus
<1>1. RowsFit(d, p)
  BY DEF RowsFollow
<1>2. \A x : Cardinality({x}) = 1
  BY FS_Singleton
<1>3. Cardinality({}) = 0
  BY FS_EmptySet
<1>. QED
  BY <1>1, <1>2, <1>3 DEF RowsFit, RowFor

-----------------------------------------------------------------------------
(* Returns and what is left of their source.                               *)

(* The finalized returns against document s. *)
ReturnsOf(s) ==
    {x \in Documents : /\ TypeOf[x] \in ReturnTypes
                       /\ docs[x].status = "FINALIZED"
                       /\ docs[x].data.source = s}

(* The source of a finalized return has left the draft state, for good. *)
SourceNumbered ==
    \A s \in Refs : ReturnsOf(s) # {}
        => s \in Documents /\ docs[s].status \notin {"ABSENT", "DRAFT"}

TakenBy(s, i) == [r \in ReturnsOf(s) |-> Returned(docs[r].data.lines, s, i)]

LEMMA UsedIs ==
    ASSUME NEW s, NEW i
    PROVE  Used(s, i) = SumOf(TakenBy(s, i)) /\ Used(s, i)' = SumOf(TakenBy(s, i)')
BY DEF Used, TakenBy, ReturnsOf

LEMMA ReturnedType ==
    ASSUME NEW lines \in LineLists, NEW s, NEW i
    PROVE  Returned(lines, s, i) \in Nat
<1> DEFINE f == [j \in {k \in DOMAIN lines : lines[k].sourceLine = <<s, i>>} |->
                    lines[j].quantity]
<1>1. lines \in Seq(Line)
  BY StockAssumption DEF LineLists, Draft
<1>2. ASSUME NEW j \in DOMAIN lines PROVE lines[j].quantity \in Nat
  <2>1. lines[j] \in Line
    BY <1>1
  <2>. QED
    BY <2>1 DEF Line
<1>3. IsFiniteSet(DOMAIN lines)
  BY <1>1, FS_Interval
<1>4. IsFiniteSet(DOMAIN f) /\ \A j \in DOMAIN f : f[j] \in Nat
  BY <1>2, <1>3, FS_Subset
<1>5. SumOf(f) \in Nat
  <2> HIDE DEF f
  <2>. QED
    BY <1>4, SumOfNat
<1>. QED
  BY <1>5 DEF Returned

(* The sum behind Used is one of naturals over a finite set. *)
TakenByFinite ==
    \A s, i : /\ IsFiniteSet(DOMAIN TakenBy(s, i))
              /\ \A r \in DOMAIN TakenBy(s, i) : TakenBy(s, i)[r] \in Nat
              /\ Used(s, i) \in Nat

LEMMA TakenByType == TypeOK => TakenByFinite
<1> SUFFICES ASSUME TypeOK, NEW s, NEW i
             PROVE  /\ IsFiniteSet(DOMAIN TakenBy(s, i))
                    /\ \A r \in DOMAIN TakenBy(s, i) : TakenBy(s, i)[r] \in Nat
                    /\ Used(s, i) \in Nat
  BY DEF TakenByFinite
<1>1. IsFiniteSet(DOMAIN TakenBy(s, i))
  <2>1. DOMAIN TakenBy(s, i) \subseteq Documents
    BY DEF TakenBy, ReturnsOf
  <2>. QED
    BY <2>1, StockAssumption, FS_Subset
<1>2. ASSUME NEW r \in DOMAIN TakenBy(s, i) PROVE TakenBy(s, i)[r] \in Nat
  <2>1. r \in Documents /\ docs[r].status # "ABSENT"
    BY DEF TakenBy, ReturnsOf
  <2>2. docs[r].data.lines \in LineLists
    BY <2>1, RowData
  <2>3. Returned(docs[r].data.lines, s, i) \in Nat
    BY <2>2, ReturnedType
  <2>. QED
    BY <2>3 DEF TakenBy
<1>. QED
  BY <1>1, <1>2, UsedIs, SumOfNat

LEMMA TakenByTypeNext == TypeOK' => TakenByFinite'
BY TakenByType, PTL

LEMMA UsedKept ==
    ASSUME NEW s, NEW i, ReturnsOf(s)' = ReturnsOf(s),
           \A r \in ReturnsOf(s) : docs'[r].data = docs[r].data
    PROVE  Used(s, i)' = Used(s, i)
<1>1. TakenBy(s, i)' = TakenBy(s, i)
  BY DEF TakenBy
<1>. QED
  BY <1>1, UsedIs

(* A return that joins the finalized ones adds what it takes, and one that  *)
(* leaves them gives it back.                                              *)
LEMMA UsedMore ==
    ASSUME TypeOK, TypeOK', NEW s, NEW i, NEW d \in Documents, d \notin ReturnsOf(s),
           ReturnsOf(s)' = ReturnsOf(s) \cup {d},
           \A r \in ReturnsOf(s) : docs'[r].data = docs[r].data
    PROVE  Used(s, i)' = Used(s, i) + Returned(docs'[d].data.lines, s, i)
<1> DEFINE f == TakenBy(s, i)
           h == TakenBy(s, i)'
<1>1. /\ DOMAIN h = DOMAIN f \cup {d} /\ d \notin DOMAIN f
      /\ \A r \in DOMAIN f : f[r] = h[r]
      /\ h[d] = Returned(docs'[d].data.lines, s, i)
  BY DEF TakenBy
<1>2. IsFiniteSet(DOMAIN h) /\ \A r \in DOMAIN h : h[r] \in Nat
  BY TakenByTypeNext DEF TakenByFinite
<1>3. Used(s, i) = SumOf(f) /\ Used(s, i)' = SumOf(h)
  BY UsedIs
<1> HIDE DEF f, h
<1>4. DOMAIN f = DOMAIN h \ {d}
  BY <1>1
<1>5. d \in DOMAIN h /\ \A r \in DOMAIN h : h[r] \in Int
  BY <1>1, <1>2
<1>6. SumOf(h) = SumOf(f) + h[d]
  <2>1. IsFiniteSet(DOMAIN h) /\ \A r \in DOMAIN f : f[r] = h[r]
    BY <1>1, <1>2
  <2>. QED
    BY <1>4, <1>5, <2>1, SumOfAdded
<1>. QED
  BY <1>1, <1>3, <1>6

LEMMA UsedLess ==
    ASSUME TypeOK, TypeOK', NEW s, NEW i, NEW d \in ReturnsOf(s),
           ReturnsOf(s)' = ReturnsOf(s) \ {d},
           \A r \in ReturnsOf(s) : docs'[r].data = docs[r].data
    PROVE  Used(s, i)' <= Used(s, i)
<1> DEFINE f == TakenBy(s, i)'
           h == TakenBy(s, i)
<1>1. /\ DOMAIN f = DOMAIN h \ {d} /\ d \in DOMAIN h
      /\ \A r \in DOMAIN f : f[r] = h[r]
  BY DEF TakenBy
<1>2. IsFiniteSet(DOMAIN h) /\ \A r \in DOMAIN h : h[r] \in Nat
  BY TakenByType DEF TakenByFinite
<1>3. Used(s, i) = SumOf(h) /\ Used(s, i)' = SumOf(f)
  BY UsedIs
<1>4. SumOf(f) \in Nat
  <2>1. Used(s, i)' \in Nat
    BY TakenByTypeNext DEF TakenByFinite
  <2>. QED
    BY <1>3, <2>1
<1> HIDE DEF f, h
<1>5. h[d] \in Nat /\ \A r \in DOMAIN h : h[r] \in Int
  BY <1>1, <1>2
<1>6. SumOf(h) = SumOf(f) + h[d]
  BY <1>1, <1>2, <1>5, SumOfAdded
<1>. QED
  BY <1>3, <1>4, <1>5, <1>6

LEMMA LineQuantity ==
    ASSUME NEW lines \in LineLists, NEW i \in DOMAIN lines
    PROVE  lines[i].quantity \in Nat
<1>1. lines \in Seq(Line)
  BY StockAssumption DEF LineLists, Draft
<1>2. lines[i] \in Line
  BY <1>1
<1>. QED
  BY <1>2 DEF Line

Within(s) ==
    \A i \in DOMAIN docs[s].data.lines : Used(s, i) <= docs[s].data.lines[i].quantity

LEMMA WithinDef ==
    ReturnsWithinSource <=>
        \A s \in Documents : docs[s].status \notin {"ABSENT", "DRAFT"} => Within(s)
BY DEF ReturnsWithinSource, Within

LEMMA WithinKept ==
    ASSUME NEW s, Within(s), docs'[s].data = docs[s].data,
           ReturnsOf(s)' = ReturnsOf(s),
           \A r \in ReturnsOf(s) : docs'[r].data = docs[r].data
    PROVE  Within(s)'
<1>1. \A i : Used(s, i)' = Used(s, i)
  BY UsedKept
<1>. QED
  BY <1>1 DEF Within

(* The step that finalizes a return, seen from its source ... *)
LEMMA SourceReturned ==
    ASSUME TypeOK, TypeOK', NEW d \in Documents, NEW data, Numbering(d, data, "FINALIZED"),
           TypeOf[d] \in ReturnTypes, Within(data.source)
    PROVE  Within(data.source)'
<1> DEFINE s == data.source
<1>1. /\ s \in Documents
      /\ docs[s].status = "FINALIZED"
      /\ \A i \in DOMAIN docs[s].data.lines :
            Returned(data.lines, s, i) > 0
               => Used(s, i) + Returned(data.lines, s, i) <= docs[s].data.lines[i].quantity
  BY DEF Numbering, ValidateReturnBounds
<1>2. docs[d].status \in {"ABSENT", "DRAFT"} /\ data.lines \in LineLists
  BY DEF Numbering, Data
<1>3. /\ docs'[d].status = "FINALIZED" /\ docs'[d].data = data
      /\ \A e \in Documents \ {d} : docs'[e] = docs[e]
  BY Numbered
<1>4. /\ d \notin ReturnsOf(s)
      /\ ReturnsOf(s)' = ReturnsOf(s) \cup {d}
      /\ \A r \in ReturnsOf(s) : docs'[r].data = docs[r].data
  BY <1>2, <1>3 DEF ReturnsOf
<1>5. docs'[s] = docs[s]
  BY <1>1, <1>2, <1>3
<1> HIDE DEF s
<1>6. ASSUME NEW i \in DOMAIN docs[s].data.lines
      PROVE  Used(s, i)' <= docs[s].data.lines[i].quantity
  <2>1. Used(s, i)' = Used(s, i) + Returned(data.lines, s, i)
    BY <1>3, <1>4, UsedMore
  <2>2. Used(s, i) \in Nat /\ Returned(data.lines, s, i) \in Nat
    BY <1>2, ReturnedType, TakenByType DEF TakenByFinite
  <2>3. Used(s, i) <= docs[s].data.lines[i].quantity
    BY DEF Within, s
  <2>. QED
    BY <1>1, <2>1, <2>2, <2>3
<1>. QED
  BY <1>5, <1>6 DEF Within, s

(* ... and a document that gets its number, which nothing was returned to. *)
LEMMA NumberedUnreturned ==
    ASSUME TypeOK, SourceNumbered, NEW d \in Documents, NEW data, NEW status,
           Numbering(d, data, status)
    PROVE  ReturnsOf(d)' = {} /\ Within(d)'
<1>1. /\ docs'[d].status = status /\ docs'[d].data = data
      /\ \A e \in Documents \ {d} : docs'[e] = docs[e]
  BY Numbered
<1>2. docs[d].status \in {"ABSENT", "DRAFT"} /\ data.lines \in LineLists
  BY DEF Numbering, Data
<1>3. ReturnsOf(d) = {}
  BY <1>2 DEF SourceNumbered, Refs
<1>4. ~(TypeOf[d] \in ReturnTypes /\ status = "FINALIZED" /\ data.source = d)
  BY <1>2 DEF Numbering, ValidateReturnBounds
<1>5. ReturnsOf(d)' = {}
  BY <1>1, <1>3, <1>4 DEF ReturnsOf
<1>6. \A i : Used(d, i)' = 0
  <2>1. \A i : DOMAIN TakenBy(d, i)' = {}
    BY <1>5 DEF TakenBy
  <2>. QED
    BY <2>1, UsedIs, SumOfEmpty
<1>. QED
  BY <1>1, <1>2, <1>5, <1>6, LineQuantity DEF Within

LEMMA ShapeReturns ==
    ASSUME TypeOK, TypeOK', SourceNumbered, ReturnsWithinSource, Shape
    PROVE  SourceNumbered' /\ ReturnsWithinSource'
<1>1. ASSUME docs' = docs PROVE SourceNumbered' /\ ReturnsWithinSource'
  <2>1. \A s : ReturnsOf(s)' = ReturnsOf(s)
    BY <1>1 DEF ReturnsOf
  <2>2. ASSUME NEW s, Within(s) PROVE Within(s)'
    BY <1>1, <2>1, <2>2, WithinKept
  <2>. QED
    BY <1>1, <2>1, <2>2 DEF SourceNumbered, ReturnsWithinSource, Within
<1>2. CASE Renaming
  BY <1>1, <1>2 DEF Renaming
<1>3. ASSUME NEW p \in Products, NEW m \in MoveSet, Owning(p, m)
      PROVE  SourceNumbered' /\ ReturnsWithinSource'
  BY <1>1, <1>3 DEF Owning
<1>4. ASSUME NEW d \in Documents, NEW row \in Row \cup {Absent}, Drafting(d, row)
      PROVE  SourceNumbered' /\ ReturnsWithinSource'
  <2>1. docs'[d].status \in {"ABSENT", "DRAFT"} /\ docs[d].status \in {"ABSENT", "DRAFT"}
    BY <1>4, Drafted DEF Drafting
  <2>2. \A e \in Documents \ {d} : docs'[e] = docs[e]
    BY <1>4, Drafted
  <2>3. \A s : /\ ReturnsOf(s)' = ReturnsOf(s)
               /\ \A r \in ReturnsOf(s) : docs'[r].data = docs[r].data
    BY <2>1, <2>2 DEF ReturnsOf
  <2>4. ASSUME NEW s \in Documents, docs'[s].status \notin {"ABSENT", "DRAFT"}
        PROVE  Within(s)'
    BY <2>1, <2>2, <2>3, <2>4, WithinKept, WithinDef
  <2>5. SourceNumbered'
    BY <2>1, <2>2, <2>3 DEF SourceNumbered
  <2>. QED
    BY <2>4, <2>5 DEF ReturnsWithinSource, Within
<1>5. ASSUME NEW d \in Documents, NEW data \in Data, NEW status \in Statuses,
             Numbering(d, data, status)
      PROVE  SourceNumbered' /\ ReturnsWithinSource'
  <2>1. docs'[d].status = status /\ docs'[d].data = data
    BY <1>5, Numbered
  <2>2. \A e \in Documents \ {d} : docs'[e] = docs[e]
    BY <1>5, Numbered
  <2>3. docs[d].status \in {"ABSENT", "DRAFT"} /\ status \notin {"ABSENT", "DRAFT"}
    BY <1>5 DEF Numbering, Statuses
  <2>4. ReturnsOf(d)' = {} /\ Within(d)'
    BY <1>5, NumberedUnreturned
  <2> DEFINE Returns(s) == TypeOf[d] \in ReturnTypes /\ status = "FINALIZED" /\ data.source = s
  <2>5. \A s : ~Returns(s) => ReturnsOf(s)' = ReturnsOf(s)
    BY <2>1, <2>2, <2>3 DEF ReturnsOf
  <2>6. \A s : \A r \in ReturnsOf(s) : docs'[r].data = docs[r].data
    BY <2>2, <2>3 DEF ReturnsOf
  <2>7. \A s : Returns(s) => s \in Documents /\ docs[s].status = "FINALIZED"
    BY <1>5 DEF Numbering, ValidateReturnBounds
  <2>8. ASSUME NEW s \in Documents, docs'[s].status \notin {"ABSENT", "DRAFT"}, s # d
        PROVE  Within(s)'
    <3>1. docs'[s] = docs[s] /\ Within(s)
      BY <2>2, <2>8, WithinDef
    <3>2. CASE Returns(s)
      BY <1>5, <3>1, <3>2, SourceReturned
    <3>3. CASE ~Returns(s)
      BY <2>5, <2>6, <3>1, <3>3, WithinKept
    <3>. QED
      BY <3>2, <3>3
  <2>9. ASSUME NEW s \in Refs, ReturnsOf(s)' # {}
        PROVE  s \in Documents /\ docs'[s].status \notin {"ABSENT", "DRAFT"}
    <3>1. s # d
      BY <2>4, <2>9
    <3>2. s \in Documents /\ docs[s].status \notin {"ABSENT", "DRAFT"}
      BY <2>5, <2>7, <2>9 DEF SourceNumbered
    <3>. QED
      BY <2>2, <3>1, <3>2
  <2>. QED
    BY <2>4, <2>8, <2>9 DEF SourceNumbered, ReturnsWithinSource, Within
<1>6. ASSUME NEW d \in Documents, Cancelling(d)
      PROVE  SourceNumbered' /\ ReturnsWithinSource'
  <2>1. /\ docs'[d].status = "CANCELLED" /\ docs'[d].data = docs[d].data
        /\ docs[d].status \notin {"ABSENT", "DRAFT"}
    BY <1>6, Cancelled DEF Cancelling
  <2>2. \A e \in Documents \ {d} : docs'[e] = docs[e]
    BY <1>6, Cancelled
  <2>3. \A s : /\ ReturnsOf(s)' = ReturnsOf(s) \ {d}
               /\ \A r \in ReturnsOf(s) : docs'[r].data = docs[r].data
    BY <2>1, <2>2 DEF ReturnsOf
  <2>4. ASSUME NEW s \in Documents, docs'[s].status \notin {"ABSENT", "DRAFT"}
        PROVE  Within(s)'
    <3>1. Within(s) /\ docs'[s].data = docs[s].data
      BY <2>1, <2>2, <2>4, WithinDef
    <3>2. CASE d \notin ReturnsOf(s)
      BY <2>3, <3>1, <3>2, WithinKept
    <3>3. CASE d \in ReturnsOf(s)
      <4>1. ASSUME NEW i \in DOMAIN docs[s].data.lines
            PROVE  Used(s, i)' <= docs[s].data.lines[i].quantity
        <5>1. Used(s, i)' <= Used(s, i)
          BY <2>3, <3>3, UsedLess
        <5>2. Used(s, i)' \in Nat /\ Used(s, i) \in Nat
          BY TakenByType, TakenByTypeNext DEF TakenByFinite
        <5>3. docs[s].data.lines[i].quantity \in Nat
          BY <2>1, <2>2, <2>4, RowData, LineQuantity
        <5>. QED
          BY <3>1, <5>1, <5>2, <5>3 DEF Within
      <4>. QED
        BY <3>1, <4>1 DEF Within
    <3>. QED
      BY <3>2, <3>3
  <2>5. SourceNumbered'
    BY <2>1, <2>2, <2>3 DEF SourceNumbered
  <2>. QED
    BY <2>4, <2>5 DEF ReturnsWithinSource, Within
<1>. QED
  BY <1>2, <1>3, <1>4, <1>5, <1>6 DEF Shape

-----------------------------------------------------------------------------
(* What a product's stock is made of.                                      *)

Inward == {"PURCHASE_BILL", "SALES_RETURN"}
Outward == {"INVOICE", "PURCHASE_RETURN"}

OwnRows(p) == {i \in DOMAIN movements[p] : movements[p][i].ref = NoDocument}
OwnDeltas(p) == [i \in OwnRows(p) |-> movements[p][i].delta]

FinalizedOf(types) ==
    {d \in Documents : TypeOf[d] \in types /\ docs[d].status = "FINALIZED"}
MovedBy(types, p) ==
    [d \in FinalizedOf(types) |-> ProductQuantity(docs[d].data.lines, p)]

LEMMA ExplainedDef ==
    StockExplained <=>
        \A p \in Tracked : stock[p] = SumOf(OwnDeltas(p))
                                      + SumOf(MovedBy(Inward, p)) - SumOf(MovedBy(Outward, p))
BY DEF StockExplained, OwnRows, OwnDeltas, FinalizedOf, MovedBy, Inward, Outward

LEMMA TrackedQuantity ==
    ASSUME NEW lines \in LineLists, NEW p \in Tracked
    PROVE  /\ ProductQuantity(lines, p) \in Nat
           /\ p \notin TrackedIn(lines) => ProductQuantity(lines, p) = 0
<1>1. CASE p \in TrackedIn(lines)
  BY <1>1, QuantityType
<1>2. CASE p \notin TrackedIn(lines)
  <2> DEFINE f == [i \in {j \in DOMAIN lines : lines[j].product = p} |-> lines[i].quantity]
  <2>1. DOMAIN f = {}
    BY <1>2 DEF TrackedIn
  <2> HIDE DEF f
  <2>2. SumOf(f) = 0
    BY <2>1, SumOfEmpty
  <2>. QED
    BY <2>2 DEF f, ProductQuantity
<1>. QED
  BY <1>1, <1>2

(* The sums are sums of integers over finite sets. *)
ExplainedFinite ==
    \A p \in Tracked :
        /\ IsFiniteSet(DOMAIN OwnDeltas(p))
        /\ \A i \in DOMAIN OwnDeltas(p) : OwnDeltas(p)[i] \in Int
        /\ SumOf(OwnDeltas(p)) \in Int
        /\ \A types : /\ IsFiniteSet(DOMAIN MovedBy(types, p))
                      /\ \A d \in DOMAIN MovedBy(types, p) : MovedBy(types, p)[d] \in Nat
                      /\ SumOf(MovedBy(types, p)) \in Int

LEMMA OwnDeltasType ==
    ASSUME TypeOK, NEW p \in Tracked
    PROVE  /\ IsFiniteSet(DOMAIN OwnDeltas(p))
           /\ \A i \in DOMAIN OwnDeltas(p) : OwnDeltas(p)[i] \in Int
           /\ SumOf(OwnDeltas(p)) \in Int
<1> DEFINE E == EntrySet(MovementKinds, Refs)
<1>1. movements[p] \in Seq(E)
  BY StockAssumption DEF TypeOK, Refs
<1>2. ASSUME NEW i \in DOMAIN movements[p] PROVE movements[p][i].delta \in Int
  <2>1. movements[p][i] \in E
    <3> HIDE DEF E
    <3>. QED
      BY <1>1
  <2>. QED
    BY <2>1 DEF EntrySet
<1> HIDE DEF E
<1>3. IsFiniteSet(DOMAIN movements[p])
  BY <1>1, FS_Interval
<1>4. DOMAIN OwnDeltas(p) \subseteq DOMAIN movements[p]
  BY DEF OwnDeltas, OwnRows
<1>5. IsFiniteSet(DOMAIN OwnDeltas(p))
  BY <1>3, <1>4, FS_Subset
<1>6. \A i \in DOMAIN OwnDeltas(p) : OwnDeltas(p)[i] \in Int
  BY <1>2 DEF OwnDeltas, OwnRows
<1>. QED
  BY <1>5, <1>6, SumOfType

LEMMA MovedByType ==
    ASSUME TypeOK, NEW p \in Tracked, NEW types
    PROVE  /\ IsFiniteSet(DOMAIN MovedBy(types, p))
           /\ \A d \in DOMAIN MovedBy(types, p) : MovedBy(types, p)[d] \in Nat
           /\ SumOf(MovedBy(types, p)) \in Int
<1>1. DOMAIN MovedBy(types, p) \subseteq Documents
  BY DEF MovedBy, FinalizedOf
<1>2. IsFiniteSet(DOMAIN MovedBy(types, p))
  BY <1>1, StockAssumption, FS_Subset
<1>3. ASSUME NEW d \in DOMAIN MovedBy(types, p) PROVE MovedBy(types, p)[d] \in Nat
  <2>1. d \in Documents /\ docs[d].status # "ABSENT"
    BY DEF MovedBy, FinalizedOf
  <2>2. docs[d].data.lines \in LineLists
    BY <2>1, RowData
  <2>3. ProductQuantity(docs[d].data.lines, p) \in Nat
    BY <2>2, TrackedQuantity
  <2>. QED
    BY <2>3 DEF MovedBy
<1>4. \A d \in DOMAIN MovedBy(types, p) : MovedBy(types, p)[d] \in Int
  BY <1>3
<1>. QED
  BY <1>2, <1>3, <1>4, SumOfType

LEMMA ExplainedTypes == TypeOK => ExplainedFinite
BY OwnDeltasType, MovedByType DEF ExplainedFinite

LEMMA ExplainedTypesNext == TypeOK' => ExplainedFinite'
BY ExplainedTypes, PTL

LEMMA MovedKept ==
    ASSUME NEW types, NEW p, FinalizedOf(types)' = FinalizedOf(types),
           \A d \in FinalizedOf(types) : docs'[d].data = docs[d].data
    PROVE  SumOf(MovedBy(types, p)') = SumOf(MovedBy(types, p))
<1>1. MovedBy(types, p)' = MovedBy(types, p)
  BY DEF MovedBy
<1>. QED
  BY <1>1

LEMMA MovedMore ==
    ASSUME ExplainedFinite', NEW types, NEW p \in Tracked, NEW d \in Documents,
           d \notin FinalizedOf(types),
           FinalizedOf(types)' = FinalizedOf(types) \cup {d},
           \A e \in FinalizedOf(types) : docs'[e].data = docs[e].data
    PROVE  SumOf(MovedBy(types, p)')
             = SumOf(MovedBy(types, p)) + ProductQuantity(docs'[d].data.lines, p)
<1> DEFINE f == MovedBy(types, p)
           h == MovedBy(types, p)'
<1>1. DOMAIN h = DOMAIN f \cup {d} /\ d \notin DOMAIN f
  BY DEF MovedBy
<1>2. \A e \in DOMAIN f : f[e] = h[e]
  BY DEF MovedBy
<1>3. h[d] = ProductQuantity(docs'[d].data.lines, p)
  BY DEF MovedBy
<1>4. IsFiniteSet(DOMAIN h) /\ \A e \in DOMAIN h : h[e] \in Nat
  BY DEF ExplainedFinite
<1> HIDE DEF f, h
<1>5. DOMAIN f = DOMAIN h \ {d}
  BY <1>1
<1>6. d \in DOMAIN h /\ \A e \in DOMAIN h : h[e] \in Int
  BY <1>1, <1>4
<1>7. IsFiniteSet(DOMAIN h)
  BY <1>4
<1>8. SumOf(h) = SumOf(f) + h[d]
  BY <1>2, <1>5, <1>6, <1>7, SumOfAdded
<1>. QED
  BY <1>3, <1>8 DEF f, h

LEMMA MovedLess ==
    ASSUME ExplainedFinite, NEW types, NEW p \in Tracked, NEW d \in FinalizedOf(types),
           FinalizedOf(types)' = FinalizedOf(types) \ {d},
           \A e \in FinalizedOf(types) : docs'[e].data = docs[e].data
    PROVE  SumOf(MovedBy(types, p))
             = SumOf(MovedBy(types, p)') + ProductQuantity(docs[d].data.lines, p)
<1> DEFINE f == MovedBy(types, p)'
           h == MovedBy(types, p)
<1>1. DOMAIN f = DOMAIN h \ {d} /\ d \in DOMAIN h
  BY DEF MovedBy
<1>2. \A e \in DOMAIN f : f[e] = h[e]
  BY DEF MovedBy
<1>3. h[d] = ProductQuantity(docs[d].data.lines, p)
  BY DEF MovedBy
<1>4. IsFiniteSet(DOMAIN h) /\ \A e \in DOMAIN h : h[e] \in Nat
  BY DEF ExplainedFinite
<1> HIDE DEF f, h
<1>5. DOMAIN f = DOMAIN h \ {d}
  BY <1>1
<1>6. d \in DOMAIN h /\ \A e \in DOMAIN h : h[e] \in Int
  BY <1>1, <1>4
<1>7. IsFiniteSet(DOMAIN h)
  BY <1>4
<1>8. SumOf(h) = SumOf(f) + h[d]
  BY <1>2, <1>5, <1>6, <1>7, SumOfAdded
<1>. QED
  BY <1>3, <1>8 DEF f, h

(* What a step that changes stock adds to a log. *)
LEMMA LogChange ==
    ASSUME TypeOK, NEW moves, ChangeStock(moves), NEW p \in Products
    PROVE  /\ p \notin DOMAIN moves
                 => movements'[p] = movements[p] /\ stock'[p] = stock[p]
           /\ p \in DOMAIN moves =>
                 /\ stock'[p] = stock[p] + moves[p].delta
                 /\ Len(movements[p]) \in Nat
                 /\ DOMAIN movements[p] = 1..Len(movements[p])
                 /\ DOMAIN movements'[p] = 1..(Len(movements[p]) + 1)
                 /\ \A i \in 1..Len(movements[p]) : movements'[p][i] = movements[p][i]
                 /\ movements'[p][Len(movements[p]) + 1].delta = moves[p].delta
                 /\ movements'[p][Len(movements[p]) + 1].ref = moves[p].ref
                 /\ movements'[p][Len(movements[p]) + 1].kind = moves[p].kind
<1> DEFINE log == movements[p]
           e == Entry(moves[p].kind, moves[p].delta, stock[p], moves[p].ref)
<1>1. log \in Seq(EntrySet(MovementKinds, Refs))
  BY DEF TypeOK, Refs
<1>2. CASE p \notin DOMAIN moves
  BY <1>2 DEF ChangeStock
<1>3. CASE p \in DOMAIN moves
  <2>1. movements'[p] = Append(log, e) /\ stock'[p] = stock[p] + moves[p].delta
    BY <1>3 DEF ChangeStock
  <2>2. e.kind = moves[p].kind /\ e.ref = moves[p].ref /\ e.delta = moves[p].delta
    BY DEF Entry
  <2> HIDE DEF e, log
  <2>3. /\ Len(log) \in Nat
        /\ DOMAIN log = 1..Len(log)
        /\ DOMAIN Append(log, e) = 1..(Len(log) + 1)
        /\ \A i \in 1..Len(log) : Append(log, e)[i] = log[i]
        /\ Append(log, e)[Len(log) + 1] = e
    BY <1>1
  <2>. QED
    BY <1>3, <2>1, <2>2, <2>3 DEF log
<1>. QED
  BY <1>2, <1>3

LEMMA OwnKept ==
    ASSUME TypeOK, NEW moves, ChangeStock(moves), NEW p \in Products,
           p \in DOMAIN moves => moves[p].ref # NoDocument
    PROVE  SumOf(OwnDeltas(p)') = SumOf(OwnDeltas(p))
<1>1. /\ OwnRows(p)' = OwnRows(p)
      /\ \A i \in OwnRows(p) : movements'[p][i] = movements[p][i]
  <2>1. CASE p \notin DOMAIN moves
    <3>1. movements'[p] = movements[p]
      BY <2>1, LogChange
    <3>. QED
      BY <3>1 DEF OwnRows
  <2>2. CASE p \in DOMAIN moves
    <3>1. /\ Len(movements[p]) \in Nat
          /\ DOMAIN movements[p] = 1..Len(movements[p])
          /\ DOMAIN movements'[p] = 1..(Len(movements[p]) + 1)
          /\ \A i \in 1..Len(movements[p]) : movements'[p][i] = movements[p][i]
          /\ movements'[p][Len(movements[p]) + 1].ref # NoDocument
      BY <2>2, LogChange
    <3>. QED
      BY <3>1 DEF OwnRows
  <2>. QED
    BY <2>1, <2>2
<1>2. OwnDeltas(p)' = OwnDeltas(p)
  BY <1>1 DEF OwnDeltas
<1>. QED
  BY <1>2

LEMMA OwnMore ==
    ASSUME TypeOK, ExplainedFinite', NEW moves, ChangeStock(moves), NEW p \in Tracked,
           p \in DOMAIN moves, moves[p].ref = NoDocument
    PROVE  SumOf(OwnDeltas(p)') = SumOf(OwnDeltas(p)) + moves[p].delta
<1> DEFINE f == OwnDeltas(p)
           h == OwnDeltas(p)'
           n == Len(movements[p]) + 1
<1>1. p \in Products
  BY StockAssumption
<1>2. /\ OwnRows(p)' = OwnRows(p) \cup {n} /\ n \notin OwnRows(p)
      /\ \A i \in OwnRows(p) : movements'[p][i] = movements[p][i]
      /\ movements'[p][n].delta = moves[p].delta
  BY <1>1, LogChange DEF OwnRows
<1>3. DOMAIN h = DOMAIN f \cup {n} /\ n \notin DOMAIN f
  BY <1>2 DEF OwnDeltas
<1>4. \A i \in DOMAIN f : f[i] = h[i]
  BY <1>2 DEF OwnDeltas
<1>5. h[n] = moves[p].delta
  BY <1>2 DEF OwnDeltas
<1>6. IsFiniteSet(DOMAIN h) /\ \A i \in DOMAIN h : h[i] \in Int
  BY DEF ExplainedFinite
<1> HIDE DEF f, h, n
<1>7. DOMAIN f = DOMAIN h \ {n} /\ n \in DOMAIN h
  BY <1>3
<1>8. SumOf(h) = SumOf(f) + h[n]
  <2>1. IsFiniteSet(DOMAIN h)
    BY <1>6
  <2>. QED
    BY <1>4, <1>6, <1>7, <2>1, SumOfAdded
<1>. QED
  BY <1>5, <1>8 DEF f, h

LEMMA SignOf ==
    ASSUME NEW d \in Documents
    PROVE  /\ Sign(TypeOf[d]) = IF TypeOf[d] \in Inward THEN 1
                                ELSE IF TypeOf[d] \in Outward THEN -1 ELSE 0
           /\ TypeOf[d] \in QuoteTypes <=> TypeOf[d] \notin Inward \cup Outward
           /\ TypeOf[d] \notin Inward \cap Outward
BY SignType DEF DocumentTypes, QuoteTypes, ReturnTypes, Inward, Outward, Sign

(* What the step of a document does to the stock of a tracked product. *)
LEMMA DocumentDelta ==
    ASSUME TypeOK, NEW d \in Documents, NEW lines \in LineLists, NEW sign \in {-1, 1},
           NEW kind, ChangeStock(StockMoves(d, lines, sign, kind)), NEW p \in Tracked
    PROVE  /\ stock'[p] = stock[p] + sign * Sign(TypeOf[d]) * ProductQuantity(lines, p)
           /\ SumOf(OwnDeltas(p)') = SumOf(OwnDeltas(p))
<1> DEFINE moves == StockMoves(d, lines, sign, kind)
           q == ProductQuantity(lines, p)
<1>1. p \in Products /\ stock[p] \in Int
  BY StockAssumption, MaxStockIsNatural DEF TypeOK
<1>2. q \in Nat
  BY TrackedQuantity
<1>3. p \in DOMAIN moves => moves[p] = Move(kind, sign * Sign(TypeOf[d]) * q, d)
  BY StockMovesDomain
<1>4. p \notin DOMAIN moves => sign * Sign(TypeOf[d]) * q = 0
  <2>1. p \notin DOMAIN moves => Sign(TypeOf[d]) = 0 \/ q = 0
    BY StockMovesDomain, TrackedQuantity, SignOf
  <2>2. \A n \in Nat : sign * 0 * n = 0
    OBVIOUS
  <2>3. sign * Sign(TypeOf[d]) * 0 = 0
    BY SignType
  <2> HIDE DEF moves, q
  <2>. QED
    BY <1>2, <2>1, <2>2, <2>3
<1>5. NoDocument # d
  BY StockAssumption
<1> HIDE DEF moves, q
<1>6. p \in DOMAIN moves => /\ moves[p].delta = sign * Sign(TypeOf[d]) * q
                            /\ moves[p].ref # NoDocument
  BY <1>3, <1>5 DEF Move
<1>7. ChangeStock(moves)
  BY DEF moves
<1>8. stock'[p] = stock[p] + sign * Sign(TypeOf[d]) * q
  BY <1>1, <1>4, <1>6, <1>7, LogChange
<1>9. SumOf(OwnDeltas(p)') = SumOf(OwnDeltas(p))
  BY <1>1, <1>6, <1>7, OwnKept
<1>. QED
  BY <1>8, <1>9 DEF q

LEMMA ShapeExplained ==
    ASSUME TypeOK, TypeOK', StatusFits, StockExplained, Shape PROVE StockExplained'
<1>0. ExplainedFinite /\ ExplainedFinite'
  BY ExplainedTypes, ExplainedTypesNext
<1> DEFINE Own(p) == SumOf(OwnDeltas(p))
           In(p) == SumOf(MovedBy(Inward, p))
           Out(p) == SumOf(MovedBy(Outward, p))
<1>1. \A p \in Tracked : /\ p \in Products /\ stock[p] \in Int
                         /\ Own(p) \in Int /\ In(p) \in Int /\ Out(p) \in Int
                         /\ stock[p] = Own(p) + In(p) - Out(p)
  BY <1>0, ExplainedDef, StockAssumption, MaxStockIsNatural DEF ExplainedFinite, TypeOK
<1> SUFFICES ASSUME NEW p \in Tracked
             PROVE  stock'[p] = SumOf(OwnDeltas(p)') + SumOf(MovedBy(Inward, p)')
                                - SumOf(MovedBy(Outward, p)')
  BY DEF StockExplained, OwnRows, OwnDeltas, FinalizedOf, MovedBy, Inward, Outward
<1> DEFINE Goal == stock'[p] = SumOf(OwnDeltas(p)') + SumOf(MovedBy(Inward, p)')
                                - SumOf(MovedBy(Outward, p)')
<1>2. ASSUME docs' = docs
      PROVE  /\ SumOf(MovedBy(Inward, p)') = In(p)
             /\ SumOf(MovedBy(Outward, p)') = Out(p)
  <2>1. \A types : FinalizedOf(types)' = FinalizedOf(types)
    BY <1>2 DEF FinalizedOf
  <2>. QED
    BY <1>2, <2>1, MovedKept
<1>3. ASSUME movements' = movements PROVE SumOf(OwnDeltas(p)') = Own(p)
  <2>1. OwnDeltas(p)' = OwnDeltas(p)
    BY <1>3 DEF OwnDeltas, OwnRows
  <2>. QED
    BY <2>1
<1>4. CASE Renaming
  <2>1. docs' = docs /\ movements' = movements /\ stock' = stock
    BY <1>4 DEF Renaming
  <2>. QED
    BY <1>1, <1>2, <1>3, <2>1
<1>5. ASSUME NEW x \in Products, NEW m \in MoveSet, Owning(x, m) PROVE Goal
  <2> DEFINE moves == [y \in {x} |-> m]
  <2>1. ChangeStock(moves) /\ m.ref = NoDocument /\ m.delta \in Int /\ docs' = docs
    BY <1>5 DEF Owning, MoveSet
  <2>2. p \in DOMAIN moves => p = x /\ moves[p] = m
    OBVIOUS
  <2> HIDE DEF moves
  <2>3. CASE p \in DOMAIN moves
    <3>1. stock'[p] = stock[p] + m.delta
      BY <1>1, <2>1, <2>2, <2>3, LogChange
    <3>2. SumOf(OwnDeltas(p)') = Own(p) + m.delta
      BY <1>0, <2>1, <2>2, <2>3, OwnMore
    <3> HIDE DEF Own, In, Out
    <3>. QED
      BY <1>1, <1>2, <2>1, <3>1, <3>2
  <2>4. CASE p \notin DOMAIN moves
    <3>1. stock'[p] = stock[p]
      BY <1>1, <2>1, <2>4, LogChange
    <3>2. SumOf(OwnDeltas(p)') = Own(p)
      BY <1>1, <2>1, <2>4, OwnKept
    <3>. QED
      BY <1>1, <1>2, <2>1, <3>1, <3>2
  <2>. QED
    BY <2>3, <2>4
<1>6. ASSUME NEW d \in Documents, NEW row \in Row \cup {Absent}, Drafting(d, row) PROVE Goal
  <2>1. docs'[d].status \in {"ABSENT", "DRAFT"} /\ docs[d].status \in {"ABSENT", "DRAFT"}
    BY <1>6, Drafted DEF Drafting
  <2>2. \A e \in Documents \ {d} : docs'[e] = docs[e]
    BY <1>6, Drafted
  <2>3. \A types : /\ FinalizedOf(types)' = FinalizedOf(types)
                   /\ \A e \in FinalizedOf(types) : docs'[e].data = docs[e].data
    BY <2>1, <2>2 DEF FinalizedOf
  <2>4. SumOf(MovedBy(Inward, p)') = In(p) /\ SumOf(MovedBy(Outward, p)') = Out(p)
    BY <2>3, MovedKept
  <2>5. movements' = movements /\ stock' = stock
    BY <1>6 DEF Drafting
  <2>. QED
    BY <1>1, <1>3, <2>4, <2>5
<1>7. ASSUME NEW d \in Documents, NEW data \in Data, NEW status \in Statuses,
             Numbering(d, data, status)
      PROVE  Goal
  <2> DEFINE q == ProductQuantity(data.lines, p)
  <2>1. data.lines \in LineLists /\ q \in Nat
    BY TrackedQuantity DEF Data
  <2>2. stock'[p] = stock[p] + 1 * Sign(TypeOf[d]) * q /\ SumOf(OwnDeltas(p)') = Own(p)
    BY <1>7, <2>1, DocumentDelta DEF Numbering
  <2>3. docs'[d].status = status /\ docs'[d].data = data
    BY <1>7, Numbered
  <2>4. \A e \in Documents \ {d} : docs'[e] = docs[e]
    BY <1>7, Numbered
  <2>5. /\ docs[d].status \in {"ABSENT", "DRAFT"}
        /\ status = "FINALIZED" <=> TypeOf[d] \notin QuoteTypes
    BY <1>7 DEF Numbering
  <2>6. ASSUME NEW types \in {Inward, Outward}
        PROVE  SumOf(MovedBy(types, p)')
                 = SumOf(MovedBy(types, p)) + (IF TypeOf[d] \in types THEN q ELSE 0)
    <3>1. d \notin FinalizedOf(types)
      BY <2>5 DEF FinalizedOf
    <3>2. \A e \in FinalizedOf(types) : docs'[e].data = docs[e].data
      BY <2>4, <3>1 DEF FinalizedOf
    <3>3. TypeOf[d] \in types => status = "FINALIZED"
      BY <2>5, SignOf
    <3>4. FinalizedOf(types)' = IF TypeOf[d] \in types THEN FinalizedOf(types) \cup {d}
                                                       ELSE FinalizedOf(types)
      BY <2>3, <2>4, <3>1, <3>3 DEF FinalizedOf
    <3>5. SumOf(MovedBy(types, p)) \in Int
      BY <1>0 DEF ExplainedFinite
    <3>6. CASE TypeOf[d] \in types
      BY <1>0, <2>3, <3>1, <3>2, <3>4, <3>6, MovedMore
    <3>7. CASE TypeOf[d] \notin types
      BY <3>2, <3>4, <3>5, <3>7, MovedKept
    <3>. QED
      BY <3>6, <3>7
  <2>7. /\ SumOf(MovedBy(Inward, p)') = In(p) + (IF TypeOf[d] \in Inward THEN q ELSE 0)
        /\ SumOf(MovedBy(Outward, p)') = Out(p) + (IF TypeOf[d] \in Outward THEN q ELSE 0)
    BY <2>6
  <2> HIDE DEF q, Own, In, Out
  <2>. QED
    BY <1>1, <2>1, <2>2, <2>7, SignOf
<1>8. ASSUME NEW d \in Documents, Cancelling(d) PROVE Goal
  <2>1. PICK lines \in LineLists : lines = docs[d].data.lines
    BY <1>8, RowData DEF Cancelling
  <2> DEFINE q == ProductQuantity(lines, p)
  <2>2. q \in Nat
    BY TrackedQuantity
  <2>3. stock'[p] = stock[p] + (-1) * Sign(TypeOf[d]) * q /\ SumOf(OwnDeltas(p)') = Own(p)
    BY <1>8, <2>1, DocumentDelta DEF Cancelling
  <2>4. docs'[d].status = "CANCELLED" /\ docs'[d].data = docs[d].data
    BY <1>8, Cancelled
  <2>5. \A e \in Documents \ {d} : docs'[e] = docs[e]
    BY <1>8, Cancelled
  <2>6. docs[d].status = "FINALIZED" <=> TypeOf[d] \notin QuoteTypes
    BY <1>8 DEF Cancelling, StatusFits
  <2>7. ASSUME NEW types \in {Inward, Outward}
        PROVE  SumOf(MovedBy(types, p))
                 = SumOf(MovedBy(types, p)') + (IF TypeOf[d] \in types THEN q ELSE 0)
    <3>1. d \in FinalizedOf(types) <=> TypeOf[d] \in types
      BY <2>6, SignOf DEF FinalizedOf
    <3>2. \A e \in FinalizedOf(types) : docs'[e].data = docs[e].data
      BY <2>4, <2>5 DEF FinalizedOf
    <3>3. FinalizedOf(types)' = FinalizedOf(types) \ {d}
      BY <2>4, <2>5 DEF FinalizedOf
    <3>4. SumOf(MovedBy(types, p)) \in Int
      BY <1>0 DEF ExplainedFinite
    <3>5. CASE TypeOf[d] \in types
      BY <1>0, <2>1, <3>1, <3>2, <3>3, <3>5, MovedLess
    <3>6. CASE TypeOf[d] \notin types
      <4>1. FinalizedOf(types)' = FinalizedOf(types)
        BY <3>1, <3>3, <3>6
      <4>. QED
        BY <3>2, <3>4, <3>6, <4>1, MovedKept
    <3>. QED
      BY <3>5, <3>6
  <2>8. /\ In(p) = SumOf(MovedBy(Inward, p)') + (IF TypeOf[d] \in Inward THEN q ELSE 0)
        /\ Out(p) = SumOf(MovedBy(Outward, p)') + (IF TypeOf[d] \in Outward THEN q ELSE 0)
    BY <2>7
  <2>9. SumOf(MovedBy(Inward, p)') \in Int /\ SumOf(MovedBy(Outward, p)') \in Int
    BY <1>0 DEF ExplainedFinite
  <2> HIDE DEF q, Own, In, Out
  <2>. QED
    BY <1>1, <2>2, <2>3, <2>8, <2>9, SignOf
<1>. QED
  BY <1>4, <1>5, <1>6, <1>7, <1>8 DEF Shape

-----------------------------------------------------------------------------
(* The whole inductive invariant.  Beyond the properties themselves it says *)
(* which movement rows exist and what each carries, which status goes with  *)
(* which type, and that a finalized return's source is past the draft state *)
(* (so that nothing has been returned to a document when it is numbered).   *)
Inv ==
    /\ IInv
    /\ NumbersGapFree
    /\ StatusFits /\ RowsFollow
    /\ SourceNumbered /\ ReturnsWithinSource
    /\ StockExplained

LEMMA InitInv == Init => Inv
<1> SUFFICES ASSUME Init PROVE Inv
  OBVIOUS
<1>1. \A d \in Documents : docs[d].status = "ABSENT"
  BY DEF Init, Absent
<1>2. NumbersGapFree
  <2> SUFFICES ASSUME NEW type \in DocumentTypes
               PROVE  /\ \A d, e \in NumberedOf(type) : docs[d].number = docs[e].number => d = e
                      /\ {docs[d].number : d \in NumberedOf(type)} =
                            UNION {{y} \X (1..sequence[<<type, y>>]) : y \in Years}
    BY NumberedDef
  <2>1. NumberedOf(type) = {}
    BY <1>1 DEF NumberedOf
  <2>2. \A y \in Years : {y} \X (1..sequence[<<type, y>>]) = {}
    BY DEF Init
  <2>. QED
    BY <2>1, <2>2
<1>3. StatusFits
  BY <1>1 DEF StatusFits
<1>4. RowsFollow
  <2>1. \A p \in Products : \A d, kind : RowsOf(p, d, kind) = {}
    BY DEF Init, RowsOf
  <2>. QED
    BY <1>1, <2>1 DEF RowsFollow, RowsFit, MovesStock
<1>5. SourceNumbered /\ ReturnsWithinSource
  BY <1>1 DEF SourceNumbered, ReturnsOf, ReturnsWithinSource
<1>6. StockExplained
  <2>1. \A p \in Tracked : /\ DOMAIN OwnDeltas(p) = {} /\ stock[p] = 0
                           /\ \A types : DOMAIN MovedBy(types, p) = {}
    BY <1>1, StockAssumption DEF Init, OwnDeltas, OwnRows, MovedBy, FinalizedOf
  <2>2. \A p \in Tracked : /\ SumOf(OwnDeltas(p)) = 0
                           /\ \A types : SumOf(MovedBy(types, p)) = 0
    BY <2>1, SumOfEmpty
  <2>. QED
    BY <2>1, <2>2, ExplainedDef
<1>. QED
  BY <1>2, <1>3, <1>4, <1>5, <1>6, InitIInv DEF Inv

LEMMA NextInv == ASSUME Inv, [Next]_vars PROVE Inv'
<1>1. CASE UNCHANGED vars
  <2>1. IInv'
    BY <1>1 DEF Inv, IInv, TypeOK, StockReconciles, vars
  <2>2. NumbersGapFree'
    BY <1>1, NumbersKept DEF Inv, vars
  <2>3. StatusFits' /\ RowsFollow'
    BY <1>1, ShelfLeftAlone DEF Inv, vars, StatusFits, RowsFollow
  <2>4. SourceNumbered' /\ ReturnsWithinSource'
    <3>1. \A s : ReturnsOf(s)' = ReturnsOf(s)
      BY <1>1 DEF vars, ReturnsOf
    <3>2. \A s, i : Used(s, i)' = Used(s, i)
      BY <1>1, <3>1, UsedKept DEF vars
    <3>. QED
      BY <1>1, <3>1, <3>2 DEF Inv, vars, SourceNumbered, ReturnsWithinSource
  <2>5. StockExplained'
    BY <1>1 DEF Inv, vars, StockExplained
  <2>. QED
    BY <2>1, <2>2, <2>3, <2>4, <2>5 DEF Inv
<1>2. CASE Next
  <2>1. TypeOK /\ Shape
    BY <1>2, StepShape DEF Inv, IInv
  <2>2. IInv'
    BY <2>1, ShapeIInv DEF Inv
  <2>3. TypeOK'
    BY <2>2 DEF IInv
  <2>4. NumbersGapFree'
    BY <2>1, ShapeNumbers DEF Inv
  <2>5. StatusFits' /\ RowsFollow'
    BY <2>1, ShapeRows DEF Inv
  <2>6. SourceNumbered' /\ ReturnsWithinSource'
    BY <2>1, <2>3, ShapeReturns DEF Inv
  <2>7. StockExplained'
    BY <2>1, <2>3, ShapeExplained DEF Inv
  <2>. QED
    BY <2>2, <2>4, <2>5, <2>6, <2>7 DEF Inv
<1>. QED
  BY <1>1, <1>2

-----------------------------------------------------------------------------
(* The steps of the abstract specification.                                *)

LEMMA ShelfInit == Init => Shelf!Init
<1> SUFFICES ASSUME Init PROVE Shelf!Init
  OBVIOUS
<1>1. \A d \in Documents : docs[d].status = "ABSENT"
  BY DEF Init, Absent
<1>2. \A d \in Documents : PhaseOf(docs[d].status) = "idle" /\ EffectOf(d) = [p \in Products |-> 0]
  BY <1>1 DEF PhaseOf, EffectOf
<1>. QED
  BY <1>2 DEF Init, Shelf!Init, Shelf!Idle, Shelf!NoEffect

Posting(d) == [phase |-> PhaseOf(docs[d].status), effect |-> EffectOf(d)]

(* A document whose row did not change posts what it posted. *)
LEMMA PostingKept ==
    ASSUME NEW d, docs'[d] = docs[d]
    PROVE  Posting(d)' = Posting(d)
BY DEF Posting, PhaseOf, EffectOf

(* A step that changes no posting and at most one product's stock. *)
LEMMA ShelfAdjusts ==
    ASSUME TypeOK, TypeOK', \A d \in Documents : Posting(d)' = Posting(d),
           NEW p \in Products, \A x \in Products \ {p} : stock'[x] = stock[x]
    PROVE  Shelf!Next
<1>1. stock' = [stock EXCEPT ![p] = stock'[p]]
  BY DEF TypeOK
<1>2. [d \in Documents |-> Posting(d)]' = [d \in Documents |-> Posting(d)]
  OBVIOUS
<1>3. Shelf!Adjust(p)
  BY <1>1, <1>2 DEF Shelf!Adjust, Posting
<1>. QED
  BY <1>3 DEF Shelf!Next

LEMMA ShelfStutters ==
    ASSUME \A d \in Documents : Posting(d)' = Posting(d), stock' = stock
    PROVE  UNCHANGED Shelf!vars
<1>1. [d \in Documents |-> Posting(d)]' = [d \in Documents |-> Posting(d)]
  OBVIOUS
<1>. QED
  BY <1>1 DEF Shelf!vars, Posting

(* What the step of a document does to every product is its effect. *)
LEMMA DocumentEffect ==
    ASSUME TypeOK, NEW d \in Documents, NEW lines \in LineLists, NEW sign \in {-1, 1},
           NEW kind, ChangeStock(StockMoves(d, lines, sign, kind)), NEW p \in Products
    PROVE  stock'[p] = stock[p] + sign * (IF p \in TrackedIn(lines)
                                          THEN Sign(TypeOf[d]) * ProductQuantity(lines, p)
                                          ELSE 0)
<1> DEFINE moves == StockMoves(d, lines, sign, kind)
           q == ProductQuantity(lines, p)
<1>1. stock[p] \in Int
  BY MaxStockIsNatural DEF TypeOK
<1>2. CASE p \in TrackedIn(lines)
  <2>1. p \in Tracked
    BY <1>2 DEF TrackedIn
  <2>2. stock'[p] = stock[p] + sign * Sign(TypeOf[d]) * q
    BY <2>1, DocumentDelta
  <2>3. \A n \in Nat : sign * Sign(TypeOf[d]) * n = sign * (Sign(TypeOf[d]) * n)
    BY SignType
  <2>. QED
    BY <1>2, <2>2, <2>3, QuantityType
<1>3. CASE p \notin TrackedIn(lines)
  <2>1. p \notin DOMAIN moves
    BY <1>3, StockMovesDomain
  <2>2. ChangeStock(moves)
    OBVIOUS
  <2> HIDE DEF moves
  <2>3. stock'[p] = stock[p]
    BY <2>1, <2>2, LogChange
  <2>. QED
    BY <1>1, <1>3, <2>3
<1>. QED
  BY <1>2, <1>3

LEMMA ShelfApplies ==
    ASSUME TypeOK, NEW d \in Documents, NEW data, NEW status, Numbering(d, data, status)
    PROVE  Shelf!Apply(d)
<1> DEFINE q(p) == IF p \in TrackedIn(data.lines)
                   THEN Sign(TypeOf[d]) * ProductQuantity(data.lines, p) ELSE 0
<1>1. /\ docs[d].status \in {"ABSENT", "DRAFT"} /\ data.lines \in LineLists
      /\ status \in {"ISSUED", "ACCEPTED", "CONFIRMED", "FINALIZED"}
  BY DEF Numbering, Data, Statuses
<1>2. docs'[d].status = status /\ docs'[d].data = data
  BY Numbered
<1>3. \A e \in Documents \ {d} : Posting(e)' = Posting(e)
  BY Numbered, PostingKept
<1>4. PhaseOf(docs[d].status) = "idle" /\ PhaseOf(docs[d].status)' = "applied"
  BY <1>1, <1>2 DEF PhaseOf
<1>5. EffectOf(d)' = [p \in Products |-> q(p)]
  BY <1>2, <1>4 DEF EffectOf
<1>6. ASSUME NEW p \in Products PROVE q(p) = stock'[p] - stock[p]
  <2>1. stock'[p] = stock[p] + 1 * q(p)
    BY <1>1, DocumentEffect DEF Numbering
  <2>2. stock[p] \in Int
    BY MaxStockIsNatural DEF TypeOK
  <2>3. q(p) \in Int
    <3>1. p \in TrackedIn(data.lines) => ProductQuantity(data.lines, p) \in Nat
      BY <1>1, QuantityType
    <3>2. \A n \in Nat : Sign(TypeOf[d]) * n \in Int
      BY SignType
    <3>. QED
      BY <3>1, <3>2
  <2> HIDE DEF q
  <2>. QED
    BY <2>1, <2>2, <2>3
<1>7. EffectOf(d)' = [p \in Products |-> stock'[p] - stock[p]]
  BY <1>5, <1>6
<1> HIDE DEF q
<1>8. Posting(d)' = [phase |-> "applied", effect |-> [p \in Products |-> stock'[p] - stock[p]]]
  BY <1>4, <1>7 DEF Posting
<1>9. [e \in Documents |-> Posting(e)]'
        = [[e \in Documents |-> Posting(e)] EXCEPT
              ![d] = [phase |-> "applied", effect |-> [p \in Products |-> stock'[p] - stock[p]]]]
  BY <1>3, <1>8
<1>. QED
  BY <1>4, <1>9 DEF Shelf!Apply, Shelf!Change, Posting

LEMMA ShelfUndoes ==
    ASSUME TypeOK, TypeOK', NEW d \in Documents, Cancelling(d)
    PROVE  Shelf!Undo(d)
<1>1. PICK lines \in LineLists : lines = docs[d].data.lines
  BY RowData DEF Cancelling
<1> DEFINE q(p) == IF p \in TrackedIn(lines)
                   THEN Sign(TypeOf[d]) * ProductQuantity(lines, p) ELSE 0
<1>2. docs'[d].status = "CANCELLED" /\ docs'[d].data = docs[d].data
  BY Cancelled
<1>3. \A e \in Documents \ {d} : Posting(e)' = Posting(e)
  BY Cancelled, PostingKept
<1>4. docs[d].status \in {"ISSUED", "ACCEPTED", "CONFIRMED", "FINALIZED"}
  BY RowData DEF Cancelling, Row, Statuses
<1>5. PhaseOf(docs[d].status) = "applied" /\ PhaseOf(docs[d].status)' = "undone"
  BY <1>2, <1>4 DEF PhaseOf
<1>6. EffectOf(d) = [p \in Products |-> q(p)] /\ EffectOf(d)' = EffectOf(d)
  BY <1>1, <1>2, <1>5 DEF EffectOf
<1>7. ASSUME NEW p \in Products PROVE stock'[p] = stock[p] - EffectOf(d)[p]
  <2>1. stock'[p] = stock[p] + (-1) * q(p)
    BY <1>1, DocumentEffect DEF Cancelling
  <2>2. stock[p] \in Int
    BY MaxStockIsNatural DEF TypeOK
  <2>3. q(p) \in Int
    <3>1. p \in TrackedIn(lines) => ProductQuantity(lines, p) \in Nat
      BY QuantityType
    <3>2. \A n \in Nat : Sign(TypeOf[d]) * n \in Int
      BY SignType
    <3>. QED
      BY <3>1, <3>2
  <2>4. EffectOf(d)[p] = q(p)
    BY <1>6
  <2> HIDE DEF q
  <2>. QED
    BY <2>1, <2>2, <2>3, <2>4
<1>8. stock' = [p \in Products |-> stock[p] - EffectOf(d)[p]]
  BY <1>7 DEF TypeOK
<1> HIDE DEF q
<1>9. Posting(d)' = [Posting(d) EXCEPT !.phase = "undone"]
  <2>1. /\ Posting(d) = [phase |-> "applied", effect |-> EffectOf(d)]
        /\ Posting(d)' = [phase |-> "undone", effect |-> EffectOf(d)]
    BY <1>5, <1>6 DEF Posting
  <2>. QED
    BY <2>1
<1>10. [e \in Documents |-> Posting(e)]'
         = [[e \in Documents |-> Posting(e)] EXCEPT ![d].phase = "undone"]
  BY <1>3, <1>9
<1>. QED
  BY <1>5, <1>8, <1>10 DEF Shelf!Undo, Posting

LEMMA ShelfNext == ASSUME TypeOK, TypeOK', Shape PROVE [Shelf!Next]_(Shelf!vars)
<1>1. ASSUME docs' = docs PROVE \A d \in Documents : Posting(d)' = Posting(d)
  BY <1>1, PostingKept
<1>2. CASE Renaming
  BY <1>1, <1>2, ShelfStutters DEF Renaming
<1>3. ASSUME NEW p \in Products, NEW m \in MoveSet, Owning(p, m) PROVE Shelf!Next
  <2> DEFINE moves == [x \in {p} |-> m]
  <2>1. ChangeStock(moves) /\ docs' = docs /\ DOMAIN moves = {p}
    BY <1>3 DEF Owning
  <2> HIDE DEF moves
  <2>2. \A x \in Products \ {p} : stock'[x] = stock[x]
    BY <2>1, LogChange
  <2>. QED
    BY <1>1, <2>1, <2>2, ShelfAdjusts
<1>4. ASSUME NEW d \in Documents, NEW row \in Row \cup {Absent}, Drafting(d, row)
      PROVE  UNCHANGED Shelf!vars
  <2>1. docs'[d].status \in {"ABSENT", "DRAFT"} /\ docs[d].status \in {"ABSENT", "DRAFT"}
    BY <1>4, Drafted DEF Drafting
  <2>2. Posting(d)' = Posting(d)
    BY <2>1 DEF Posting, PhaseOf, EffectOf
  <2>3. \A e \in Documents \ {d} : Posting(e)' = Posting(e)
    BY <1>4, Drafted, PostingKept
  <2>4. stock' = stock
    BY <1>4 DEF Drafting
  <2>. QED
    BY <2>2, <2>3, <2>4, ShelfStutters
<1>5. ASSUME NEW d \in Documents, NEW data \in Data, NEW status \in Statuses,
             Numbering(d, data, status)
      PROVE  Shelf!Next
  BY <1>5, ShelfApplies DEF Shelf!Next
<1>6. ASSUME NEW d \in Documents, Cancelling(d) PROVE Shelf!Next
  BY <1>6, ShelfUndoes DEF Shelf!Next
<1>. QED
  BY <1>2, <1>3, <1>4, <1>5, <1>6 DEF Shape

-----------------------------------------------------------------------------
(* A product that is inactive.                                             *)

SoldOnlyActive ==
    \A p \in Products :
        product[p] = "INACTIVE" /\ movements'[p] # movements[p] =>
            LET m == movements'[p][Len(movements'[p])] IN
            /\ m.ref # NoDocument
            /\ TypeOf[m.ref] = "INVOICE" => m.kind = "CANCELLED"

(* The last row of a log is the one a change of stock just wrote. *)
LEMMA LastRow ==
    ASSUME TypeOK, TypeOK', NEW moves, ChangeStock(moves), NEW p \in Products,
           movements'[p] # movements[p]
    PROVE  /\ p \in DOMAIN moves
           /\ movements'[p][Len(movements'[p])].ref = moves[p].ref
           /\ movements'[p][Len(movements'[p])].kind = moves[p].kind
<1>1. p \in DOMAIN moves
  BY LogChange
<1>2. movements'[p] \in Seq(EntrySet(MovementKinds, Refs))
  BY DEF TypeOK, Refs
<1>3. Len(movements'[p]) = Len(movements[p]) + 1
  BY <1>1, <1>2, LogChange
<1>. QED
  BY <1>1, <1>3, LogChange

LEMMA ShapeSold == ASSUME TypeOK, TypeOK', Shape PROVE SoldOnlyActive
<1> SUFFICES ASSUME NEW p \in Products, product[p] = "INACTIVE",
                    movements'[p] # movements[p]
             PROVE  LET m == movements'[p][Len(movements'[p])] IN
                    /\ m.ref # NoDocument
                    /\ TypeOf[m.ref] = "INVOICE" => m.kind = "CANCELLED"
  BY DEF SoldOnlyActive
<1> DEFINE m == movements'[p][Len(movements'[p])]
<1>1. ASSUME NEW x \in Products, NEW n \in MoveSet, Owning(x, n) PROVE FALSE
  <2> DEFINE moves == [y \in {x} |-> n]
  <2>1. ChangeStock(moves) /\ product[x] # "INACTIVE" /\ DOMAIN moves = {x}
    BY <1>1 DEF Owning
  <2> HIDE DEF moves
  <2>. QED
    BY <2>1, LastRow
<1>2. ASSUME NEW d \in Documents, NEW data \in Data, NEW status \in Statuses,
             Numbering(d, data, status)
      PROVE  m.ref # NoDocument /\ TypeOf[m.ref] # "INVOICE"
  <2> DEFINE moves == StockMoves(d, data.lines, 1, "FINALIZED")
  <2>1. ChangeStock(moves)
    BY <1>2 DEF Numbering
  <2>2. p \in DOMAIN moves => p \in TrackedIn(data.lines) /\ moves[p].ref = d
    BY StockMovesDomain DEF Move
  <2> HIDE DEF moves
  <2>3. p \in TrackedIn(data.lines) /\ m.ref = d
    BY <2>1, <2>2, LastRow
  <2>4. d # NoDocument
    BY StockAssumption
  <2>5. TypeOf[d] # "INVOICE"
    BY <1>2, <2>3 DEF Numbering
  <2>. QED
    BY <2>3, <2>4, <2>5
<1>3. ASSUME NEW d \in Documents, Cancelling(d)
      PROVE  m.ref # NoDocument /\ m.kind = "CANCELLED"
  <2>1. PICK lines \in LineLists : lines = docs[d].data.lines
    BY <1>3, RowData DEF Cancelling
  <2> DEFINE moves == StockMoves(d, lines, -1, "CANCELLED")
  <2>2. ChangeStock(moves)
    BY <1>3, <2>1 DEF Cancelling
  <2>3. p \in DOMAIN moves => moves[p].ref = d /\ moves[p].kind = "CANCELLED"
    BY StockMovesDomain DEF Move
  <2> HIDE DEF moves
  <2>4. m.ref = d /\ m.kind = "CANCELLED"
    BY <2>2, <2>3, LastRow
  <2>. QED
    BY <2>4, StockAssumption
<1>4. CASE Renaming
  BY <1>4 DEF Renaming
<1>5. ASSUME NEW d \in Documents, NEW row \in Row \cup {Absent}, Drafting(d, row) PROVE FALSE
  BY <1>5 DEF Drafting
<1>. QED
  BY <1>1, <1>2, <1>3, <1>4, <1>5 DEF Shape

-----------------------------------------------------------------------------

(* In every reachable state every table, log, quantity and sequence has its *)
(* type; in particular no stock is negative or larger than its column.      *)
THEOREM StockTypeOK == Spec => []TypeOK
<1>1. Inv => TypeOK
  BY DEF Inv, IInv
<1>. QED
  BY InitInv, NextInv, <1>1, PTL DEF Spec

(* For any products, documents and drafts, however sales, purchases,        *)
(* returns, cancellations and adjustments follow one another: a product's   *)
(* stock is what its movement rows add up to, row by row from zero.         *)
THEOREM StockAlwaysReconciles == Spec => []StockReconciles
<1>1. Inv => StockReconciles
  BY DEF Inv, IInv
<1>. QED
  BY InitInv, NextInv, <1>1, PTL DEF Spec

(* Finalized returns never take back more of a line than it has, for any    *)
(* number of returns, split over any lines and cancelled in between:       *)
(* validateReturnBounds.                                                   *)
THEOREM ReturnsStayWithinSource == Spec => []ReturnsWithinSource
<1>1. Inv => ReturnsWithinSource
  BY DEF Inv
<1>. QED
  BY InitInv, NextInv, <1>1, PTL DEF Spec

(* The movement rows that name a document are the ones its status accounts *)
(* for, and the cancelling row takes back what the finalizing row moved.   *)
THEOREM MovementsAreAccountedFor == Spec => []MovementsFollowStatus
<1>1. Inv => MovementsFollowStatus
  BY RowsCounted DEF Inv, IInv
<1>. QED
  BY InitInv, NextInv, <1>1, PTL DEF Spec

(* A product's stock is the sum of its openings and adjustments, plus what *)
(* the finalized documents brought in, less what they took out.            *)
THEOREM StockIsExplained == Spec => []StockExplained
<1>1. Inv => StockExplained
  BY DEF Inv
<1>. QED
  BY InitInv, NextInv, <1>1, PTL DEF Spec

(* Permanent numbers have no gap and no duplicate, per type and year. *)
THEOREM StockNumbersGapFree == Spec => []NumbersGapFree
<1>1. Inv => NumbersGapFree
  BY DEF Inv
<1>. QED
  BY InitInv, NextInv, <1>1, PTL DEF Spec

(* The stock of an inactive product moves only for bills, returns and      *)
(* cancellations.                                                          *)
THEOREM InactiveProductsAreNotSold == Spec => InactiveNotSold
<1>1. ASSUME Inv, Inv', [Next]_vars PROVE [SoldOnlyActive]_vars
  <2>1. CASE UNCHANGED vars
    BY <2>1
  <2>2. CASE Next
    BY <1>1, <2>2, StepShape, ShapeSold DEF Inv, IInv
  <2>. QED
    BY <1>1, <2>1, <2>2
<1>2. Inv /\ Inv' /\ [Next]_vars => [SoldOnlyActive]_vars
  BY <1>1
<1>3. InactiveNotSold <=> [][SoldOnlyActive]_vars
  BY DEF InactiveNotSold, SoldOnlyActive
<1>. QED
  BY InitInv, NextInv, <1>2, <1>3, PTL DEF Spec

(* Stock implements Postings: every document moves the stock of all its    *)
(* products at once, at most once, and is undone at most once, by exactly  *)
(* the change it made, whatever else happened to the shelf in between.     *)
THEOREM StockImplementsPostings == Spec => ImplementsPostings
<1>1. Inv /\ Inv' /\ [Next]_vars => [Shelf!Next]_(Shelf!vars)
  <2> SUFFICES ASSUME Inv, Inv', [Next]_vars PROVE [Shelf!Next]_(Shelf!vars)
    OBVIOUS
  <2>1. CASE UNCHANGED vars
    BY <2>1 DEF vars, Shelf!vars, PhaseOf, EffectOf
  <2>2. CASE Next
    BY <2>2, StepShape, ShelfNext DEF Inv, IInv
  <2>. QED
    BY <2>1, <2>2
<1>2. ImplementsPostings <=> Shelf!Init /\ [][Shelf!Next]_(Shelf!vars)
  BY DEF ImplementsPostings, Shelf!Spec
<1>. QED
  BY InitInv, NextInv, ShelfInit, <1>1, <1>2, PTL DEF Spec

=============================================================================
