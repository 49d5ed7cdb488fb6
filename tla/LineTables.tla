----------------------------- MODULE LineTables -----------------------------
(***************************************************************************)
(* The lists of lines of the frontend, the rows Lines is about.  Each part *)
(* of a page is the set of gestures it offers on the lines; a list is the  *)
(* way its changes find their line, and the gestures of all its parts.     *)
(***************************************************************************)
EXTENDS TLC

-----------------------------------------------------------------------------
(* A sale: the lines of the ticket have an identity of their own.          *)
OrderItemRow == {"change", "zero", "remove"}
DesktopTicketLine == {"change", "zero"}
ProductTap == {"find"}
DesktopProductTap == {"find", "join"}
DesktopProductRow == DesktopProductTap
OrderItemsList == OrderItemRow
DesktopSaleTicket == DesktopTicketLine
DesktopInlineVariants == {"join"}
VariantView == {"join"}
EmptyCatalog == {"find"}
QuickAddForm == {"find"}
QuickAddSale == QuickAddForm
SalePicker == ProductTap \cup VariantView \cup EmptyCatalog
SaleCatalog ==
  DesktopProductRow \cup DesktopInlineVariants \cup EmptyCatalog
    \cup QuickAddSale

SaleLines ==
  [points |-> "line",
   offers |-> OrderItemsList \cup DesktopSaleTicket \cup SalePicker
                \cup SaleCatalog]

(* The lines that are not of the catalogue: never joined.                  *)
FreeLineView == {"new"}

FreeSaleLines ==
  [points |-> "line", offers |-> FreeLineView \cup OrderItemsList]

-----------------------------------------------------------------------------
(* Goods received, by hand: a field is that of a place.                    *)
EntryQuantity == {"change"}
EntryPrice == {"change"}
EntryRemove == {"remove"}
StockOptions == {"join"}
StockSearch == StockOptions \cup {"find"}
StockEntryLineCard == EntryQuantity \cup EntryPrice \cup EntryRemove
StockEntryLineRow == EntryQuantity \cup EntryPrice \cup EntryRemove
StockEntryLines == StockEntryLineCard \cup StockEntryLineRow

ManualEntryLines == StockSearch \cup StockEntryLines

EntryLines == [points |-> "place", offers |-> ManualEntryLines]

(* Goods that leave or are counted: those the backend refuses are marked.  *)
ExitQuantity == {"change"}
StockExitLineCard == ExitQuantity \cup EntryRemove
StockExitLineRow == ExitQuantity \cup EntryRemove
StockExitLines == StockExitLineCard \cup StockExitLineRow
ExitReason == {"change"}
ExitRefusal == {"ask"}

ExitLines ==
  [points |-> "place",
   offers |-> StockSearch \cup StockExitLines \cup ExitReason
                \cup ExitRefusal]

(* The lines read on an invoice: each gets an article, chosen or made.     *)
InvoiceLinePicker == {"open"}
InvoiceQuickCreate == {"ask"}
QuickCreateSheet == InvoiceQuickCreate
InvoiceLineArticle == InvoiceLinePicker \cup QuickCreateSheet
InvoiceIgnoredLine == {"change"}
InvoiceEntryReview ==
  InvoiceLineArticle \cup InvoiceIgnoredLine \cup StockEntryLines

InvoiceReadLines == [points |-> "place", offers |-> InvoiceEntryReview]

-----------------------------------------------------------------------------
(* The formats of an article, and its photos.                              *)
FormatInput == {"change"}
FormatMenu == {"open", "change", "remove"}
FormatRow == FormatInput \cup FormatMenu
FormatCard == FormatInput \cup FormatMenu
FormatsTable == FormatRow
FormatReferences == {"open"}
FormatsFooter == {"new"}
ProductFormatsSection ==
  FormatsTable \cup FormatCard \cup FormatsFooter \cup FormatReferences
FormatRefusal == {"ask"}

FormatLines ==
  [points |-> "place", offers |-> ProductFormatsSection \cup FormatRefusal]

PhotoGallery == {"new", "change"}
PhotoCrop == {"ask", "remove"}

PhotoLines == [points |-> "line", offers |-> PhotoGallery \cup PhotoCrop]

(* The lines of an invoice.                                                *)
EditorLineFields == {"change", "copy"}
LineMenu == {"copy", "up", "remove"}
EditorLinesCard == {"new", "undo"}

EditorLines ==
  [points |-> "place",
   offers |-> EditorLineFields \cup LineMenu \cup EditorLinesCard]

-----------------------------------------------------------------------------
(* What is owned, owed and due, in a year of zakat: read again when the    *)
(* network is back, with the sheet of a line open or not.                  *)
AssetRow == {"change", "open"}
AssetListCard == AssetRow
AssetTable == {"change", "open"}
AssetShortcuts == {"new"}
AssetForm == {"open", "new"}
AssetSheet == AssetForm \cup {"delete"}

ZakatAssets ==
  [points |-> "place",
   offers |-> AssetListCard \cup AssetTable \cup AssetShortcuts \cup AssetSheet
                \cup {"reread"}]

DebtRow == {"open"}
DebtTable == {"open"}
DebtListCard == {"new"} \cup DebtRow \cup DebtTable
DebtForm == {"open", "new"}
DebtSheet == DebtForm \cup {"delete"}

ZakatDebts ==
  [points |-> "place", offers |-> DebtListCard \cup DebtSheet \cup {"reread"}]

SureSegment == {"change"}
OrderNotice == {"change", "remove"}
ReceivableRow == SureSegment \cup OrderNotice \cup {"open"}
NewOrders == {"new"}
ReceivableSheet == {"delete"}

ZakatReceivables ==
  [points |-> "place",
   offers |-> ReceivableRow \cup NewOrders \cup ReceivableSheet
                \cup {"reread"}]

-----------------------------------------------------------------------------
(* The public page and the members: changed by their identity.             *)
ContactRow == {"change", "remove", "open"}
ContactSheet == {"open", "new"}

ContactLines ==
  [points |-> "line", offers |-> ContactRow \cup ContactSheet \cup {"reread"}]

(* What the public page sells, in its order, each with what is told of it. *)
CatalogItemRow == {"up", "change", "remove"}
AddPickerSheet == {"new"}
CatalogSection == CatalogItemRow \cup AddPickerSheet

CatalogLines ==
  [points |-> "line", offers |-> CatalogSection \cup {"reread"}]

MemberRow == {"open", "remove"}
MemberCreate == {"new"}
MemberEdit == {"open"}
MemberSheet == MemberCreate \cup MemberEdit

MemberLines ==
  [points |-> "line", offers |-> MemberRow \cup MemberSheet \cup {"reread"}]

-----------------------------------------------------------------------------
AllLineTables ==
     "sale" :> SaleLines @@ "free" :> FreeSaleLines
  @@ "entry" :> EntryLines @@ "exit" :> ExitLines
  @@ "read" :> InvoiceReadLines
  @@ "formats" :> FormatLines @@ "photos" :> PhotoLines
  @@ "editor" :> EditorLines
  @@ "assets" :> ZakatAssets @@ "debts" :> ZakatDebts
  @@ "receivables" :> ZakatReceivables
  @@ "contacts" :> ContactLines @@ "catalog" :> CatalogLines
  @@ "members" :> MemberLines

AllMisplacing ==
  {"exit", "read", "formats", "assets", "debts", "receivables"}
=============================================================================
