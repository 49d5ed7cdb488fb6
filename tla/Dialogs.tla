------------------------------- MODULE Dialogs -------------------------------
(***************************************************************************)
(* The sheets, dialogs and pages of the frontend that send what is put in  *)
(* them, each with the choices its code makes: the rows Submission is      *)
(* about.  What they send, their fields and their wording are left out.    *)
(***************************************************************************)

(* A sheet opened with its content, that closes when its answer is there:  *)
(* the backdrop, Escape and the cross close it at any time.                *)
AnySheet ==
  [locked |-> FALSE, inside |-> TRUE, awaits |-> TRUE, waits |-> FALSE,
   checks |-> FALSE, adds |-> FALSE, again |-> FALSE, silent |-> FALSE,
   ends |-> "closed"]

(* A sheet whose parent keeps what it sends with, or that stays mounted.   *)
OfItsParent == [AnySheet EXCEPT !.inside = FALSE]

(* Callbacks given to `mutate` die with the component.                     *)
Forgetful == [AnySheet EXCEPT !.awaits = FALSE]

(* ConfirmDialog and the crop of a picture are busy until the answer.      *)
Confirm == [OfItsParent EXCEPT !.locked = TRUE]
Crop == [OfItsParent EXCEPT !.locked = TRUE]

(* A page with a form: answered, it goes to another page, and sends again  *)
(* if asked to meanwhile.                                                  *)
Page == [AnySheet EXCEPT !.ends = "left", !.again = TRUE]

(* Pages whose answer only changes what they show.                         *)
Auth == [Forgetful EXCEPT !.ends = "closed"]

-----------------------------------------------------------------------------
(* Orders                                                                  *)
PaymentSheet == [OfItsParent EXCEPT !.adds = TRUE]
InvoiceSheet == OfItsParent
OrderConfirm == Confirm
NewSale == [Page EXCEPT !.adds = TRUE]
QuickAddCustomer == OfItsParent
QuickAddProduct == AnySheet

(* Customers, notes, messages, reminders                                   *)
NewCustomer == Page
EditCustomer == Page
NotesCard == [OfItsParent EXCEPT !.adds = TRUE]
NotesPage == [OfItsParent EXCEPT !.adds = TRUE]
(* Recorded while WhatsApp opens: closed without an answer.                *)
PreparedMessage == [Forgetful EXCEPT !.ends = "at once", !.adds = TRUE]
DeleteMessage == Confirm
FollowupReminder == [Confirm EXCEPT !.adds = TRUE]
ReminderDelays == Forgetful
DeleteReminder == Confirm
ReminderMenu == Confirm
(* A reminder of the customer is looked for before another is created.     *)
SaveReminder == [Page EXCEPT !.checks = TRUE, !.adds = TRUE]
EditReminder == Page

(* Products                                                                *)
NewProduct == Page
(* Its new photos are sent again by a second saving.                       *)
EditProduct == [Page EXCEPT !.adds = TRUE]
ProductFormat == AnySheet
FormatSwitch == Forgetful
ProductConfirm == Confirm
DeleteFormat == Confirm

(* Stock                                                                   *)
StockExit == [Page EXCEPT !.awaits = FALSE, !.adds = TRUE]
ManualEntry == [Page EXCEPT !.awaits = FALSE, !.adds = TRUE]
(* The backend records a scanned invoice once.                             *)
InvoiceEntry == [Page EXCEPT !.awaits = FALSE]
QuickEntry == [Forgetful EXCEPT !.adds = TRUE]
InvoiceArticle == AnySheet

(* Invoices                                                                *)
InvoiceCustomer == AnySheet
InvoiceConfirm == Confirm

(* Zakat: what is asked while it sends is ignored.                         *)
StartZakat == [Page EXCEPT !.awaits = FALSE]
CollectedSheet == [OfItsParent EXCEPT !.awaits = FALSE, !.waits = TRUE]
ZakatPayment == [OfItsParent EXCEPT !.awaits = FALSE, !.waits = TRUE]

(* Team, public page, settings, subscription                               *)
NewMember == AnySheet
EditMember == AnySheet
DeleteMember == OfItsParent
ContactForm == OfItsParent
CatalogPicker == [OfItsParent EXCEPT !.ends = "cleared"]
ShopLogo == [Crop EXCEPT !.waits = TRUE]
PageLogo == [Crop EXCEPT !.waits = TRUE]
PageCover == [Crop EXCEPT !.waits = TRUE]
(* A failure is shown beside the picture, the dialog gone.                 *)
DeletePicture == [Confirm EXCEPT !.silent = TRUE]
ChangePlan == [AnySheet EXCEPT !.locked = TRUE]
CancelPlan == Confirm
(* It stays disabled while the payment page loads.                         *)
Checkout == [AnySheet EXCEPT !.ends = "left"]

(* Accounts                                                                *)
Login == Page
Register == Page
Onboarding == Page
ForgotPassword == [Auth EXCEPT !.adds = TRUE]
ResetPassword == Auth

-----------------------------------------------------------------------------
AllForms ==
  [PaymentSheet |-> PaymentSheet, InvoiceSheet |-> InvoiceSheet,
   OrderConfirm |-> OrderConfirm, NewSale |-> NewSale,
   QuickAddCustomer |-> QuickAddCustomer, QuickAddProduct |-> QuickAddProduct,
   NewCustomer |-> NewCustomer, EditCustomer |-> EditCustomer,
   NotesCard |-> NotesCard, NotesPage |-> NotesPage,
   PreparedMessage |-> PreparedMessage, DeleteMessage |-> DeleteMessage,
   FollowupReminder |-> FollowupReminder, ReminderDelays |-> ReminderDelays,
   DeleteReminder |-> DeleteReminder, ReminderMenu |-> ReminderMenu,
   SaveReminder |-> SaveReminder, EditReminder |-> EditReminder,
   NewProduct |-> NewProduct, EditProduct |-> EditProduct,
   ProductFormat |-> ProductFormat, FormatSwitch |-> FormatSwitch,
   ProductConfirm |-> ProductConfirm, DeleteFormat |-> DeleteFormat,
   StockExit |-> StockExit, ManualEntry |-> ManualEntry,
   InvoiceEntry |-> InvoiceEntry, QuickEntry |-> QuickEntry,
   InvoiceArticle |-> InvoiceArticle, InvoiceCustomer |-> InvoiceCustomer,
   InvoiceConfirm |-> InvoiceConfirm, StartZakat |-> StartZakat,
   CollectedSheet |-> CollectedSheet, ZakatPayment |-> ZakatPayment,
   NewMember |-> NewMember, EditMember |-> EditMember,
   DeleteMember |-> DeleteMember, ContactForm |-> ContactForm,
   CatalogPicker |-> CatalogPicker, ShopLogo |-> ShopLogo,
   PageLogo |-> PageLogo, PageCover |-> PageCover,
   DeletePicture |-> DeletePicture, ChangePlan |-> ChangePlan,
   CancelPlan |-> CancelPlan, Checkout |-> Checkout, Login |-> Login,
   Register |-> Register, Onboarding |-> Onboarding,
   ForgotPassword |-> ForgotPassword, ResetPassword |-> ResetPassword]
=============================================================================
