------------------------------ MODULE QueryKeys ------------------------------
(***************************************************************************)
(* What the screens read and what they write, hook by hook (lib/hooks):    *)
(* the key each query is cached under and the facts of the backend it      *)
(* shows; the facts each write changes, and the keys it has read again     *)
(* once it succeeds.                                                       *)
(*                                                                         *)
(* A key is a path, as in lib/query-keys.ts; reading a path again reads    *)
(* everything under it.  "id" is the one order, product, customer... the   *)
(* user is working on; a filter, a page or a search is left out of a key.  *)
(*                                                                         *)
(* QueryCache gives these tables their dynamics.                           *)
(***************************************************************************)
EXTENDS SequencesExt

(* A path covers the keys under it.                                        *)
Under(key, path) == IsPrefix(path, key)

Covered(key, paths) == \E path \in paths : Under(key, path)

View(key, shows) == [key |-> key, shows |-> shows]

(* A write: the facts it changes, and the paths read again if it succeeds. *)
(*   sets     keys given the answer of the write, without a request        *)
(*   later    paths read again only when they are shown next               *)
(*   except   keys left alone                                              *)
(*   anyway   the paths are read again even if the write fails             *)
Write(name, changes, again) ==
  [name |-> name, changes |-> changes, again |-> again,
   sets |-> {}, later |-> {}, except |-> {}, anyway |-> FALSE]

-----------------------------------------------------------------------------
(* Orders *)

OrderViews == {
  View(<<"orders", "list">>, {"order", "payment", "customer"}),
  View(<<"orders", "summary">>, {"order", "payment"}),
  View(<<"orders", "facets">>, {"order", "payment"}),
  View(<<"orders", "customer", "id">>, {"order", "payment"}),
  View(<<"orders", "id">>, {"order", "payment", "customer", "invoice"}),
  View(<<"orders", "id", "activity">>, {"order", "payment", "order note"})}

(* A sale reserves stock, a cancellation gives it back.                    *)
OrderWrites == {
  Write("createOrder", {"order", "payment", "stock"},
        {<<"orders">>, <<"dashboard">>, <<"nav-badges">>, <<"stock">>,
         <<"products">>, <<"customers", "id">>}),
  Write("transitionOrder", {"order", "payment", "stock", "invoice"},
        {<<"orders">>, <<"dashboard">>, <<"nav-badges">>, <<"stock">>,
         <<"products">>, <<"invoices">>, <<"customers", "id">>}),
  Write("updatePayment", {"payment", "invoice"},
        {<<"orders">>, <<"dashboard">>, <<"invoices">>, <<"customers", "id">>})}

(* An edited order is saved in several calls, all of them one write here.  *)
OrderEditWrites == {
  [Write("editOrder", {"order", "payment", "stock"},
         {<<"orders">>, <<"products">>, <<"stock">>, <<"dashboard">>,
          <<"nav-badges">>, <<"customers", "id">>})
     EXCEPT !.anyway = TRUE]}

(* Products and stock *)

ProductViews == {
  View(<<"products", "list">>, {"product", "stock"}),
  View(<<"products", "facets">>, {"product", "stock"}),
  View(<<"products", "summary">>, {"product", "stock"}),
  View(<<"products", "id">>, {"product", "stock", "order"})}

(* A format has an initial stock, which is a movement, when it is created. *)
ProductWrites == {
  Write("createProduct", {"product", "stock"}, {<<"products">>, <<"stock">>}),
  Write("updateProduct", {"product"}, {<<"products">>}),
  Write("deactivateProduct", {"product"}, {<<"products">>}),
  Write("reactivateProduct", {"product"}, {<<"products">>}),
  [Write("deleteProduct", {"product", "stock"}, {<<"nav-badges">>})
     EXCEPT !.later = {<<"products">>, <<"stock">>, <<"dashboard">>}],
  Write("createVariant", {"product", "stock"}, {<<"products">>}),
  Write("updateVariant", {"product"}, {<<"products">>}),
  Write("deleteVariant", {"product", "stock"}, {<<"products">>}),
  Write("setVariantActive", {"product"}, {<<"products">>})}

(* The form of a product saves it with its formats and initial stocks.     *)
ProductFormWrites ==
  {[Write(name, {"product", "stock"}, {<<"products">>})
      EXCEPT !.anyway = TRUE] : name \in {"saveNewProduct", "saveProduct"}}

StockViews == {
  View(<<"stock", "movements">>, {"stock", "product"}),
  View(<<"stock", "levels">>, {"stock", "product"})}

(* A stock write changes levels, movements, products, home and badges.     *)
StockWrites ==
  {Write(name, {"stock"}, {<<"stock">>, <<"products">>, <<"dashboard">>,
                           <<"nav-badges">>}) :
     name \in {"stockEntry", "stockExit", "stockAdjustment"}}

(* Home and the badges of the menu *)

DashboardViews == {
  View(<<"dashboard", "today">>,
       {"order", "payment", "stock", "product", "reminder", "customer"}),
  View(<<"dashboard", "sales">>, {"order"})}

NavBadgeViews == {
  View(<<"nav-badges">>, {"order", "stock", "product", "reminder"})}

SearchViews == {
  View(<<"search">>, {"product", "customer", "order", "payment"})}

(* Customers, notes, messages *)

CustomerViews == {
  View(<<"customers", "list">>, {"customer", "order", "payment"}),
  View(<<"customers", "summary">>, {"customer", "order", "payment"}),
  View(<<"customers", "id">>, {"customer", "order", "payment"})}

CustomerActivityViews == {
  View(<<"customers", "id", part>>,
       {"order", "payment", "order note", "customer note"}) :
    part \in {"activity", "activity-export"}}

CustomerWrites ==
  {Write(name, {"customer"}, {<<"customers">>}) :
     name \in {"createCustomer", "updateCustomer", "deactivateCustomer",
               "reactivateCustomer"}}

NoteViews == {
  View(<<"notes", "order", "id">>, {"order note"}),
  View(<<"notes", "customer", "id">>, {"customer note"})}

(* A note of an order is not one of its customer: each has its screen.     *)
NoteWrites ==
  {Write(name, {"order note"}, {<<"notes", "order", "id">>,
                                <<"orders", "id", "activity">>}) :
     name \in {"createOrderNote", "deleteOrderNote"}}
  \cup
  {Write(name, {"customer note"}, {<<"notes", "customer", "id">>,
                                   <<"customers", "id", "activity">>}) :
     name \in {"createCustomerNote", "deleteCustomerNote"}}

MessageViews == {
  View(<<"prepared-messages", "order", "id">>, {"message"}),
  View(<<"prepared-messages", "customer", "id">>, {"message"})}

MessageWrites ==
  {Write(name, {"message"}, {<<"prepared-messages">>}) :
     name \in {"createMessage", "updateMessage", "deleteMessage"}}

(* Invoices *)

InvoiceViews == {
  View(<<"invoices", "list">>, {"invoice"}),
  View(<<"invoices", "summary">>, {"invoice"}),
  View(<<"invoices", "facets">>, {"invoice"}),
  View(<<"invoices", "id">>, {"invoice"})}

InvoiceWrites ==
  {Write(name, {"invoice"}, {<<"invoices">>, <<"orders", "id">>}) :
     name \in {"issueInvoice", "updateInvoiceStatus"}}

(* The check before issuing is left alone: the page still shows the draft. *)
DraftWrites == {
  [Write("deleteDraft", {"invoice"}, {<<"invoices">>})
     EXCEPT !.except = {<<"invoices", "id">>,
                        <<"invoices", "id", "compliance">>}],
  [Write("saveDraft", {"invoice"}, {<<"invoices", "id", "compliance">>})
     EXCEPT !.sets = {<<"invoices", "id">>}],
  [Write("issueDraft", {"invoice"}, {<<"invoices">>})
     EXCEPT !.sets = {<<"invoices", "id">>},
            !.except = {<<"invoices", "id", "compliance">>}]}

(* Reminders *)

ReminderViews == {
  View(<<"reminders", "list">>, {"reminder"}),
  View(<<"reminders", "summary">>, {"reminder"}),
  View(<<"reminders", "detail", "id">>, {"reminder"}),
  View(<<"reminders", "customer", "id">>, {"reminder"})}

(* Reminders count in the home page and in the badge of the menu.          *)
ReminderWrites ==
  {Write(name, {"reminder"}, {<<"reminders">>, <<"dashboard">>,
                              <<"nav-badges">>}) :
     name \in {"createReminder", "updateReminder", "doneReminder",
               "reopenReminder"}}
  \cup
  {[Write("deleteReminder", {"reminder"},
          {<<"reminders">>, <<"dashboard">>, <<"nav-badges">>})
      EXCEPT !.except = {<<"reminders", "detail", "id">>}]}

(* Zakat *)

ZakatViews == {
  View(<<"zakat", "list">>, {"calculation"}),
  View(<<"zakat", "detail", "id">>, {"calculation", "zakat profile"}),
  View(<<"zakat", "profile">>, {"zakat profile"}),
  View(<<"zakat", "sources">>, {"stock", "order", "payment", "product"})}

ZakatFollowUpViews == {
  View(<<"zakat", "followups">>,
       {"follow-up", "calculation", "order", "payment"}),
  View(<<"zakat", "followups", "id">>, {"follow-up", "order", "payment"})}

ZakatFollowUpWrites == {
  [Write("followUpAction", {"follow-up"}, {<<"zakat", "followups">>})
     EXCEPT !.anyway = TRUE]}

(* The profile follows the choices of the most recent calculation.         *)
ZakatWrites == {
  [Write("createCalculation", {"calculation", "zakat profile"},
         {<<"zakat", "list">>, <<"zakat", "profile">>})
     EXCEPT !.sets = {<<"zakat", "detail", "id">>}],
  [Write("updateCalculation", {"calculation", "zakat profile", "follow-up"},
         {<<"zakat", "list">>, <<"zakat", "profile">>,
          <<"zakat", "followups">>})
     EXCEPT !.sets = {<<"zakat", "detail", "id">>}],
  [Write("deleteCalculation", {"calculation", "zakat profile", "follow-up"},
         {<<"zakat", "list">>, <<"zakat", "profile">>,
          <<"zakat", "followups">>})
     EXCEPT !.except = {<<"zakat", "detail", "id">>}],
  [Write("payCalculation", {"calculation"}, {<<"zakat", "list">>})
     EXCEPT !.sets = {<<"zakat", "detail", "id">>}],
  [Write("updateProfile", {"zakat profile"}, {<<"zakat", "detail">>})
     EXCEPT !.sets = {<<"zakat", "profile">>}]}

(* The shop, its members and its public page *)

ShopViews == {View(<<"shop">>, {"shop", "logo"})}

InvoiceSettingsViews == {
  View(<<"shop", "invoice-settings">>, {"shop", "logo"})}

MemberViews == {View(<<"shop-members">>, {"member"})}

TemplateViews == {View(<<"message-templates">>, {"template"})}

InvoiceSettingsWrites == {
  Write("updateInvoiceSettings", {"shop"}, {<<"shop">>})}

ShopWrites == {
  Write("updateShop", {"shop"}, {<<"shop">>}),
  Write("uploadLogo", {"logo"}, {<<"shop">>, <<"public-page">>}),
  Write("deleteLogo", {"logo"}, {<<"shop">>, <<"public-page">>}),
  Write("onboard", {"shop", "me"}, {<<"me">>, <<"shop">>})}

MemberWrites ==
  {Write(name, {"member"},
         {<<"shop-members">>, <<"subscription", "current">>}) :
     name \in {"createMember", "deleteMember"}}
  \cup {Write("updateMember", {"member"}, {<<"shop-members">>})}

TemplateWrites == {
  [Write("updateTemplates", {"template"}, {<<"message-templates">>})
     EXCEPT !.sets = {<<"message-templates">>}]}

PublicPageViews == {View(<<"public-page">>, {"page", "logo"})}

PublicPageWrites ==
  {Write(name, {"page"}, {<<"public-page">>}) :
     name \in {"createPage", "updatePage", "publishPage", "unpublishPage",
               "uploadCover", "deleteCover"}}
  \cup
  {Write(name, {"logo"}, {<<"public-page">>, <<"shop">>}) :
     name \in {"uploadPageLogo", "deletePageLogo"}}

PublicPageParts ==
  {Write(name, {"page"}, {<<"public-page">>}) :
     name \in {"updateSection", "reorderSections", "addItem", "updateItem",
               "removeItem", "reorderItems", "createContact", "updateContact",
               "deleteContact"}}

(* The account and its subscription *)

MeViews == {View(<<"me">>, {"me"})}

MeWrites == {Write("updateMe", {"me"}, {<<"me">>})}

SubscriptionViews == {View(<<"subscription", "current">>, {"subscription"})}

SubscriptionWrites == {
  Write("downgradeToFree", {"subscription"}, {<<"subscription">>})}

BillingWrites ==
  {Write(name, {"subscription"}, {<<"subscription">>}) :
     name \in {"cancelSubscription", "resumeSubscription",
               "refreshSubscription"}}
  \cup
  {[Write(name, {"subscription"}, {})
      EXCEPT !.sets = {<<"subscription", "current">>}] :
     name \in {"applyPlanChange", "cancelScheduledChange"}}

-----------------------------------------------------------------------------
Views ==
  OrderViews \cup ProductViews \cup StockViews \cup DashboardViews
  \cup NavBadgeViews \cup SearchViews \cup CustomerViews
  \cup CustomerActivityViews \cup NoteViews \cup MessageViews \cup InvoiceViews \cup ReminderViews \cup ZakatViews
  \cup ZakatFollowUpViews \cup ShopViews \cup InvoiceSettingsViews
  \cup MemberViews \cup TemplateViews \cup PublicPageViews \cup MeViews
  \cup SubscriptionViews

Writes ==
  OrderWrites \cup OrderEditWrites \cup ProductWrites \cup ProductFormWrites
  \cup StockWrites \cup CustomerWrites \cup NoteWrites \cup MessageWrites
  \cup InvoiceWrites \cup DraftWrites \cup ReminderWrites
  \cup ZakatFollowUpWrites \cup ZakatWrites \cup ShopWrites
  \cup InvoiceSettingsWrites \cup MemberWrites \cup TemplateWrites
  \cup PublicPageWrites \cup PublicPageParts \cup MeWrites
  \cup SubscriptionWrites \cup BillingWrites
=============================================================================
