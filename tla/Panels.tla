------------------------------- MODULE Panels -------------------------------
(***************************************************************************)
(* The pages, cards and menus of the frontend that show what a query has,  *)
(* each with what its code says while it is not there: the rows Reading is *)
(* about.  How they lay it out is left out.                                *)
(***************************************************************************)

(* `isLoading` only, `data ?? []`, and a sentence for the empty list.      *)
Bold ==
  [one |-> FALSE, keeps |-> FALSE, waits |-> "loading", tells |-> "never",
   absent |-> "nothing"]

(* One thing, not found when `!data`.                                      *)
One == [Bold EXCEPT !.one = TRUE]

(* Not even a skeleton before the sentence.                                *)
Assumed == [Bold EXCEPT !.waits = "never"]

(* A search, with the previous results until the next are there.           *)
Searched == [Bold EXCEPT !.waits = "fetching", !.keeps = TRUE]

(* `data &&`: something or a blank place.                                  *)
Quiet == [Bold EXCEPT !.waits = "never", !.absent = "blank"]

(* The same, with what the previous choice had.                            *)
Followed == [Quiet EXCEPT !.keeps = TRUE]

(* `isLoading` then `data &&`.                                             *)
Table == [Bold EXCEPT !.absent = "blank"]

(* The same with a message of failure.                                     *)
Beside == [Table EXCEPT !.tells = "otherwise"]

(* `isError` without data, else a skeleton for what is not there.          *)
Honest == [Bold EXCEPT !.waits = "never", !.tells = "otherwise",
                       !.absent = "waiting"]

(* `isError` before anything else.                                         *)
Retry == [Honest EXCEPT !.tells = "first"]

(* A skeleton, and no failure.                                             *)
Skeleton == [Honest EXCEPT !.tells = "never"]

(* Mutant: the messages that never tell of a failure.                      *)
MessagesAwaited == Skeleton

-----------------------------------------------------------------------------
(* The page of one thing, or of its edition: not there, it is not found.   *)
OrderPage == One
InvoicePage == One
CustomerPage == One
ProductPage == One
CustomerEditPage == One
ProductEditPage == One
ReminderEditPage == One
OrderEditPage == One
InvoiceEditPage == One
ZakatPage == One
ReminderNewPage == One

-----------------------------------------------------------------------------
(* A list, or a choice to make, that is empty unless something is there.   *)
NewZakatPanel == Bold
RemindersPanel == Bold
CustomerActivityPanel == Bold
CustomerOrdersPanel == Bold
AddPickerPanel == Bold
RemindersPage == [Bold EXCEPT !.keeps = TRUE]
InvoicesPage == [Bold EXCEPT !.tells = "otherwise"]
ProductMovementsPanel == [Bold EXCEPT !.tells = "otherwise"]
MembersPanel == [Bold EXCEPT !.tells = "first"]
StockEntryPage == [Bold EXCEPT !.waits = "pending"]
StockExitPage == [Bold EXCEPT !.waits = "pending"]
NotesPanel == Assumed
OrderNotesPanel == Assumed
CustomerNotesPanel == Assumed
CustomerPickerPanel == Assumed
CatalogPickerPanel == Assumed
SearchPanel == Searched
MobileSearch == Searched
DesktopSearch == Searched
SearchModal == Searched
(* The suggestions of addresses in the country chosen above.               *)
AddressPanel == Searched
VariantOptions == [Searched EXCEPT !.keeps = FALSE]
VariantOptionsList == [Searched EXCEPT !.keeps = FALSE]

-----------------------------------------------------------------------------
(* A list or a page with a place for its failure; without network and with *)
(* nothing read, it stays blank, or waits.                                 *)
InvoiceSettingsPage == Beside
PublicPageSettingsPage == Beside
SubscriptionPage == Beside
DashboardPage == Beside
TeamHeaderPanel == Beside
PreparedMessagePanel == [Beside EXCEPT !.waits = "pending"]
MessagesPage == Honest
MessagePreviewPanel == [Honest EXCEPT !.one = TRUE, !.keeps = TRUE]
SalesPanel == [Honest EXCEPT !.one = TRUE, !.keeps = TRUE]
VariantPanel == [Honest EXCEPT !.one = TRUE]

-----------------------------------------------------------------------------
(* With a button that reads again in the place of what failed.             *)
ZakatHomePanel == Retry
ZakatSettingsPanel == Retry
InlineVariantsPanel == Retry

-----------------------------------------------------------------------------
(* A list that says nothing of a failure: its place stays blank.           *)
OrdersPage == Table
CustomersPage == Table
ProductsPage == Table
LevelsPanel == Table
MovementsPanel == Table
MenuPlanPanel == Table

-----------------------------------------------------------------------------
(* A skeleton until something is there.                                    *)
InvoicesCardsPanel == Skeleton
EditorCustomerPanel == [Skeleton EXCEPT !.one = TRUE]
MovementProductPanel == [Skeleton EXCEPT !.one = TRUE]

-----------------------------------------------------------------------------
(* What is offered or counted for a choice: that of the previous choice    *)
(* until its own is there.                                                 *)
LineSuggestionsPanel == Followed
OrdersExportPanel == Followed
OrdersExportCount == Followed
ActivityExportPanel == Followed
ActivityExportCount == Followed
StockExportPanel == Followed

-----------------------------------------------------------------------------
(* What is only shown, counted or offered once it is known: the zakat,     *)
(* then reminders and the team, then lists, orders and messages, then what *)
(* is around every page.                                                   *)
FollowUpsPanel == Quiet
FollowUpPanel == Quiet
HawlKeepPanel == Quiet
StockStepPanel == Quiet
ReminderFormPanel == Quiet
ReminderLinkPanel == Quiet
OrderOptionsPanel == Quiet
AutomaticRemindersPanel == Quiet
ReminderFiltersPanel == Quiet
TeamPlacesPanel == Quiet
StockPage == Quiet
OrdersCardsPanel == Quiet
CustomersCardsPanel == Quiet
ProductsCardsPanel == Quiet
StockCardsPanel == Quiet
OrderTimelinePanel == Quiet
OrderStepperPanel == Quiet
MessageHistoryPanel == Quiet
NoticePanel == Quiet
BillingPanel == Quiet
BottomNavPanel == Quiet
BurgerPanel == Quiet
SidebarPanel == Quiet
SidebarHeaderPanel == Quiet
SidebarPlanPanel == Quiet
SidebarGroupPanel == Quiet
QuickActionsPanel == Quiet

-----------------------------------------------------------------------------
AllPanels ==
  [orderPage |-> OrderPage, invoicePage |-> InvoicePage,
   customerPage |-> CustomerPage, productPage |-> ProductPage,
   customerEditPage |-> CustomerEditPage,
   productEditPage |-> ProductEditPage,
   reminderEditPage |-> ReminderEditPage, orderEditPage |-> OrderEditPage,
   invoiceEditPage |-> InvoiceEditPage, zakatPage |-> ZakatPage,
   reminderNewPage |-> ReminderNewPage, newZakatPanel |-> NewZakatPanel,
   remindersPanel |-> RemindersPanel,
   customerActivityPanel |-> CustomerActivityPanel,
   customerOrdersPanel |-> CustomerOrdersPanel,
   addPickerPanel |-> AddPickerPanel, remindersPage |-> RemindersPage,
   invoicesPage |-> InvoicesPage,
   productMovementsPanel |-> ProductMovementsPanel,
   membersPanel |-> MembersPanel, stockEntryPage |-> StockEntryPage,
   stockExitPage |-> StockExitPage, notesPanel |-> NotesPanel,
   orderNotesPanel |-> OrderNotesPanel,
   customerNotesPanel |-> CustomerNotesPanel,
   customerPickerPanel |-> CustomerPickerPanel,
   catalogPickerPanel |-> CatalogPickerPanel, searchPanel |-> SearchPanel,
   mobileSearch |-> MobileSearch, desktopSearch |-> DesktopSearch,
   searchModal |-> SearchModal, addressPanel |-> AddressPanel,
   variantOptions |-> VariantOptions,
   variantOptionsList |-> VariantOptionsList,
   invoiceSettingsPage |-> InvoiceSettingsPage,
   publicPageSettingsPage |-> PublicPageSettingsPage,
   subscriptionPage |-> SubscriptionPage, dashboardPage |-> DashboardPage,
   teamHeaderPanel |-> TeamHeaderPanel,
   preparedMessagePanel |-> PreparedMessagePanel,
   messagesPage |-> MessagesPage,
   messagePreviewPanel |-> MessagePreviewPanel, salesPanel |-> SalesPanel,
   variantPanel |-> VariantPanel, zakatHomePanel |-> ZakatHomePanel,
   zakatSettingsPanel |-> ZakatSettingsPanel,
   inlineVariantsPanel |-> InlineVariantsPanel, ordersPage |-> OrdersPage,
   customersPage |-> CustomersPage, productsPage |-> ProductsPage,
   levelsPanel |-> LevelsPanel, movementsPanel |-> MovementsPanel,
   menuPlanPanel |-> MenuPlanPanel,
   invoicesCardsPanel |-> InvoicesCardsPanel,
   editorCustomerPanel |-> EditorCustomerPanel,
   movementProductPanel |-> MovementProductPanel,
   lineSuggestionsPanel |-> LineSuggestionsPanel,
   ordersExportPanel |-> OrdersExportPanel,
   ordersExportCount |-> OrdersExportCount,
   activityExportPanel |-> ActivityExportPanel,
   activityExportCount |-> ActivityExportCount,
   stockExportPanel |-> StockExportPanel, followUpsPanel |-> FollowUpsPanel,
   followUpPanel |-> FollowUpPanel, hawlKeepPanel |-> HawlKeepPanel,
   stockStepPanel |-> StockStepPanel,
   reminderFormPanel |-> ReminderFormPanel,
   reminderLinkPanel |-> ReminderLinkPanel,
   orderOptionsPanel |-> OrderOptionsPanel,
   automaticRemindersPanel |-> AutomaticRemindersPanel,
   reminderFiltersPanel |-> ReminderFiltersPanel,
   teamPlacesPanel |-> TeamPlacesPanel, stockPage |-> StockPage,
   ordersCardsPanel |-> OrdersCardsPanel,
   customersCardsPanel |-> CustomersCardsPanel,
   productsCardsPanel |-> ProductsCardsPanel,
   stockCardsPanel |-> StockCardsPanel,
   orderTimelinePanel |-> OrderTimelinePanel,
   orderStepperPanel |-> OrderStepperPanel,
   messageHistoryPanel |-> MessageHistoryPanel, noticePanel |-> NoticePanel,
   billingPanel |-> BillingPanel, bottomNavPanel |-> BottomNavPanel,
   burgerPanel |-> BurgerPanel, sidebarPanel |-> SidebarPanel,
   sidebarHeaderPanel |-> SidebarHeaderPanel,
   sidebarPlanPanel |-> SidebarPlanPanel,
   sidebarGroupPanel |-> SidebarGroupPanel,
   quickActionsPanel |-> QuickActionsPanel]

(* They take whatever is not there for nothing.                             *)
AllPresuming ==
  {"orderPage", "invoicePage", "customerPage", "productPage",
   "customerEditPage", "productEditPage", "reminderEditPage",
   "orderEditPage", "invoiceEditPage", "zakatPage", "reminderNewPage",
   "newZakatPanel", "remindersPanel", "customerActivityPanel",
   "customerOrdersPanel", "addPickerPanel", "remindersPage", "invoicesPage",
   "productMovementsPanel", "membersPanel", "stockEntryPage",
   "stockExitPage", "notesPanel", "orderNotesPanel", "customerNotesPanel",
   "customerPickerPanel", "catalogPickerPanel", "searchPanel",
   "mobileSearch", "desktopSearch", "searchModal", "addressPanel", "variantOptions",
   "variantOptionsList", "lineSuggestionsPanel", "ordersExportPanel",
   "ordersExportCount", "activityExportPanel", "activityExportCount",
   "stockExportPanel"}

(* They have nothing for the failure of their first reading.               *)
AllForever ==
  {"invoicesCardsPanel", "editorCustomerPanel", "movementProductPanel"}
=============================================================================
