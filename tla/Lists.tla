-------------------------------- MODULE Lists --------------------------------
(***************************************************************************)
(* The lists of the frontend, each with what its page offers to narrow it: *)
(* the rows Listing is about.  The parameters have the names they have in  *)
(* the URL; `due` and `payment_status`, which exclude each other, are one. *)
(***************************************************************************)
EXTENDS TLC

Turns(params) == [on |-> params, off |-> params]

-----------------------------------------------------------------------------
(* Orders: a link from a customer asks for those of that customer.         *)
OrdersState ==
  [sets |-> {"status", "payment", "period", "ordering"},
   links |-> {"customer"}, opens |-> {}, keeps |-> {}, tabs |-> FALSE]
OrdersSheet ==
  [sections |-> {"status", "payment", "ordering"},
   resets |-> {"status", "payment", "period"}]
OrdersPhone == [chips |-> {"status", "payment", "period", "customer"}]
OrdersToolbar == [menus |-> {"status", "payment"}, pins |-> {"customer"}]
OrdersCards ==
  [cards |-> {Turns({"status"}), Turns({"payment"}), Turns({"period"})}]
OrdersTable == [sorts |-> TRUE]
Orders == OrdersState @@ OrdersSheet @@ OrdersPhone @@ OrdersToolbar
            @@ OrdersCards @@ OrdersTable

(* Customers                                                               *)
CustomersState ==
  [sets |-> {"situation", "period", "ordering"},
   links |-> {}, opens |-> {}, keeps |-> {}, tabs |-> FALSE]
CustomersSheet ==
  [sections |-> {"situation", "ordering"}, resets |-> {"situation", "period"}]
CustomersPhone == [chips |-> {"situation", "period"}]
CustomersToolbar == [menus |-> {"situation"}, pins |-> {}]
CustomersCards == [cards |-> {Turns({"situation"}), Turns({"period"})}]
CustomersTable == [sorts |-> TRUE]
Customers == CustomersState @@ CustomersSheet @@ CustomersPhone
               @@ CustomersToolbar @@ CustomersCards @@ CustomersTable

(* Products, of a shop that sells services as well: the cards that count   *)
(* active products also fix the state.                                     *)
ProductsState ==
  [sets |-> {"state", "type", "stock", "ordering"},
   links |-> {}, opens |-> {}, keeps |-> {}, tabs |-> FALSE]
ProductsSheet ==
  [sections |-> {"type", "stock", "state", "ordering"},
   resets |-> {"state", "type", "stock"}]
ProductsPhone == [chips |-> {"type", "stock", "state"}]
ProductsToolbar == [menus |-> {"type", "stock", "state"}, pins |-> {}]
ProductsCards ==
  [cards |-> {[on |-> {"stock", "state"}, off |-> {"stock"}],
              Turns({"state"})}]
ProductsTable == [sorts |-> TRUE]
Products == ProductsState @@ ProductsSheet @@ ProductsPhone @@ ProductsToolbar
              @@ ProductsCards @@ ProductsTable

(* Invoices: every choice sets all the parameters again.                   *)
InvoicesState ==
  [sets |-> {"status", "payment", "period", "ordering"},
   links |-> {}, opens |-> {}, keeps |-> {}, tabs |-> FALSE]
InvoicesSheet ==
  [sections |-> {"status", "payment", "period", "ordering"},
   resets |-> {"status", "payment", "period"}]
InvoicesPhone == [chips |-> {"status", "payment", "period"}]
InvoicesToolbar == [menus |-> {"status", "payment"}, pins |-> {"period"}]
InvoicesCards == [cards |-> {Turns({"payment"}), Turns({"period"})}]
InvoicesTable == [sorts |-> TRUE]
Invoices == InvoicesState @@ InvoicesSheet @@ InvoicesPhone @@ InvoicesToolbar
              @@ InvoicesCards @@ InvoicesTable

-----------------------------------------------------------------------------
(* The stock: the card of its value sorts.                                 *)
LevelsState ==
  [sets |-> {"state", "ordering"},
   links |-> {}, opens |-> {}, keeps |-> {}, tabs |-> FALSE]
LevelsPhone ==
  [sections |-> {"state", "ordering"}, resets |-> {"state"},
   chips |-> {"state"}]
LevelsToolbar == [menus |-> {"state"}, pins |-> {}]
LevelsCards == [cards |-> {Turns({"state"}), Turns({"ordering"})}]
LevelsTable == [sorts |-> TRUE]
Levels == LevelsState @@ LevelsPhone @@ LevelsToolbar @@ LevelsCards
            @@ LevelsTable

(* The movements are the other tab of the same page: the parameter of the  *)
(* tab is not among those their list keeps.                                *)
MovementsState ==
  [sets |-> {"type", "period", "ordering"},
   links |-> {"product"}, opens |-> {"tab"}, keeps |-> {},
   tabs |-> FALSE, cards |-> {}]
MovementsPhone ==
  [sections |-> {"type", "period", "ordering"}, resets |-> {"type", "period"},
   chips |-> {"product", "type", "period"}]
MovementsToolbar == [menus |-> {"type", "period"}, pins |-> {"product"}]
MovementsTable == [sorts |-> TRUE]
Movements == MovementsState @@ MovementsPhone @@ MovementsToolbar
               @@ MovementsTable

(* Reminders: three tabs, one order, no pages.                             *)
RemindersState ==
  [sets |-> {"for", "category"}, links |-> {}, opens |-> {},
   keeps |-> {"tab"}, tabs |-> TRUE, cards |-> {}, sorts |-> FALSE]
RemindersPhone ==
  [sections |-> {"for", "category"}, resets |-> {"for", "category"},
   chips |-> {"for", "category"}]
RemindersToolbar == [menus |-> {"for", "category"}, pins |-> {}]
Reminders == RemindersState @@ RemindersPhone @@ RemindersToolbar

-----------------------------------------------------------------------------
AllLists ==
  [orders |-> Orders, customers |-> Customers, products |-> Products,
   invoices |-> Invoices, levels |-> Levels, movements |-> Movements,
   reminders |-> Reminders]
=============================================================================
