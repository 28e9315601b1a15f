------------------------------ MODULE MCPrintPlan ------------------------------
(* Requests for TLC: either the words vary or the quantities do.             *)
EXTENDS PrintPlan

Body(words, quantities, kind, printer) ==
  [wellformed |-> TRUE, epc |-> words.epc, item_code |-> words.item_code,
   item_name |-> words.item_name, warehouse |-> words.warehouse,
   label_kind |-> kind, printer |-> printer,
   print_mode |-> words.print_mode, mode |-> words.mode, unit |-> quantities.unit,
   progress_unit |-> quantities.progress_unit, gross_qty |-> quantities.gross_qty,
   manual_qty_kg |-> quantities.manual_qty_kg, qty |-> quantities.qty,
   tare_enabled |-> quantities.tare_enabled, tare |-> quantities.tare,
   tare_kg |-> quantities.tare_kg, print_count |-> quantities.print_count]

Kinds == {"", "progress", "qolip_cell", "qr_center", "qolip_code"}

Words ==
  [epc : EpcTexts, item_code : NameTexts,
   item_name : NameTexts, warehouse : {"", "name"},
   print_mode : {"", "rfid", "label", "other"}, mode : {"", "rfid", "label"}]
PlainWords ==
  [epc |-> "hex", item_code |-> "name", item_name |-> "name", warehouse |-> "name",
   print_mode |-> "label", mode |-> ""]

\* In grams: below, at and above the minimum, halves of a tenth, and no weight.
Grams == {-200, 0, 90, 100, 149, 150, 249, 250, 1050}
Quantities ==
  [gross_qty : {g * Tick : g \in Grams} \cup {None}, manual_qty_kg : {1000, 2490, None},
   qty : {-2000, 0, 1500, None}, unit : {"", "g"}, progress_unit : {"", "pcs"},
   tare_enabled : BOOLEAN, tare : BOOLEAN,
   tare_kg : {g * Tick : g \in {-50, 0, 40, 50, 149}}, print_count : {3}]
PlainQuantity ==
  [gross_qty |-> 2500, manual_qty_kg |-> None, qty |-> None, unit |-> "kg",
   progress_unit |-> "", tare_enabled |-> FALSE, tare |-> FALSE, tare_kg |-> 0,
   print_count |-> 0]

WordRequests ==
  {Body(w, PlainQuantity, k, p) : w \in Words, k \in Kinds, p \in {"", "zpl", "g500", "other"}}
    \cup {[Body(PlainWords, PlainQuantity, "", "") EXCEPT !.wellformed = FALSE]}
QuantityRequests ==
  {Body(PlainWords, q, k, p) : q \in Quantities, k \in {"", "progress"}, p \in {"zebra", "godex"}}

AllRequests == WordRequests \cup QuantityRequests
===============================================================================
