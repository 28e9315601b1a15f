------------------------------- MODULE PrintPlan -------------------------------
(***************************************************************************)
(* From the JSON of a print request to the label that is printed for it:   *)
(* the request contract, the core planner, the capability check and the    *)
(* command adapter. This is the thread-local part of the print path; its   *)
(* verdict, printer and copies are the inputs of module DriverPrint.       *)
(*                                                                         *)
(* Weights are integers in ticks of a tenth of a gram, so that a value     *)
(* that floating point puts just beside a boundary has a place. A text is  *)
(* a member of a small set of classes; "marks" stands for a text of ^ and  *)
(* ~ only, which the label code turns into blanks.                         *)
(***************************************************************************)
EXTENDS Integers

CONSTANTS
  Requests,   \* the DriverPrintRequests that are sent
  Defaults,   \* the printers RP_SCALE_PRINTER may name
  None        \* Option::None, an absent part of a label

Printers == {"zebra", "godex"}

EpcTexts == {"", "hex", "dashed", "text", "long", "marks"}
NameTexts == {"", "name", "marks"}

\* The fields of a request body, trimmed and in one case; words have no marks. A body that is not
\* wellformed is not JSON or not of this shape.
DriverPrintRequest(r) ==
  /\ {r.wellformed, r.tare_enabled, r.tare} \subseteq BOOLEAN
  /\ r.epc \in EpcTexts
  /\ {r.item_code, r.item_name, r.warehouse} \subseteq NameTexts
  /\ {r.label_kind, r.print_mode, r.mode, r.printer, r.unit, r.progress_unit} \subseteq STRING
  /\ {r.gross_qty, r.manual_qty_kg, r.qty} \subseteq Int \cup {None}
  /\ r.tare_kg \in Int
  /\ r.print_count \in Nat

ASSUME PlanAssumption ==
  /\ Defaults \subseteq Printers
  /\ None \notin Int
  /\ \A r \in Requests : DriverPrintRequest(r)

VARIABLES
  stage,      \* the next step of driver_print_response, or how it ended
  request,    \* the request as sent
  default,    \* MobileHttpState.active_printer
  job,        \* DriverPrintJob, then CorePrintJob
  label,      \* what the PrintCommand puts on the label and into its tag
  response    \* DriverPrintResponse

vars == <<stage, request, default, job, label, response>>

Tick == 10                       \* ticks in a gram
MIN_BATCH_QTY_KG == 100 * Tick

Init ==
  /\ stage = "body"
  /\ request \in Requests
  /\ default \in Defaults
  /\ job = None /\ label = None /\ response = None

-------------------------------------------------------------------------------
(* Normalisation of the words of a request.                                *)

Or(x, y) == IF x = None THEN y ELSE x
NonBlank(x, y) == IF x = "" THEN y ELSE x

normalize_request(word) ==
  CASE word \in {"zebra", "zpl", "rfid"} -> "zebra"
    [] word \in {"godex", "go-dex", "g500"} -> "godex"
    [] OTHER -> None

resolve(word, backend) == Or(normalize_request(word), Or(normalize_request(backend), "zebra"))

\* A word that is not a mode is RFID, as is none.
normalize_mode(word) ==
  IF word \in {"label", "label-only", "label_only", "plain", "plain-label", "plain_label", "simple"}
  THEN "label" ELSE "rfid"

requested_mode(r) == NonBlank(r.print_mode, r.mode)

print_mode(r, printer) ==
  IF requested_mode(r) = "" /\ printer = "godex" THEN "label"
  ELSE normalize_mode(requested_mode(r))

normalize_unit(word) == NonBlank(word, "kg")
normalize_progress_unit(word, unit) ==
  NonBlank(word, IF unit = "kg" THEN "m" ELSE unit)

normalize_print_count(n) == IF n = 0 THEN 1 ELSE n

\* Text on a label: marks become blanks and are trimmed away. Both printers'
\* code has its own copy.
uppercase_clean(text) == IF text = "marks" THEN "" ELSE text
sanitize_zpl_text(text) == IF text = "marks" THEN "" ELSE text

\* A hex EPC may be written with 0x, blanks and dashes; None is an error.
normalize_epc(epc) == IF epc \in {"hex", "dashed"} THEN "hex" ELSE None

Abs(x) == IF x < 0 THEN -x ELSE x

Tenth == 100 * Tick              \* of a kilogram

\* f64::round of q in tenths: to the nearest whole one, halves away from zero.
round(q) ==
  LET tenths == (Abs(q) + Tenth \div 2) \div Tenth
  IN IF q < 0 THEN -tenths ELSE tenths

\* Mutant: tenths are cut off, not rounded.
format_rounded_qty_Cut(q) == q \div Tenth

\* Three copies: of Zebra labels, of GoDEX pack labels, of GoDEX progress labels.
format_rounded_qty(q) == round(q)

round_kg_text(q) == round(q)

round_qty_text(q) == round(q)

-------------------------------------------------------------------------------
(* driver_print_response, up to the activity guard.                        *)

End(how) == stage' = how /\ UNCHANGED <<request, default>>

from_json ==
  /\ stage = "body"
  /\ IF request.wellformed THEN End("request") ELSE End("invalid_json")
  /\ UNCHANGED <<job, label, response>>

\* Mutant: qty is looked at first.
gross_QtyFirst(r) == Or(r.qty, Or(r.gross_qty, r.manual_qty_kg))

gross(r) == Or(r.gross_qty, Or(r.manual_qty_kg, r.qty))

\* PrintSelection::normalized: a tare that is off or not positive is no tare.
tare(r) ==
  IF (r.tare_enabled \/ r.tare \/ r.tare_kg > 0) /\ r.tare_kg > 0 THEN r.tare_kg ELSE 0

DriverPrintJob(r) ==
  LET printer == resolve(r.printer, default)
      unit == normalize_unit(r.unit)
      progress == r.label_kind = "progress"
  IN [epc |-> r.epc, item_code |-> r.item_code,
      item_name |-> NonBlank(r.item_name, r.item_code),
      printer |-> printer, mode |-> print_mode(r, printer),
      label_kind |-> r.label_kind, unit |-> unit,
      gross_qty |-> gross(r), tare_kg |-> tare(r), net_qty |-> None,
      progress_qty |-> IF progress THEN Or(r.qty, gross(r)) ELSE None,
      progress_unit |-> IF progress THEN normalize_progress_unit(r.progress_unit, unit) ELSE "",
      print_count |-> normalize_print_count(r.print_count)]

\* serde_json yields no infinite number, so is_finite() is always true here.
into_job ==
  /\ stage = "request"
  /\ \/ request.epc = "" /\ End("epc_required") /\ UNCHANGED job
     \/ /\ request.epc # ""
        /\ request.item_code = "" \/ request.warehouse = ""
        /\ End("item_code_and_warehouse_required") /\ UNCHANGED job
     \/ /\ "" \notin {request.epc, request.item_code, request.warehouse}
        /\ \/ gross(request) = None /\ End("gross_qty_required") /\ UNCHANGED job
           \/ /\ gross(request) # None
              /\ IF gross(request) <= 0
                 THEN End("invalid_gross_qty") /\ UNCHANGED job
                 ELSE End("job") /\ job' = DriverPrintJob(request)
  /\ UNCHANGED <<label, response>>

\* The difference of two f64 is the exact one or the number just beside it.
net_qty(j) ==
  IF j.tare_kg = 0 THEN {j.gross_qty}
  ELSE {IF d < 0 THEN 0 ELSE d :
          d \in {j.gross_qty - j.tare_kg + e : e \in {-1, 0, 1}}}

\* CorePrintJob::from_selection: the job with its net quantity.
from_selection(j, net) == [j EXCEPT !.net_qty = net]

\* Mutant: only the gross quantity is compared with the minimum.
prepare_print_job_GrossOnly ==
  /\ stage = "job"
  /\ \E net \in net_qty(job) :
       IF job.gross_qty < MIN_BATCH_QTY_KG
       THEN End("gross_qty_too_small") /\ UNCHANGED job
       ELSE End("prepared") /\ job' = from_selection(job, net)
  /\ UNCHANGED <<label, response>>

\* Item code and warehouse are never empty here, and the reading has a weight.
prepare_print_job ==
  /\ stage = "job"
  /\ IF job.gross_qty < MIN_BATCH_QTY_KG
     THEN End("gross_qty_too_small") /\ UNCHANGED job
     ELSE \E net \in net_qty(job) :
            IF net < MIN_BATCH_QTY_KG
            THEN End("net_qty_too_small") /\ UNCHANGED job
            ELSE End("prepared") /\ job' = from_selection(job, net)
  /\ UNCHANGED <<label, response>>

\* PrinterCapabilities: both print labels and barcodes, and ask for an EPC, an
\* item name and a weight.
capabilities_for(printer) ==
  [rfid_epc_write |-> printer = "zebra", qr |-> printer = "godex",
   verify_after_print |-> printer = "zebra"]

supports_mode(printer, mode) == mode = "rfid" => capabilities_for(printer).rfid_epc_write

missing_required_fields(j) ==
  j.epc = "" \/ j.item_name = "" \/ j.net_qty <= 0 \/ j.gross_qty <= 0

\* Mutant: an unsupported mode falls back to a label.
validate_core_print_job_FallsBack ==
  /\ stage = "prepared"
  /\ IF missing_required_fields(job) THEN End("unsupported") ELSE End("plan")
  /\ UNCHANGED <<job, label, response>>

validate_core_print_job ==
  /\ stage = "prepared"
  /\ IF supports_mode(job.printer, job.mode) /\ ~missing_required_fields(job)
     THEN End("plan") ELSE End("unsupported")
  /\ UNCHANGED <<job, label, response>>

-------------------------------------------------------------------------------
(* build_print_command: what the label shows.                              *)

is_qolip_cell_label(j) == j.label_kind \in {"qolip_cell", "qr_center"}
is_qolip_code_label(j) == j.label_kind = "qolip_code"
qolip(j) == is_qolip_cell_label(j) \/ is_qolip_code_label(j)

Label(kind, tag, code, netto, brutto, unit, qty) ==
  [kind |-> kind, tag |-> tag, code |-> code, netto |-> netto, brutto |-> brutto,
   unit |-> unit, qty |-> qty]

\* A QR code under a name, and no weights.
qolip_qr_command(j, code) == Label("qolip", None, code, None, None, None, None)

\* With a tare NETTO and BRUTTO, without one only VAZNI.
format_print_weight_labels(j) ==
  IF j.tare_kg = 0
  THEN [netto |-> format_rounded_qty(j.gross_qty), brutto |-> None]
  ELSE [netto |-> format_rounded_qty(j.net_qty), brutto |-> format_rounded_qty(j.gross_qty)]

ZplLabel(kind, tag, j) ==
  LET weights == format_print_weight_labels(j)
  IN Label(kind, tag, normalize_epc(j.epc), weights.netto, weights.brutto, j.unit, None)

build_rfid_encode_command(j) == ZplLabel("rfid", normalize_epc(j.epc), j)
build_label_only_print_command(j) == ZplLabel("label", None, j)

\* Mutant: the mode of the job is not looked at.
build_zebra_command_LabelOnly(j) ==
  IF qolip(j)
  THEN IF sanitize_zpl_text(j.epc) = "" THEN None
       ELSE qolip_qr_command(j, sanitize_zpl_text(j.epc))
  ELSE IF normalize_epc(j.epc) = None THEN None
  ELSE build_label_only_print_command(j)

\* None is an error. Label kind "progress" is an ordinary label here.
build_zebra_command(j) ==
  IF qolip(j)
  THEN IF sanitize_zpl_text(j.epc) = "" THEN None
       ELSE qolip_qr_command(j, sanitize_zpl_text(j.epc))
  ELSE IF normalize_epc(j.epc) = None THEN None
  ELSE IF j.mode = "rfid" THEN build_rfid_encode_command(j)
  ELSE build_label_only_print_command(j)

product_name(j) == uppercase_clean(NonBlank(j.item_name, j.epc))

normalize_brutto_text(j) == round_kg_text(IF j.tare_kg # 0 THEN j.gross_qty ELSE j.net_qty)

build_pack_label_content(j) ==
  [epc |-> uppercase_clean(j.epc), kg_text |-> round_kg_text(j.net_qty),
   brutto_text |-> normalize_brutto_text(j)]

\* NETTO and BRUTTO are printed in KG, whatever unit the job has.
build_pack_render(c) == Label("pack", None, c.epc, c.kg_text, c.brutto_text, "kg", None)

build_progress_label_content(j) ==
  [epc |-> uppercase_clean(j.epc), kg_text |-> round_qty_text(j.gross_qty),
   qty_text |-> round_qty_text(Or(j.progress_qty, j.net_qty)),
   unit |-> NonBlank(j.progress_unit, j.unit)]

\* KG is the gross weight, METRAJ the quantity in the unit of progress.
build_progress_pack_render(c) ==
  Label("progress", None, c.epc, None, c.kg_text, "kg",
        [number |-> c.qty_text, unit |-> c.unit])

\* A payload that is empty or longer than a QR code can be.
render_qr_graphic_fails(payload) == payload \in {"", "long"}

build_godex_command(j) ==
  IF product_name(j) = "" \/ render_qr_graphic_fails(uppercase_clean(j.epc)) THEN None
  ELSE IF qolip(j) THEN qolip_qr_command(j, uppercase_clean(j.epc))
  ELSE IF j.label_kind = "progress"
  THEN build_progress_pack_render(build_progress_label_content(j))
  ELSE build_pack_render(build_pack_label_content(j))

Command(j) == IF j.printer = "zebra" THEN build_zebra_command(j) ELSE build_godex_command(j)

build_print_command ==
  /\ stage = "plan"
  /\ \/ Command(job) = None /\ End("build_command") /\ UNCHANGED label
     \/ Command(job) # None /\ End("ready") /\ label' = Command(job)
  /\ UNCHANGED <<job, response>>

\* DriverPrintResponse::done, once every copy is out.
done ==
  /\ stage = "ready"
  /\ End("done")
  /\ response' =
       [epc |-> job.epc, printer |-> job.printer, mode |-> job.mode,
        net_qty |-> job.net_qty, gross_qty |-> job.gross_qty, unit |-> job.unit,
        tare |-> job.tare_kg > 0, tare_kg |-> job.tare_kg, print_count |-> job.print_count]
  /\ UNCHANGED <<job, label>>

Next ==
  \/ from_json \/ into_job
  \/ prepare_print_job \/ validate_core_print_job
  \/ build_print_command \/ done

Spec == Init /\ [][Next]_vars

-------------------------------------------------------------------------------
(* Properties.                                                             *)

\* The weights that add up: a label is only made for a net weight of at least
\* 0.1 kg (prepare_print_job), it never shows 0 although it shows tenths only,
\* its brutto is never below its netto, and the two differ by the tare of the
\* request to within the rounding of both and the error of the subtraction.
WeightsAddUp ==
  stage \in {"ready", "done"} /\ label.netto # None =>
    /\ label.netto >= 1
    /\ label.brutto # None =>
         /\ label.brutto >= label.netto
         /\ Abs((label.brutto - label.netto) * Tenth
                 - (IF request.tare_kg > 0 THEN request.tare_kg ELSE 0))
              <= Tenth + 1

IsNearest(tenths, qty) == Abs(tenths * Tenth - qty) <= Tenth \div 2

\* What the client is told is what the label shows, whatever quantity fields the
\* request used: the netto is the response's net quantity, the brutto (or the
\* kilograms of a progress label) its gross quantity, the METRAJ the quantity of
\* the request or else the gross one, all to the nearest tenth, and gross_qty goes
\* before the other fields. The unit of the weights is the response's on a Zebra
\* (print/weight.rs) and KG on a GoDEX, whatever unit the response names
\* (godex/pack.rs, godex/progress_pack.rs).
LabelMatchesResponse ==
  stage = "done" =>
    /\ request.gross_qty # None => response.gross_qty = request.gross_qty
    /\ response.tare <=> request.tare_kg > 0
    /\ label.netto # None => IsNearest(label.netto, response.net_qty)
    /\ label.brutto # None => IsNearest(label.brutto, response.gross_qty)
    /\ label.qty # None =>
         IsNearest(label.qty.number, Or(request.qty, response.gross_qty))
    /\ {label.netto, label.brutto} # {None} =>
         label.unit = IF response.printer = "zebra" THEN response.unit ELSE "kg"

\* Where both printers make a label of a job, it is the same label: the same netto
\* and brutto, where a Zebra without a tare shows one weight and a GoDEX shows it
\* twice; in the same unit when that is kg; with the same code when the EPC is
\* written in hex digits only. In another unit the labels differ, since a GoDEX
\* always prints KG; with dashes too, since a GoDEX keeps them (build_zebra_command,
\* build_godex_command).
SameLabelOnBothPrinters ==
  stage \in {"plan", "ready", "done"} /\ job.label_kind # "progress" =>
    LET z == build_zebra_command(job)
        g == build_godex_command(job)
    IN z # None /\ g # None =>
         /\ z.netto = g.netto
         /\ g.brutto = Or(z.brutto, g.netto)
         /\ job.unit = "kg" => z.unit = g.unit
         /\ job.epc = "hex" /\ ~qolip(job) => z.code = g.code

\* A tag is only written by a printer that can, with the sixteen-bit words of a
\* hex EPC, and only when RFID was asked for or nothing was; and a request that
\* asks for RFID by name and is answered 200 has had its tag written ("rejects
\* unsupported printer modes instead of silently falling back", README.md). The
\* exception is a qolip label, for which print/adapter.rs build_zebra_command does
\* not look at the mode.
RfidMeansTag ==
  /\ stage \in {"ready", "done"} /\ label.tag # None =>
       /\ label.tag = "hex"
       /\ capabilities_for(job.printer).rfid_epc_write
       /\ normalize_mode(requested_mode(request)) = "rfid"
  /\ stage = "done" /\ requested_mode(request) = "rfid" /\ label.kind # "qolip"
     => label.tag # None

\* The mode policy of README.md and docs/printer_driver_contract.md: a request
\* that names a mode other than a label's is never printed on a GoDEX, and one
\* that names none is never refused for the mode (into_job, supports_mode).
ModePolicy ==
  /\ stage = "unsupported" => requested_mode(request) # ""
  /\ /\ stage \in {"ready", "done"}
     /\ requested_mode(request) # "" /\ normalize_mode(requested_mode(request)) = "rfid"
     => job.printer = "zebra"
===============================================================================
