---------------------------- MODULE PrintPlanProofs ----------------------------
(***************************************************************************)
(* Proofs about PrintPlan, for any set of requests: any words, quantities, *)
(* tares and print counts, and any default printer; and, at the end, about *)
(* EpcGenerator, for words of any size.                                    *)
(***************************************************************************)
EXTENDS PrintPlan, EpcGenerator, WellFoundedInduction, TLAPS

Stages ==
  {"body", "request", "job", "prepared", "plan", "ready", "done",
   "invalid_json", "epc_required", "item_code_and_warehouse_required",
   "gross_qty_required", "invalid_gross_qty", "gross_qty_too_small",
   "net_qty_too_small", "unsupported", "build_command"}

\* The stages behind into_job, behind prepare_print_job and behind
\* validate_core_print_job, ends with an error of the next step included.
Accepted == {"job", "prepared", "plan", "ready", "done", "unsupported", "build_command"}
Prepared == Accepted \ {"job"}
Validated == Prepared \ {"prepared", "unsupported"}

\* The fields of a job that the later steps read.
FieldNames ==
  {"epc", "item_name", "printer", "mode", "label_kind", "unit", "gross_qty", "tare_kg",
   "net_qty", "progress_qty"}

\* What into_job makes sure of: where each field of the job comes from.
JobFields ==
  /\ FieldNames \subseteq DOMAIN job
  /\ job.epc = request.epc /\ job.epc # ""
  /\ job.item_name # ""
  /\ job.printer \in Printers
  /\ job.mode = print_mode(request, job.printer)
  /\ job.label_kind = request.label_kind
  /\ job.gross_qty = gross(request) /\ job.gross_qty \in Int
  /\ job.tare_kg = tare(request)
  /\ job.label_kind = "progress" => job.progress_qty = Or(request.qty, job.gross_qty)

\* What prepare_print_job makes sure of: both weights are at least the minimum,
\* and the net weight is the difference, to within a tick.
Weighed ==
  /\ job.gross_qty >= MIN_BATCH_QTY_KG
  /\ job.net_qty \in Int /\ job.net_qty >= MIN_BATCH_QTY_KG
  /\ tare(request) = 0 => job.net_qty = job.gross_qty
  /\ tare(request) # 0 =>
       \E e \in {-1, 0, 1} : job.net_qty = job.gross_qty - tare(request) + e

PlanInv ==
  /\ stage \in Stages
  /\ request \in Requests
  /\ stage \in Accepted => JobFields
  /\ stage \in Prepared => Weighed
  /\ stage \in Validated => supports_mode(job.printer, job.mode)
  /\ stage = "unsupported" => ~supports_mode(job.printer, job.mode)
  /\ stage \in {"ready", "done"} => label = Command(job) /\ label # None
  /\ stage = "done" =>
       /\ response.net_qty = job.net_qty
       /\ response.gross_qty = job.gross_qty
       /\ response.tare <=> job.tare_kg > 0
       /\ response.printer = job.printer /\ response.unit = job.unit

-------------------------------------------------------------------------------
(* Operators.                                                              *)

\* Rounding to tenths is off by at most half a tenth, below zero too.
LEMMA Rounding ==
  ASSUME NEW q \in Int
  PROVE  /\ round(q) \in Int
         /\ round(q) * 1000 - q <= 500
         /\ q - round(q) * 1000 <= 500
<1> DEFINE t == (Abs(q) + 500) \div 1000
<1>1. round(q) = IF q < 0 THEN -t ELSE t
  BY DEF round, Tenth, Tick
<1>2. Abs(q) \in Int /\ Abs(q) = IF q < 0 THEN -q ELSE q
  BY DEF Abs
<1>3. t \in Int /\ t * 1000 <= Abs(q) + 500 /\ Abs(q) + 500 < t * 1000 + 1000
  BY <1>2
<1> HIDE DEF t
<1>4. QED
  BY <1>1, <1>2, <1>3

\* A heavier load is never shown as a lighter one.
LEMMA RoundingMonotone ==
  ASSUME NEW p \in Int, NEW q \in Int, 0 <= p, p <= q
  PROVE  round(p) <= round(q)
<1> DEFINE s == (p + 500) \div 1000
           t == (q + 500) \div 1000
<1>1. round(p) = s /\ round(q) = t
  BY DEF round, Abs, Tenth, Tick
<1>2. s \in Int /\ s * 1000 <= p + 500
  OBVIOUS
<1>3. t \in Int /\ q + 500 < t * 1000 + 1000
  OBVIOUS
<1> HIDE DEF s, t
<1>4. QED
  BY <1>1, <1>2, <1>3

\* Nothing that may be printed is shown as nothing.
LEMMA RoundingPositive ==
  ASSUME NEW q \in Int, q >= MIN_BATCH_QTY_KG
  PROVE  round(q) >= 1
<1>1. q >= 0 /\ q >= 1000
  BY DEF MIN_BATCH_QTY_KG, Tick
<1>2. QED
  BY <1>1, Rounding

\* Whatever words a request has, the printer is one of the two.
LEMMA ResolvesToPrinter ==
  ASSUME NEW word, NEW backend
  PROVE  resolve(word, backend) \in Printers
<1>1. \A w : normalize_request(w) = None \/ normalize_request(w) \in Printers
  BY DEF normalize_request, Printers
<1>2. QED
  BY <1>1 DEF resolve, Or, Printers

\* The tare of a job is the request's when that is positive, and 0 otherwise.
LEMMA TareOfRequest ==
  ASSUME NEW r \in Requests
  PROVE  /\ r.tare_kg \in Int
         /\ tare(r) = IF r.tare_kg > 0 THEN r.tare_kg ELSE 0
BY PlanAssumption DEF DriverPrintRequest, tare

\* A quantity that is present is a number.
LEMMA GrossOfRequest ==
  ASSUME NEW r \in Requests, gross(r) # None
  PROVE  gross(r) \in Int
BY PlanAssumption DEF DriverPrintRequest, gross, Or

-------------------------------------------------------------------------------
(* The invariant is inductive: one lemma per step of driver_print_response. *)

\* A step that ends with an error of its own, or goes on, without a job.
LEMMA FromJsonStep ==
  ASSUME PlanInv, from_json
  PROVE  PlanInv'
<1>1. stage' \in {"request", "invalid_json"} /\ UNCHANGED request
  BY DEF from_json, End
<1>2. QED
  BY <1>1 DEF PlanInv, Stages, Accepted, Prepared, Validated

\* Every field of a job is the one JobFields names.
LEMMA JobOfRequest ==
  ASSUME NEW r \in Requests, gross(r) # None, "" \notin {r.epc, r.item_code, r.warehouse}
  PROVE  LET j == DriverPrintJob(r)
         IN /\ FieldNames \subseteq DOMAIN j
            /\ j.epc = r.epc /\ j.epc # ""
            /\ j.item_name # ""
            /\ j.printer \in Printers
            /\ j.mode = print_mode(r, j.printer)
            /\ j.label_kind = r.label_kind
            /\ j.gross_qty = gross(r) /\ j.gross_qty \in Int
            /\ j.tare_kg = tare(r)
            /\ j.label_kind = "progress" => j.progress_qty = Or(r.qty, j.gross_qty)
<1> DEFINE j == DriverPrintJob(r)
<1>1. /\ j.epc = r.epc /\ j.label_kind = r.label_kind
      /\ j.item_name = NonBlank(r.item_name, r.item_code)
      /\ j.printer = resolve(r.printer, default)
      /\ j.mode = print_mode(r, resolve(r.printer, default))
      /\ j.gross_qty = gross(r) /\ j.tare_kg = tare(r)
      /\ j.progress_qty = IF r.label_kind = "progress" THEN Or(r.qty, gross(r)) ELSE None
  BY Zenon DEF DriverPrintJob
<1>2. NonBlank(r.item_name, r.item_code) # ""
  BY DEF NonBlank
<1>3. FieldNames \subseteq DOMAIN j
  BY DEF DriverPrintJob, FieldNames
<1>4. QED
  BY <1>1, <1>2, <1>3, ResolvesToPrinter, GrossOfRequest

LEMMA IntoJobStep ==
  ASSUME PlanInv, into_job
  PROVE  PlanInv'
<1>1. request \in Requests /\ UNCHANGED request
  BY DEF PlanInv, into_job, End
<1>2. CASE stage' = "job"
  <2>1. /\ "" \notin {request.epc, request.item_code, request.warehouse}
        /\ gross(request) # None
        /\ job' = DriverPrintJob(request)
    BY <1>2 DEF into_job, End
  <2>2. JobFields'
    BY <1>1, <2>1, JobOfRequest DEF JobFields, print_mode, requested_mode, gross, tare
  <2>3. QED
    BY <1>1, <1>2, <2>2 DEF PlanInv, Stages, Accepted, Prepared, Validated
<1>3. CASE stage' # "job"
  <2>1. stage' \in {"epc_required", "item_code_and_warehouse_required",
                    "gross_qty_required", "invalid_gross_qty"}
    BY <1>3 DEF into_job, End
  <2>2. QED
    BY <1>1, <2>1 DEF PlanInv, Stages, Accepted, Prepared, Validated
<1>4. QED
  BY <1>2, <1>3

LEMMA NetIsInt ==
  ASSUME PlanInv, stage = "job", NEW net \in net_qty(job)
  PROVE  net \in Int
<1>0. /\ request \in Requests
      /\ job.gross_qty \in Int /\ job.tare_kg = tare(request)
  BY DEF PlanInv, Accepted, JobFields
<1>1. job.gross_qty \in Int /\ job.tare_kg \in Int
  BY <1>0, TareOfRequest
<1>2. CASE job.tare_kg = 0
  BY <1>1, <1>2 DEF net_qty
<1>3. CASE job.tare_kg # 0
  BY <1>1, <1>3 DEF net_qty
<1>4. QED
  BY <1>2, <1>3

\* The net quantities that pass the minimum.
LEMMA NetOfJob ==
  ASSUME PlanInv, stage = "job", NEW net \in net_qty(job), net >= MIN_BATCH_QTY_KG
  PROVE  /\ net \in Int
         /\ tare(request) = 0 => net = job.gross_qty
         /\ tare(request) # 0 =>
              \E e \in {-1, 0, 1} : net = job.gross_qty - tare(request) + e
<1>1. /\ job.gross_qty \in Int /\ job.tare_kg = tare(request)
      /\ request \in Requests
  BY DEF PlanInv, Accepted, JobFields
<1>2. tare(request) \in Int
  BY <1>1, TareOfRequest
<1>3. CASE tare(request) = 0
  BY <1>1, <1>3 DEF net_qty
<1>4. CASE tare(request) # 0
  <2>1. PICK e \in {-1, 0, 1} :
          LET d == job.gross_qty - tare(request) + e
          IN net = IF d < 0 THEN 0 ELSE d
    BY <1>1, <1>4 DEF net_qty
  <2>2. job.gross_qty - tare(request) + e \in Int
    BY <1>1, <1>2
  <2>3. net = job.gross_qty - tare(request) + e
    BY <2>1, <2>2 DEF MIN_BATCH_QTY_KG, Tick
  <2>4. QED
    BY <1>4, <2>2, <2>3
<1>5. QED
  BY <1>3, <1>4

LEMMA PrepareStep ==
  ASSUME PlanInv, prepare_print_job
  PROVE  PlanInv'
<1>1. /\ request \in Requests /\ UNCHANGED request /\ stage = "job"
      /\ JobFields
  BY DEF PlanInv, prepare_print_job, End, Accepted
<1>2. CASE stage' = "prepared"
  <2>1. ~(job.gross_qty < MIN_BATCH_QTY_KG)
    BY <1>2 DEF prepare_print_job, End
  <2>2. PICK net \in net_qty(job) :
          ~(net < MIN_BATCH_QTY_KG) /\ job' = from_selection(job, net)
    BY <1>2 DEF prepare_print_job, End
  <2>3. /\ job.gross_qty >= MIN_BATCH_QTY_KG
        /\ net >= MIN_BATCH_QTY_KG
    <3>1. net \in Int
      BY <1>1, NetIsInt
    <3>2. job.gross_qty \in Int
      BY <1>1 DEF JobFields
    <3>3. MIN_BATCH_QTY_KG \in Int
      BY DEF MIN_BATCH_QTY_KG, Tick
    <3>4. QED
      BY <2>1, <2>2, <3>1, <3>2, <3>3
  <2>4. /\ job' = [job EXCEPT !.net_qty = net]
        /\ FieldNames \subseteq DOMAIN job
    BY <1>1, <2>2 DEF from_selection, JobFields
  <2>5. /\ DOMAIN job' = DOMAIN job
        /\ job'.net_qty = net
        /\ job'.epc = job.epc /\ job'.item_name = job.item_name
        /\ job'.printer = job.printer /\ job'.mode = job.mode
        /\ job'.label_kind = job.label_kind
        /\ job'.gross_qty = job.gross_qty /\ job'.tare_kg = job.tare_kg
        /\ job'.progress_qty = job.progress_qty
    BY <2>4 DEF FieldNames
  <2>6. JobFields'
    BY <1>1, <2>5 DEF JobFields, print_mode, requested_mode, gross, tare
  <2>7. Weighed'
    <3>1. /\ net \in Int
          /\ tare(request) = 0 => net = job.gross_qty
          /\ tare(request) # 0 =>
               \E e \in {-1, 0, 1} : net = job.gross_qty - tare(request) + e
      BY <1>1, <2>2, <2>3, NetOfJob
    <3>2. tare(request)' = tare(request)
      BY <1>1 DEF tare
    <3>3. QED
      BY <2>3, <2>5, <3>1, <3>2 DEF Weighed, MIN_BATCH_QTY_KG, Tick
  <2>8. QED
    BY <1>1, <1>2, <2>6, <2>7 DEF PlanInv, Stages, Accepted, Prepared, Validated
<1>3. CASE stage' # "prepared"
  <2>1. stage' \in {"gross_qty_too_small", "net_qty_too_small"}
    BY <1>3 DEF prepare_print_job, End
  <2>2. QED
    BY <1>1, <2>1 DEF PlanInv, Stages, Accepted, Prepared, Validated
<1>4. QED
  BY <1>2, <1>3

\* The minimum in ticks.
LEMMA AtLeastMinimum ==
  ASSUME JobFields, Weighed
  PROVE  /\ job.gross_qty \in Int /\ job.net_qty \in Int
         /\ job.gross_qty >= 1000 /\ job.net_qty >= 1000
<1>1. MIN_BATCH_QTY_KG = 1000
  BY DEF MIN_BATCH_QTY_KG, Tick
<1>2. /\ job.gross_qty \in Int /\ job.net_qty \in Int
      /\ job.gross_qty >= MIN_BATCH_QTY_KG /\ job.net_qty >= MIN_BATCH_QTY_KG
  BY Zenon DEF JobFields, Weighed
<1>3. QED
  BY <1>1, <1>2

\* A job that into_job and prepare_print_job let through lacks no field: only
\* its mode can be refused.
LEMMA NothingIsMissing ==
  ASSUME JobFields, Weighed
  PROVE  ~missing_required_fields(job)
<1>1. /\ job.gross_qty \in Int /\ job.net_qty \in Int
      /\ job.gross_qty >= 1000 /\ job.net_qty >= 1000
  BY AtLeastMinimum
<1>2. ~(job.net_qty <= 0) /\ ~(job.gross_qty <= 0)
  BY <1>1
<1>3. job.epc # "" /\ job.item_name # ""
  BY DEF JobFields
<1>4. QED
  BY <1>2, <1>3 DEF missing_required_fields

LEMMA JobFrame ==
  ASSUME UNCHANGED <<request, job>>
  PROVE  /\ JobFields <=> JobFields'
         /\ Weighed <=> Weighed'
BY DEF JobFields, Weighed, print_mode, requested_mode, gross, tare

LEMMA ValidateStep ==
  ASSUME PlanInv, validate_core_print_job
  PROVE  PlanInv'
<1>1. /\ request \in Requests /\ UNCHANGED <<request, job>>
      /\ JobFields /\ Weighed
      /\ stage' = IF supports_mode(job.printer, job.mode) /\ ~missing_required_fields(job)
                  THEN "plan" ELSE "unsupported"
  BY DEF PlanInv, validate_core_print_job, End, Accepted, Prepared
<1>2. JobFields' /\ Weighed' /\ ~missing_required_fields(job)
  BY <1>1, JobFrame, NothingIsMissing
<1>3. CASE supports_mode(job.printer, job.mode)
  <2>1. stage' = "plan" /\ supports_mode(job.printer, job.mode)'
    BY <1>1, <1>2, <1>3
  <2>2. QED
    BY <1>1, <1>2, <2>1 DEF PlanInv, Stages, Accepted, Prepared, Validated
<1>4. CASE ~supports_mode(job.printer, job.mode)
  <2>1. stage' = "unsupported" /\ ~supports_mode(job.printer, job.mode)'
    BY <1>1, <1>2, <1>4
  <2>2. QED
    BY <1>1, <1>2, <2>1 DEF PlanInv, Stages, Accepted, Prepared, Validated
<1>5. QED
  BY <1>3, <1>4

LEMMA BuildStep ==
  ASSUME PlanInv, build_print_command
  PROVE  PlanInv'
<1>1. /\ request \in Requests /\ UNCHANGED <<request, job>>
      /\ JobFields /\ Weighed /\ supports_mode(job.printer, job.mode)
  BY DEF PlanInv, build_print_command, End, Accepted, Prepared, Validated
<1>2. JobFields' /\ Weighed' /\ supports_mode(job.printer, job.mode)'
  BY <1>1, JobFrame
<1>3. \/ stage' = "build_command"
      \/ stage' = "ready" /\ label' = Command(job)' /\ label' # None
  BY <1>1 DEF build_print_command, End
<1>4. QED
  BY <1>1, <1>2, <1>3 DEF PlanInv, Stages, Accepted, Prepared, Validated

LEMMA DoneStep ==
  ASSUME PlanInv, done
  PROVE  PlanInv'
<1>1. /\ request \in Requests /\ UNCHANGED <<request, job, label>>
      /\ stage' = "done"
      /\ JobFields /\ Weighed /\ supports_mode(job.printer, job.mode)
      /\ label = Command(job) /\ label # None
  BY DEF PlanInv, done, End, Accepted, Prepared, Validated
<1>2. /\ JobFields' /\ Weighed' /\ supports_mode(job.printer, job.mode)'
      /\ label' = Command(job)' /\ label' # None
  BY <1>1, JobFrame
<1>3. /\ response'.net_qty = job'.net_qty
      /\ response'.gross_qty = job'.gross_qty
      /\ response'.tare <=> job'.tare_kg > 0
      /\ response'.printer = job'.printer /\ response'.unit = job'.unit
  BY <1>1 DEF done
<1>4. QED
  BY <1>1, <1>2, <1>3 DEF PlanInv, Stages, Accepted, Prepared, Validated

\* What the steps of driver_print_response know of the job, the label and the
\* response at each stage.
THEOREM PlanCorrect == Spec => []PlanInv
<1>1. Init => PlanInv
  BY DEF Init, PlanInv, Stages, Accepted, Prepared, Validated
<1>2. PlanInv /\ [Next]_vars => PlanInv'
  <2> SUFFICES ASSUME PlanInv, [Next]_vars PROVE PlanInv'
    OBVIOUS
  <2>1. CASE from_json BY <2>1, FromJsonStep
  <2>2. CASE into_job BY <2>2, IntoJobStep
  <2>3. CASE prepare_print_job BY <2>3, PrepareStep
  <2>4. CASE validate_core_print_job BY <2>4, ValidateStep
  <2>5. CASE build_print_command BY <2>5, BuildStep
  <2>6. CASE done BY <2>6, DoneStep
  <2>7. CASE UNCHANGED vars
    <3>1. UNCHANGED <<stage, request, job, label, response>>
      BY <2>7 DEF vars
    <3>2. /\ JobFields' <=> JobFields
          /\ Weighed' <=> Weighed
      BY <3>1, JobFrame
    <3>3. /\ Command(job)' = Command(job)
          /\ supports_mode(job.printer, job.mode)' <=> supports_mode(job.printer, job.mode)
      BY <3>1
    <3>4. QED
      BY <3>1, <3>2, <3>3 DEF PlanInv
  <2>8. QED
    BY <2>1, <2>2, <2>3, <2>4, <2>5, <2>6, <2>7 DEF Next
<1>3. QED
  BY <1>1, <1>2, PTL DEF Spec

-------------------------------------------------------------------------------
(* What the invariant says about modes and tags.                           *)

\* Only a GoDEX lacks a mode, and only RFID.
LEMMA ModeSupport ==
  ASSUME NEW printer \in Printers, NEW mode
  PROVE  supports_mode(printer, mode) <=> (mode = "rfid" => printer = "zebra")
BY DEF supports_mode, capabilities_for, Printers

\* ModePolicy for every request: a request that names a mode other than a
\* label's is never printed on a GoDEX, and one that names none is never refused
\* for the mode (into_job, supports_mode).
THEOREM ModesCorrect == Spec => []ModePolicy
<1>1. PlanInv => ModePolicy
  <2> SUFFICES ASSUME PlanInv PROVE ModePolicy
    OBVIOUS
  <2>1. ASSUME stage = "unsupported" PROVE requested_mode(request) # ""
    <3>1. /\ job.printer \in Printers
          /\ job.mode = print_mode(request, job.printer)
          /\ ~supports_mode(job.printer, job.mode)
      BY <2>1 DEF PlanInv, Accepted, JobFields
    <3>2. job.mode = "rfid" /\ job.printer = "godex"
      BY <3>1, ModeSupport DEF Printers
    <3>3. QED
      BY <3>1, <3>2 DEF print_mode
  <2>2. ASSUME stage \in {"ready", "done"}, requested_mode(request) # "",
               normalize_mode(requested_mode(request)) = "rfid"
        PROVE  job.printer = "zebra"
    <3>1. /\ job.printer \in Printers
          /\ job.mode = print_mode(request, job.printer)
          /\ supports_mode(job.printer, job.mode)
      BY <2>2 DEF PlanInv, Accepted, Prepared, Validated, JobFields
    <3>2. job.mode = "rfid"
      BY <2>2, <3>1 DEF print_mode
    <3>3. QED
      BY <3>1, <3>2, ModeSupport
  <2>3. QED
    BY <2>1, <2>2 DEF ModePolicy
<1>2. QED
  BY <1>1, PlanCorrect, PTL

\* A Zebra's label that is not a qolip label follows the mode of the job.
LEMMA ZebraLabel ==
  ASSUME NEW j, build_zebra_command(j) # None
  PROVE  LET z == build_zebra_command(j)
             w == format_print_weight_labels(j)
         IN /\ z.qty = None
            /\ \/ /\ z.kind = "qolip" /\ z.tag = None /\ qolip(j)
                  /\ z.netto = None /\ z.brutto = None /\ z.unit = None
               \/ /\ ~qolip(j) /\ z.kind # "qolip"
                  /\ z.netto = w.netto /\ z.brutto = w.brutto
                  /\ z.unit = j.unit /\ z.code = "hex"
                  /\ \/ j.mode = "rfid" /\ z.tag = "hex" /\ z.tag # None
                     \/ j.mode # "rfid" /\ z.tag = None
<1> DEFINE z == build_zebra_command(j)
<1>1. CASE qolip(j)
  <2>1. z = qolip_qr_command(j, sanitize_zpl_text(j.epc))
    BY <1>1 DEF build_zebra_command
  <2>2. QED
    BY <1>1, <2>1 DEF qolip_qr_command, Label
<1>2. CASE ~qolip(j)
  <2>1. normalize_epc(j.epc) # None
    BY <1>2 DEF build_zebra_command
  <2>2. normalize_epc(j.epc) = "hex"
    BY <2>1 DEF normalize_epc
  <2>3. CASE j.mode = "rfid"
    <3>1. z = build_rfid_encode_command(j)
      BY <1>2, <2>1, <2>3 DEF build_zebra_command
    <3>2. QED
      BY <1>2, <2>1, <2>2, <2>3, <3>1 DEF build_rfid_encode_command, ZplLabel, Label
  <2>4. CASE j.mode # "rfid"
    <3>1. z = build_label_only_print_command(j)
      BY <1>2, <2>1, <2>4 DEF build_zebra_command
    <3>2. QED
      BY <1>2, <2>2, <2>4, <3>1 DEF build_label_only_print_command, ZplLabel, Label
  <2>5. QED
    BY <2>3, <2>4
<1>3. QED
  BY <1>1, <1>2

\* A GoDEX writes no tag; its labels show both weights, the kilograms of a
\* progress label, or none.
LEMMA GodexLabel ==
  ASSUME NEW j, build_godex_command(j) # None
  PROVE  LET g == build_godex_command(j)
         IN /\ g.tag = None
            /\ \/ /\ g.netto = None /\ g.brutto = None /\ g.unit = None /\ g.qty = None
                  /\ qolip(j)
               \/ /\ g.netto = None /\ g.brutto = round(j.gross_qty) /\ g.unit = "kg"
                  /\ g.qty.number = round(Or(j.progress_qty, j.net_qty))
                  /\ j.label_kind = "progress" /\ ~qolip(j)
               \/ /\ g.netto = round(j.net_qty) /\ g.unit = "kg" /\ g.qty = None
                  /\ g.brutto = normalize_brutto_text(j)
                  /\ g.code = uppercase_clean(j.epc)
                  /\ j.label_kind # "progress" /\ ~qolip(j)
<1> DEFINE g == build_godex_command(j)
<1>1. CASE qolip(j)
  <2>1. g = qolip_qr_command(j, uppercase_clean(j.epc))
    BY <1>1 DEF build_godex_command
  <2>2. QED
    BY <1>1, <2>1 DEF qolip_qr_command, Label
<1>2. CASE ~qolip(j) /\ j.label_kind = "progress"
  <2>1. g = build_progress_pack_render(build_progress_label_content(j))
    BY <1>2 DEF build_godex_command
  <2>2. QED
    BY <1>2, <2>1
      DEF build_progress_pack_render, build_progress_label_content, round_qty_text, Label
<1>3. CASE ~qolip(j) /\ j.label_kind # "progress"
  <2>1. g = build_pack_render(build_pack_label_content(j))
    BY <1>3 DEF build_godex_command
  <2>2. QED
    BY <1>3, <2>1 DEF build_pack_render, build_pack_label_content, round_kg_text, Label
<1>4. QED
  BY <1>1, <1>2, <1>3

\* RfidMeansTag for every request: a tag is only written where it can be and was
\* asked for, and a request that asks for RFID and is answered 200 has had its
\* tag written, qolip labels apart (build_zebra_command, build_godex_command).
THEOREM TagsCorrect == Spec => []RfidMeansTag
<1>1. PlanInv => RfidMeansTag
  <2> SUFFICES ASSUME PlanInv, stage \in {"ready", "done"}
               PROVE  /\ label.tag # None =>
                           /\ label.tag = "hex"
                           /\ capabilities_for(job.printer).rfid_epc_write
                           /\ normalize_mode(requested_mode(request)) = "rfid"
                      /\ requested_mode(request) = "rfid" /\ label.kind # "qolip"
                           => label.tag # None
    BY DEF RfidMeansTag
  <2>1. /\ job.printer \in Printers
        /\ job.mode = print_mode(request, job.printer)
        /\ supports_mode(job.printer, job.mode)
        /\ label = Command(job) /\ label # None
    BY DEF PlanInv, Accepted, Prepared, Validated, JobFields
  <2>2. CASE job.printer = "zebra"
    <3>1. label = build_zebra_command(job)
      BY <2>1, <2>2 DEF Command
    <3>2. job.mode = normalize_mode(requested_mode(request))
      BY <2>1, <2>2 DEF print_mode
    <3>3. capabilities_for(job.printer).rfid_epc_write
      BY <2>2 DEF capabilities_for
    <3>4. /\ label.tag # None => label.tag = "hex" /\ job.mode = "rfid"
          /\ job.mode = "rfid" /\ label.kind # "qolip" => label.tag # None
      BY <2>1, <3>1, ZebraLabel
    <3>5. requested_mode(request) = "rfid" => job.mode = "rfid"
      BY <3>2 DEF normalize_mode
    <3>6. QED
      BY <3>2, <3>3, <3>4, <3>5
  <2>3. CASE job.printer = "godex"
    <3>1. label = build_godex_command(job)
      BY <2>1, <2>3 DEF Command
    <3>2. label.tag = None
      BY <2>1, <3>1, GodexLabel
    <3>3. job.mode # "rfid"
      BY <2>1, <2>3, ModeSupport
    <3>4. requested_mode(request) # "rfid"
      BY <2>1, <3>3 DEF print_mode, normalize_mode
    <3>5. QED
      BY <3>2, <3>4
  <2>4. QED
    BY <2>1, <2>2, <2>3 DEF Printers
<1>2. QED
  BY <1>1, PlanCorrect, PTL

-------------------------------------------------------------------------------
(* What the invariant says about weights.                                  *)

\* Both printers' code rounds the same two numbers, although each has its own
\* copy of the rounding and its own way to choose them when there is no tare.
LEMMA LabelWeights ==
  ASSUME JobFields, Weighed
  PROVE  /\ build_zebra_command(job) # None =>
              LET z == build_zebra_command(job)
              IN /\ z.netto = IF qolip(job) THEN None ELSE round(job.net_qty)
                 /\ z.brutto = IF qolip(job) \/ job.tare_kg = 0 THEN None
                               ELSE round(job.gross_qty)
                 /\ z.unit = IF qolip(job) THEN None ELSE job.unit
                 /\ ~qolip(job) => z.code = "hex"
                 /\ z.qty = None
         /\ build_godex_command(job) # None =>
              LET g == build_godex_command(job)
              IN /\ g.netto = IF qolip(job) \/ job.label_kind = "progress" THEN None
                              ELSE round(job.net_qty)
                 /\ g.brutto = IF qolip(job) THEN None ELSE round(job.gross_qty)
                 /\ g.unit = IF qolip(job) THEN None ELSE "kg"
                 /\ ~qolip(job) /\ job.label_kind # "progress" =>
                      g.code = uppercase_clean(job.epc)
                 /\ IF qolip(job) \/ job.label_kind # "progress" THEN g.qty = None
                    ELSE g.qty.number = round(Or(job.progress_qty, job.net_qty))
<1>1. job.tare_kg = 0 => job.net_qty = job.gross_qty
  BY DEF JobFields, Weighed
<1>2. LET w == format_print_weight_labels(job)
      IN /\ w.netto = round(job.net_qty)
         /\ w.brutto = IF job.tare_kg = 0 THEN None ELSE round(job.gross_qty)
  <2>1. CASE job.tare_kg = 0
    BY <1>1, <2>1 DEF format_print_weight_labels, format_rounded_qty
  <2>2. CASE job.tare_kg # 0
    BY <2>2 DEF format_print_weight_labels, format_rounded_qty
  <2>3. QED
    BY <2>1, <2>2
<1>3. normalize_brutto_text(job) = round(job.gross_qty)
  BY <1>1 DEF normalize_brutto_text, round_kg_text
<1>4. ASSUME build_zebra_command(job) # None
      PROVE  LET z == build_zebra_command(job)
             IN /\ z.netto = IF qolip(job) THEN None ELSE round(job.net_qty)
                /\ z.brutto = IF qolip(job) \/ job.tare_kg = 0 THEN None
                              ELSE round(job.gross_qty)
                /\ z.unit = IF qolip(job) THEN None ELSE job.unit
                /\ ~qolip(job) => z.code = "hex"
                /\ z.qty = None
  BY <1>2, <1>4, ZebraLabel
<1>5. ASSUME build_godex_command(job) # None
      PROVE  LET g == build_godex_command(job)
             IN /\ g.netto = IF qolip(job) \/ job.label_kind = "progress" THEN None
                             ELSE round(job.net_qty)
                /\ g.brutto = IF qolip(job) THEN None ELSE round(job.gross_qty)
                /\ g.unit = IF qolip(job) THEN None ELSE "kg"
                /\ ~qolip(job) /\ job.label_kind # "progress" =>
                     g.code = uppercase_clean(job.epc)
                /\ IF qolip(job) \/ job.label_kind # "progress" THEN g.qty = None
                   ELSE g.qty.number = round(Or(job.progress_qty, job.net_qty))
  BY <1>3, <1>5, GodexLabel
<1>6. QED
  BY <1>4, <1>5

\* A weight is a number, hence not absent.
LEMMA WeightIsShown ==
  ASSUME JobFields, Weighed
  PROVE  round(job.net_qty) # None /\ round(job.gross_qty) # None
<1>1. job.net_qty \in Int /\ job.gross_qty \in Int
  BY AtLeastMinimum
<1>2. round(job.net_qty) \in Int /\ round(job.gross_qty) \in Int
  BY <1>1, Rounding
<1>3. QED
  BY <1>2, PlanAssumption

\* SameLabelOnBothPrinters for every request: where both printers make a label of
\* a job, they show the same weights, in kg in the same unit, and the same code for
\* an EPC in hex digits (build_zebra_command, build_godex_command).
THEOREM LabelsAgree == Spec => []SameLabelOnBothPrinters
<1>1. PlanInv => SameLabelOnBothPrinters
  <2> DEFINE z == build_zebra_command(job)
             g == build_godex_command(job)
  <2> SUFFICES ASSUME PlanInv, stage \in {"plan", "ready", "done"},
                      job.label_kind # "progress", z # None, g # None
               PROVE  /\ z.netto = g.netto
                      /\ g.brutto = Or(z.brutto, g.netto)
                      /\ job.unit = "kg" => z.unit = g.unit
                      /\ job.epc = "hex" /\ ~qolip(job) => z.code = g.code
    BY DEF SameLabelOnBothPrinters
  <2>1. JobFields /\ Weighed
    BY DEF PlanInv, Accepted, Prepared
  <2>2. /\ z.netto = IF qolip(job) THEN None ELSE round(job.net_qty)
        /\ z.brutto = IF qolip(job) \/ job.tare_kg = 0 THEN None ELSE round(job.gross_qty)
        /\ z.unit = IF qolip(job) THEN None ELSE job.unit
        /\ ~qolip(job) => z.code = "hex"
    BY <2>1, LabelWeights
  <2>3. /\ g.netto = IF qolip(job) THEN None ELSE round(job.net_qty)
        /\ g.brutto = IF qolip(job) THEN None ELSE round(job.gross_qty)
        /\ g.unit = IF qolip(job) THEN None ELSE "kg"
        /\ ~qolip(job) => g.code = uppercase_clean(job.epc)
    BY <2>1, LabelWeights
  <2>4. job.tare_kg = 0 => job.net_qty = job.gross_qty
    BY <2>1 DEF JobFields, Weighed
  <2>5. round(job.net_qty) # None /\ round(job.gross_qty) # None
    BY <2>1, WeightIsShown
  <2> HIDE DEF z, g
  <2>6. g.brutto = Or(z.brutto, g.netto)
    BY <2>2, <2>3, <2>4, <2>5 DEF Or
  <2>7. job.epc = "hex" /\ ~qolip(job) => z.code = g.code
    BY <2>2, <2>3 DEF uppercase_clean
  <2>8. QED
    BY <2>2, <2>3, <2>6, <2>7
<1>2. QED
  BY <1>1, PlanCorrect, PTL

\* What is on a label that is printed, in numbers, and in which unit.
LEMMA PrintedWeights ==
  ASSUME PlanInv, stage \in {"ready", "done"}
  PROVE  /\ label.netto = None \/ label.netto = round(job.net_qty)
         /\ label.brutto = None \/ label.brutto = round(job.gross_qty)
         /\ label.unit = IF qolip(job) THEN None
                         ELSE IF job.printer = "zebra" THEN job.unit ELSE "kg"
         /\ qolip(job) => label.netto = None /\ label.brutto = None
         /\ \/ label.qty = None
            \/ /\ job.label_kind = "progress"
               /\ label.qty.number = round(Or(job.progress_qty, job.net_qty))
<1>1. JobFields /\ Weighed /\ label = Command(job) /\ label # None
  BY DEF PlanInv, Accepted, Prepared
<1>2. CASE job.printer = "zebra"
  BY <1>1, <1>2, LabelWeights DEF Command
<1>3. CASE job.printer # "zebra"
  BY <1>1, <1>3, LabelWeights DEF Command
<1>4. QED
  BY <1>2, <1>3

\* The weights of a job as numbers: what the rounding lemmas need.
LEMMA JobWeights ==
  ASSUME PlanInv, stage \in {"ready", "done"}
  PROVE  /\ job.gross_qty \in Int /\ job.gross_qty >= 1000
         /\ job.net_qty \in Int /\ job.net_qty >= 1000
         /\ request.tare_kg \in Int
         /\ \/ request.tare_kg <= 0 /\ job.net_qty = job.gross_qty
            \/ /\ request.tare_kg > 0
               /\ \E e \in {-1, 0, 1} :
                    job.net_qty = job.gross_qty - request.tare_kg + e
<1>1. JobFields /\ Weighed /\ request \in Requests
  BY DEF PlanInv, Accepted, Prepared
<1>2. /\ job.gross_qty \in Int /\ job.gross_qty >= 1000
      /\ job.net_qty \in Int /\ job.net_qty >= 1000
  BY <1>1, AtLeastMinimum
<1>3. /\ request.tare_kg \in Int
      /\ tare(request) = IF request.tare_kg > 0 THEN request.tare_kg ELSE 0
  BY <1>1, TareOfRequest
<1>4. CASE request.tare_kg > 0
  <2>1. tare(request) = request.tare_kg /\ tare(request) # 0
    BY <1>3, <1>4
  <2>2. \E e \in {-1, 0, 1} : job.net_qty = job.gross_qty - tare(request) + e
    BY <1>1, <2>1 DEF Weighed
  <2>3. QED
    BY <1>2, <1>3, <1>4, <2>1, <2>2
<1>5. CASE ~(request.tare_kg > 0)
  <2>1. tare(request) = 0 /\ request.tare_kg <= 0
    BY <1>3, <1>5
  <2>2. job.net_qty = job.gross_qty
    BY <1>1, <2>1 DEF Weighed
  <2>3. QED
    BY <1>2, <1>3, <2>1, <2>2
<1>6. QED
  BY <1>4, <1>5

\* Two weights that differ by a tare, to within a tick, are shown with a
\* difference that is the tare to within a tenth and a tick.
LEMMA RoundedDifference ==
  ASSUME NEW g \in Int, NEW n \in Int, NEW t \in Int,
         0 <= n, n <= g, g - n - t <= 1, t - (g - n) <= 1
  PROVE  /\ round(n) <= round(g)
         /\ Abs((round(g) - round(n)) * 1000 - t) <= 1001
<1> DEFINE rg == round(g)
           rn == round(n)
<1>1. rn <= rg
  BY RoundingMonotone
<1>2. rg \in Int /\ rg * 1000 - g <= 500 /\ g - rg * 1000 <= 500
  BY Rounding
<1>3. rn \in Int /\ rn * 1000 - n <= 500 /\ n - rn * 1000 <= 500
  BY Rounding
<1> HIDE DEF rg, rn
<1>4. Abs((rg - rn) * 1000 - t) <= 1001
  BY <1>2, <1>3 DEF Abs
<1>5. QED
  BY <1>1, <1>4 DEF rg, rn

\* WeightsAddUp for every request and every tare: no label shows 0, brutto is
\* never below netto, and the two differ by the tare to within the rounding
\* (prepare_print_job, format_print_weight_labels, build_pack_label_content).
THEOREM WeightsCorrect == Spec => []WeightsAddUp
<1>1. PlanInv => WeightsAddUp
  <2> DEFINE t == IF request.tare_kg > 0 THEN request.tare_kg ELSE 0
  <2> SUFFICES ASSUME PlanInv, stage \in {"ready", "done"}, label.netto # None
               PROVE  /\ label.netto >= 1
                      /\ label.brutto # None =>
                           /\ label.brutto >= label.netto
                           /\ Abs((label.brutto - label.netto) * Tenth - t)
                                <= Tenth + 1
    BY DEF WeightsAddUp
  <2>1. label.netto = round(job.net_qty)
    BY PrintedWeights
  <2>2. /\ job.gross_qty \in Int /\ job.net_qty \in Int
        /\ job.gross_qty >= 1000 /\ job.net_qty >= 1000
    BY JobWeights
  <2>3. Tenth = 1000 /\ MIN_BATCH_QTY_KG = 1000
    BY DEF Tenth, MIN_BATCH_QTY_KG, Tick
  <2>4. label.netto >= 1
    BY <2>1, <2>2, <2>3, RoundingPositive
  <2>5. /\ t \in Int /\ job.net_qty <= job.gross_qty
        /\ job.gross_qty - job.net_qty - t <= 1
        /\ t - (job.gross_qty - job.net_qty) <= 1
    BY <2>2, JobWeights
  <2>6. ASSUME label.brutto # None
        PROVE  /\ label.brutto >= label.netto
               /\ Abs((label.brutto - label.netto) * Tenth - t)
                    <= Tenth + 1
    <3> HIDE DEF t
    <3>1. label.brutto = round(job.gross_qty)
      BY <2>6, PrintedWeights
    <3>2. /\ round(job.net_qty) <= round(job.gross_qty)
          /\ Abs((round(job.gross_qty) - round(job.net_qty)) * 1000 - t) <= 1001
      <4>1. 0 <= job.net_qty
        BY <2>2
      <4>2. QED
        BY <2>2, <2>5, <4>1, RoundedDifference
    <3>3. label.brutto \in Int /\ label.netto \in Int
      <4>1. \A q \in Int : round(q) \in Int
        BY Rounding
      <4>2. round(job.gross_qty) \in Int /\ round(job.net_qty) \in Int
        BY <2>2, <4>1
      <4>3. QED
        BY <2>1, <3>1, <4>2
    <3>4. label.netto <= label.brutto /\ Abs((label.brutto - label.netto) * 1000 - t) <= 1001
      BY <2>1, <3>1, <3>2
    <3>5. 1001 = Tenth + 1
      BY <2>3
    <3>6. QED
      BY <2>3, <3>3, <3>4, <3>5
  <2>7. QED
    BY <2>4, <2>6
<1>2. QED
  BY <1>1, PlanCorrect, PTL

\* LabelMatchesResponse for every request: what DriverPrintResponse::done tells
\* the client is what the label shows, to the nearest tenth and in the unit that
\* the printer shows; and the quantity of a progress label is the request's.
THEOREM ResponseCorrect == Spec => []LabelMatchesResponse
<1>1. PlanInv => LabelMatchesResponse
  <2> SUFFICES ASSUME PlanInv, stage = "done"
               PROVE  /\ request.gross_qty # None => response.gross_qty = request.gross_qty
                      /\ response.tare <=> request.tare_kg > 0
                      /\ label.netto # None => IsNearest(label.netto, response.net_qty)
                      /\ label.brutto # None => IsNearest(label.brutto, response.gross_qty)
                      /\ label.qty # None =>
                           IsNearest(label.qty.number, Or(request.qty, response.gross_qty))
                      /\ {label.netto, label.brutto} # {None} =>
                           label.unit = IF response.printer = "zebra" THEN response.unit
                                        ELSE "kg"
    BY DEF LabelMatchesResponse
  <2>1. /\ response.net_qty = job.net_qty
        /\ response.gross_qty = job.gross_qty
        /\ response.tare <=> job.tare_kg > 0
        /\ response.printer = job.printer /\ response.unit = job.unit
    BY DEF PlanInv
  <2>2. /\ job.gross_qty = gross(request)
        /\ job.tare_kg = tare(request)
        /\ job.label_kind = "progress" => job.progress_qty = Or(request.qty, job.gross_qty)
        /\ request \in Requests
    BY DEF PlanInv, Accepted, JobFields
  <2>3. request.gross_qty # None => response.gross_qty = request.gross_qty
    BY <2>1, <2>2 DEF gross, Or
  <2>4. response.tare <=> request.tare_kg > 0
    <3>1. /\ request.tare_kg \in Int
          /\ tare(request) = IF request.tare_kg > 0 THEN request.tare_kg ELSE 0
      BY <2>2, TareOfRequest
    <3>2. job.tare_kg > 0 <=> request.tare_kg > 0
      BY <2>2, <3>1
    <3>3. QED
      BY <2>1, <3>2
  <2>5. job.gross_qty \in Int /\ job.net_qty \in Int
    BY JobWeights
  <2>6. ASSUME NEW q \in Int PROVE IsNearest(round(q), q)
    <3>1. /\ round(q) \in Int
          /\ round(q) * 1000 - q <= 500
          /\ q - round(q) * 1000 <= 500
      BY Rounding
    <3>2. Abs(round(q) * 1000 - q) <= 500
      BY <3>1 DEF Abs
    <3>3. Tenth = 1000 /\ Tenth \div 2 = 500
      BY DEF Tenth, Tick
    <3>4. QED
      BY <3>2, <3>3 DEF IsNearest
  <2>7. /\ label.netto # None => IsNearest(label.netto, response.net_qty)
        /\ label.brutto # None => IsNearest(label.brutto, response.gross_qty)
    BY <2>1, <2>5, <2>6, PrintedWeights
  <2>8. ASSUME label.qty # None
        PROVE  IsNearest(label.qty.number, Or(request.qty, response.gross_qty))
    <3> DEFINE q == Or(request.qty, job.gross_qty)
    <3>1. /\ job.progress_qty = q
          /\ label.qty.number = round(Or(job.progress_qty, job.net_qty))
      BY <2>2, <2>8, PrintedWeights
    <3>2. request.qty \in Int \cup {None} /\ None \notin Int
      BY <2>2, PlanAssumption DEF DriverPrintRequest
    <3>3. q \in Int /\ q # None
      BY <2>5, <3>2 DEF Or
    <3> HIDE DEF q
    <3>4. label.qty.number = round(q)
      BY <3>1, <3>3 DEF Or
    <3>5. QED
      BY <2>1, <2>6, <3>3, <3>4 DEF q
  <2>9. ASSUME {label.netto, label.brutto} # {None}
        PROVE  label.unit = IF response.printer = "zebra" THEN response.unit ELSE "kg"
    <3>1. ~qolip(job)
      <4>1. label.netto # None \/ label.brutto # None
        BY <2>9
      <4>2. QED
        BY <4>1, PrintedWeights
    <3>2. QED
      BY <2>1, <3>1, PrintedWeights
  <2>10. QED
    BY <2>3, <2>4, <2>7, <2>8, <2>9
<1>2. QED
  BY <1>1, PlanCorrect, PTL

-------------------------------------------------------------------------------
(* EpcGenerator.                                                           *)

\* A set of numbers that is not empty has a least one.
LEMMA LeastNumber ==
  ASSUME NEW T, T \subseteq Nat, T # {}
  PROVE  \E x \in T : \A y \in T : ~(y < x)
<1> DEFINE R == {p \in Nat \X Nat : p[1] < p[2]}
<1>1. PICK x \in T : \A y \in T : ~(<<y, x>> \in R)
  <2>1. IsWellFoundedOn(R, Nat)
    BY NatLessThanWellFounded, Zenon DEF OpToRel
  <2> HIDE DEF R
  <2> QED
    BY <2>1, WFMin, Zenon
<1>2. ASSUME NEW y \in T, y < x PROVE FALSE
  <2>1. <<y, x>> \in R
    BY <1>2
  <2>2. QED
    BY <1>1, <2>1
<1>3. QED
  BY <1>2


\* The values of g up to k are powers of two.
PowersUpTo(g, k) ==
  /\ g \in [0..Bits -> Nat \ {0}]
  /\ \A i \in 0..k : g[i] = IF i = 0 THEN 1 ELSE 2 * g[i - 1]

\* The recursion that defines the powers of two has a solution.
LEMMA PowersExist ==
  ASSUME Bits \in Nat
  PROVE  \E g : PowersUpTo(g, Bits)
<1> DEFINE T == {k \in 0..Bits : ~\E g : PowersUpTo(g, k)}
<1> SUFFICES ASSUME ~\E g : PowersUpTo(g, Bits) PROVE FALSE
  OBVIOUS
<1>1. T \subseteq Nat /\ T # {}
  <2>1. Bits \in T
    OBVIOUS
  <2>2. QED
    BY <2>1
<1>2. PICK k \in T : \A j \in T : ~(j < k)
  <2> HIDE DEF T
  <2> QED
    BY <1>1, LeastNumber
<1>3. k \in 0..Bits /\ ~\E g : PowersUpTo(g, k)
  OBVIOUS
<1>4. k # 0
  <2>1. PowersUpTo([i \in 0..Bits |-> 1], 0)
    BY DEF PowersUpTo
  <2>2. QED
    BY <1>3, <2>1
<1>5. k - 1 \in 0..Bits /\ k - 1 < k
  BY <1>3, <1>4
<1>6. PICK g : PowersUpTo(g, k - 1)
  BY <1>2, <1>5
<1> DEFINE h == [i \in 0..Bits |-> IF i = k THEN 2 * g[k - 1] ELSE g[i]]
<1>7. h \in [0..Bits -> Nat \ {0}]
  BY <1>3, <1>5, <1>6 DEF PowersUpTo
<1>8. \A i \in 0..k : h[i] = IF i = 0 THEN 1 ELSE 2 * h[i - 1]
  <2> SUFFICES ASSUME NEW i \in 0..k PROVE h[i] = IF i = 0 THEN 1 ELSE 2 * h[i - 1]
    OBVIOUS
  <2>1. CASE i = k
    BY <1>3, <1>4, <1>5, <2>1
  <2>2. CASE i # k
    BY <1>3, <1>6, <2>2 DEF PowersUpTo
  <2>3. QED
    BY <2>1, <2>2
<1>9. PowersUpTo(h, k)
  BY <1>7, <1>8 DEF PowersUpTo
<1>10. QED
  BY <1>3, <1>9

\* pow2 is a function, and doubles from one position to the next.
LEMMA PowersOfTwo ==
  ASSUME Bits \in Nat
  PROVE  /\ pow2 \in [0..Bits -> Nat \ {0}]
         /\ pow2[0] = 1
         /\ \A i \in 0..Bits : i # 0 => pow2[i] = 2 * pow2[i - 1]
<1> DEFINE F(p) == [k \in 0..Bits |-> IF k = 0 THEN 1 ELSE 2 * p[k - 1]]
<1>1. pow2 = CHOOSE p : p = F(p)
  BY Zenon DEF pow2
<1>2. PICK g : PowersUpTo(g, Bits)
  BY PowersExist
<1>3. g = F(g)
  BY <1>2 DEF PowersUpTo
<1>4. pow2 = F(pow2)
  <2> HIDE DEF F
  <2> QED
    BY <1>1, <1>3, Zenon
<1> DEFINE p == pow2
<1>5. p = F(p)
  BY <1>4
<1> HIDE DEF p
<1>6. p[0] = 1 /\ \A i \in 0..Bits : i # 0 => p[i] = 2 * p[i - 1]
  BY <1>5
<1>7. DOMAIN p = 0..Bits /\ p = [i \in 0..Bits |-> p[i]]
  BY <1>5
<1> DEFINE T == {k \in 0..Bits : p[k] \notin Nat \ {0}}
<1>8. T = {}
  <2> SUFFICES ASSUME T # {} PROVE FALSE
    OBVIOUS
  <2>1. T \subseteq Nat
    OBVIOUS
  <2>2. PICK k \in T : \A j \in T : ~(j < k)
    <3> HIDE DEF T
    <3> QED
      BY <2>1, LeastNumber
  <2>3. k \in 0..Bits /\ p[k] \notin Nat \ {0}
    OBVIOUS
  <2>4. k # 0
    BY <1>6, <2>3
  <2>5. k - 1 \in 0..Bits /\ k - 1 < k
    BY <2>3, <2>4
  <2>6. p[k - 1] \in Nat \ {0}
    BY <2>2, <2>5
  <2>7. p[k] = 2 * p[k - 1]
    BY <1>6, <2>3, <2>4
  <2>8. QED
    BY <2>3, <2>6, <2>7
<1>9. p \in [0..Bits -> Nat \ {0}]
  BY <1>7, <1>8
<1>10. QED
  BY <1>6, <1>9 DEF p

\* A number below the modulus is the remainder of what it is added to.
LEMMA RemainderUnique ==
  ASSUME NEW P \in Nat \ {0}, NEW h \in Nat, NEW s \in Nat, s < P
  PROVE  (P * h + s) % P = s
<1> DEFINE n == P * h + s
<1>1. n \in Nat
  OBVIOUS
<1> HIDE DEF n
<1>2. n = P * (n \div P) + (n % P) /\ n \div P \in Nat /\ n % P \in 0..(P - 1)
  BY <1>1
<1>3. PICK q \in Nat, r \in 0..(P - 1) : q = n \div P /\ r = n % P
  BY <1>2
<1>4. P * (q - h) = s - r
  BY <1>2, <1>3 DEF n
<1>5. q = h
  <2>1. CASE q - h >= 1
    <3>1. P * (q - h) >= P
      BY <2>1
    <3>2. QED
      BY <1>4, <3>1
  <2>2. CASE h - q >= 1
    <3>1. P * (h - q) >= P
      BY <2>2
    <3>2. P * (h - q) = r - s
      BY <1>4
    <3>3. QED
      BY <3>1, <3>2
  <2>3. QED
    BY <2>1, <2>2
<1>6. QED
  BY <1>3, <1>4, <1>5 DEF n

\* The remainder by twice a number has one bit more.
LEMMA OneMoreBit ==
  ASSUME NEW n \in Nat, NEW p \in Nat \ {0}
  PROVE  n % (2 * p) = (n % p) + p * ((n \div p) % 2)
<1> DEFINE q == n \div p
           r == n % p
<1>1. n = p * q + r /\ q \in Nat /\ r \in 0..(p - 1)
  OBVIOUS
<1> HIDE DEF q, r
<1>2. PICK h \in Nat, b \in {0, 1} : q = 2 * h + b /\ b = q % 2
  BY <1>1
<1>3. n = (2 * p) * h + (p * b + r) /\ p * b + r \in Nat /\ p * b + r < 2 * p
  <2>1. p * b \in {0, p}
    OBVIOUS
  <2>2. QED
    BY <1>1, <1>2, <2>1
<1>4. n % (2 * p) = p * b + r
  <2> DEFINE P == 2 * p
             s == p * b + r
  <2>1. P \in Nat \ {0} /\ s \in Nat /\ s < P /\ n = P * h + s
    BY <1>3
  <2> HIDE DEF P, s
  <2>2. n % P = s
    BY <2>1, RemainderUnique
  <2>3. QED
    BY <2>2 DEF P, s
<1>5. QED
  BY <1>1, <1>2, <1>4 DEF q, r

\* Powers of two grow.
LEMMA PowersGrow ==
  ASSUME Bits \in Nat, NEW i \in 0..Bits, NEW k \in 0..Bits, i < k
  PROVE  pow2[i] < pow2[k]
<1> DEFINE p == pow2
           T == {j \in 0..Bits : i < j /\ ~(p[i] < p[j])}
<1>1. p \in [0..Bits -> Nat \ {0}] /\ \A j \in 0..Bits : j # 0 => p[j] = 2 * p[j - 1]
  BY PowersOfTwo
<1> HIDE DEF p
<1> SUFFICES ASSUME ~(p[i] < p[k]) PROVE FALSE
  BY DEF p
<1>2. T \subseteq Nat /\ T # {}
  <2>1. k \in T
    OBVIOUS
  <2>2. QED
    BY <2>1
<1>3. PICK j \in T : \A l \in T : ~(l < j)
  <2> HIDE DEF T
  <2> QED
    BY <1>2, LeastNumber
<1>4. j \in 0..Bits /\ i < j /\ ~(p[i] < p[j]) /\ j # 0 /\ j - 1 \in 0..Bits /\ j - 1 < j
  OBVIOUS
<1>5. i = j - 1 \/ p[i] < p[j - 1]
  BY <1>3, <1>4
<1>6. p[j] = 2 * p[j - 1] /\ p[j - 1] \in Nat \ {0} /\ p[i] \in Nat \ {0}
  BY <1>1, <1>4
<1>7. QED
  BY <1>4, <1>5, <1>6

\* Numbers with the same remainder are equal or a modulus apart.
LEMMA SameRemainder ==
  ASSUME NEW x \in Nat, NEW y \in Nat, NEW P \in Nat \ {0},
         x % P = y % P, x - y < P, y - x < P
  PROVE  x = y
<1>1. x = P * (x \div P) + (x % P) /\ y = P * (y \div P) + (y % P)
  OBVIOUS
<1>2. PICK a \in Nat, b \in Nat : a = x \div P /\ b = y \div P
  OBVIOUS
<1>3. P * (a - b) = x - y /\ P * (b - a) = y - x
  BY <1>1, <1>2
<1>4. a - b < 1
  <2>1. a - b >= 1 => P * (a - b) >= P
    OBVIOUS
  <2>2. QED
    BY <1>3, <2>1
<1>5. b - a < 1
  <2>1. b - a >= 1 => P * (b - a) >= P
    OBVIOUS
  <2>2. QED
    BY <1>3, <2>1
<1>6. QED
  BY <1>1, <1>2, <1>4, <1>5

\* Two numbers with the same K lowest bits are the same modulo the K-th power of
\* two: otherwise the first bit of a least counterexample would differ.
LEMMA SameBits ==
  ASSUME Bits \in Nat, NEW n \in Nat, NEW m \in Nat, NEW K \in 0..Bits,
         \A i \in 0..(K - 1) : (n \div pow2[i]) % 2 = (m \div pow2[i]) % 2
  PROVE  n % pow2[K] = m % pow2[K]
<1> DEFINE p == pow2
           T == {k \in 0..K : n % p[k] # m % p[k]}
<1>1. p \in [0..Bits -> Nat \ {0}] /\ p[0] = 1 /\ \A i \in 0..Bits : i # 0 => p[i] = 2 * p[i - 1]
  BY PowersOfTwo
<1>2. \A i \in 0..(K - 1) : (n \div p[i]) % 2 = (m \div p[i]) % 2
  OBVIOUS
<1> HIDE DEF p
<1> SUFFICES ASSUME n % p[K] # m % p[K] PROVE FALSE
  BY DEF p
<1>3. T \subseteq Nat /\ T # {}
  <2>1. K \in T
    OBVIOUS
  <2>2. QED
    BY <2>1
<1>4. PICK k \in T : \A j \in T : ~(j < k)
  <2> HIDE DEF T
  <2> QED
    BY <1>3, LeastNumber
<1>5. k \in 0..K /\ n % p[k] # m % p[k]
  OBVIOUS
<1>6. k # 0
  <2>1. n % 1 = 0 /\ m % 1 = 0
    OBVIOUS
  <2>2. QED
    BY <1>1, <1>5, <2>1
<1>7. k - 1 \in 0..K /\ k - 1 < k /\ k - 1 \in 0..(K - 1) /\ k - 1 \in 0..Bits /\ k \in 0..Bits
  BY <1>5, <1>6
<1>8. n % p[k - 1] = m % p[k - 1]
  BY <1>4, <1>7
<1> DEFINE x == p[k - 1]
<1>9. x \in Nat \ {0} /\ p[k] = 2 * x /\ (n \div x) % 2 = (m \div x) % 2
  BY <1>1, <1>2, <1>6, <1>7
<1>10. n % x = m % x
  BY <1>8
<1> HIDE DEF x, T
<1>11. n % (2 * x) = (n % x) + x * ((n \div x) % 2)
  BY <1>9, OneMoreBit
<1>12. m % (2 * x) = (m % x) + x * ((m \div x) % 2)
  BY <1>9, OneMoreBit
<1>13. n % p[k] = m % p[k]
  BY <1>9, <1>10, <1>11, <1>12
<1>14. QED
  BY <1>5, <1>13

\* A counter below the bit that is forced to one can be read off the rotated word.
LEMMA RotatedBit ==
  ASSUME NEW w, w \subseteq 0..(Bits - 1), NEW i \in 0..(Bits - RotSeq - 1)
  PROVE  i \in w <=> i + RotSeq \in rotate_left(w, RotSeq)
<1>1. Bits \in Nat /\ RotSeq \in 1..(Bits - 1)
  BY EpcAssumption
<1>2. \A j \in 0..(Bits - 1) : (j + RotSeq) % Bits = IF j + RotSeq < Bits THEN j + RotSeq ELSE j + RotSeq - Bits
  BY <1>1
<1>3. \A j \in 0..(Bits - 1) : (j + RotSeq) % Bits = i + RotSeq => j = i
  BY <1>1, <1>2
<1>4. (i + RotSeq) % Bits = i + RotSeq
  BY <1>1, <1>2
<1>5. QED
  BY <1>3, <1>4 DEF rotate_left

\* EPCs of one run differ when their timestamps or their counters do.
LEMMA FormatInjective ==
  ASSUME NEW ns \in Start..MaxClock, NEW nt \in Start..MaxClock, NEW s,
         NEW n \in Nat, NEW m \in Nat,
         n < pow2[Bits - RotSeq], m < pow2[Bits - RotSeq],
         format_epc_24(ns, n, s) = format_epc_24(nt, m, s)
  PROVE  ns = nt /\ n = m
<1>1. /\ Bits \in Nat /\ RotSeq \in 1..(Bits - 1) /\ NsSpan \in Nat \ {0}
      /\ Start \in Nat /\ MaxClock \in Nat /\ MaxClock < Start + NsSpan
  BY EpcAssumption
<1> DEFINE e == format_epc_24(ns, n, s)
           f == format_epc_24(nt, m, s)
<1>2. ns % NsSpan = nt % NsSpan
  <2>1. e.ns = ns % NsSpan /\ f.ns = nt % NsSpan
    BY DEF format_epc_24
  <2>2. QED
    BY <2>1
<1>3. ns = nt
  <2>1. ns \in Nat /\ nt \in Nat /\ ns - nt < NsSpan /\ nt - ns < NsSpan
    BY <1>1
  <2>2. QED
    BY <1>1, <1>2, <2>1, SameRemainder
<1> DEFINE K == Bits - RotSeq
           rot(x) == rotate_left(bits(x), RotSeq)
           time == SymDiff(bits(ns \div Micro), rotate_left(bits(ns), RotNs))
           tail(x) == SymDiff(SymDiff(time, rot(x)), s) \cup {0}
<1>4. tail(n) = tail(m)
  <2>1. e.tail = tail(n) /\ f.tail = tail(m)
    BY <1>3 DEF format_epc_24
  <2>2. QED
    BY <2>1
<1>5. \A b : b # 0 => (b \in rot(n) <=> b \in rot(m))
  <2> HIDE DEF rot, time
  <2> QED
    BY <1>4 DEF SymDiff
<1>6. \A i \in 0..(K - 1) : i \in bits(n) <=> i \in bits(m)
  <2> SUFFICES ASSUME NEW i \in 0..(K - 1) PROVE i \in bits(n) <=> i \in bits(m)
    OBVIOUS
  <2>1. bits(n) \subseteq 0..(Bits - 1) /\ bits(m) \subseteq 0..(Bits - 1)
    BY DEF bits
  <2>2. i \in bits(n) <=> i + RotSeq \in rot(n)
    BY <2>1, RotatedBit
  <2>3. i \in bits(m) <=> i + RotSeq \in rot(m)
    BY <2>1, RotatedBit
  <2>4. i + RotSeq # 0
    BY <1>1
  <2>5. QED
    BY <1>5, <2>2, <2>3, <2>4
<1> DEFINE p == pow2
<1>7. p \in [0..Bits -> Nat \ {0}]
  BY <1>1, PowersOfTwo
<1>8. \A i \in 0..(K - 1) : (n \div p[i]) % 2 = (m \div p[i]) % 2
  <2> SUFFICES ASSUME NEW i \in 0..(K - 1) PROVE (n \div p[i]) % 2 = (m \div p[i]) % 2
    OBVIOUS
  <2> HIDE DEF p
  <2>1. i \in 0..(Bits - 1) /\ p[i] \in Nat \ {0}
    BY <1>1, <1>7
  <2>2. (n \div p[i]) % 2 = 1 <=> (m \div p[i]) % 2 = 1
    BY <1>6, <2>1 DEF bits, p
  <2>3. (n \div p[i]) % 2 \in {0, 1} /\ (m \div p[i]) % 2 \in {0, 1}
    BY <2>1
  <2>4. QED
    BY <2>2, <2>3
<1>9. K \in 0..Bits
  BY <1>1
<1>10. n % p[K] = m % p[K]
  BY <1>1, <1>8, <1>9, SameBits
<1>11. n = m
  <2>1. p[K] \in Nat \ {0} /\ n < p[K] /\ m < p[K]
    BY <1>7, <1>9
  <2> DEFINE q == p[K]
  <2>2. q \in Nat \ {0} /\ n < q /\ m < q /\ n % q = m % q
    BY <1>10, <2>1
  <2> HIDE DEF q
  <2>3. n % q = n /\ m % q = m
    BY <2>2
  <2>4. QED
    BY <2>2, <2>3
<1>12. QED
  BY <1>3, <1>11

-------------------------------------------------------------------------------
\* Types. Times lie in the window of the run.
EpcType ==
  /\ clock \in Start..MaxClock
  /\ read \in [Threads -> (Start..MaxClock) \cup {NoTime}]
  /\ last_ns \in Nat /\ seq \in Nat /\ top \in Nat
  /\ salt \in SUBSET (0..(Bits - 1))
  /\ repeated \in BOOLEAN /\ ordered \in BOOLEAN

\* While timestamps come in order, every EPC was made of a timestamp and a
\* counter that the generator has passed.
EpcInv ==
  /\ EpcType
  /\ seq <= top
  /\ ordered /\ top < pow2[Bits - RotSeq] =>
       /\ ~repeated
       /\ \A e \in issued : \E ns \in Start..MaxClock, n \in 0..top :
            /\ e = format_epc_24(ns, n, salt)
            /\ ns <= last_ns
            /\ ns = last_ns => n <= seq

\* It holds of a generator with any salt.
LEMMA InitEpcInv == EpcInit => EpcInv
<1> SUFFICES ASSUME EpcInit PROVE EpcInv
  OBVIOUS
<1>1. PICK s \in Salts : salt = s \cup {0}
  BY DEF EpcInit
<1>2. salt \in SUBSET (0..(Bits - 1))
  BY <1>1, EpcAssumption
<1>3. clock \in Start..MaxClock
  BY EpcAssumption DEF EpcInit
<1>4. repeated \in BOOLEAN /\ ordered \in BOOLEAN
  BY Zenon DEF EpcInit
<1>5. EpcType
  BY <1>2, <1>3, <1>4 DEF EpcType, EpcInit
<1>6. QED
  BY <1>5 DEF EpcInv, EpcInit

\* It is preserved by a call under the mutex: an EPC that was given out already
\* would have the timestamp and the counter of this call, and the counter is new.
LEMMA EpcCall ==
  ASSUME EpcInv, NEW t \in Threads, next_at_unix_ns(t)
  PROVE  EpcInv'
<1> DEFINE P == pow2[Bits - RotSeq]
           W == pow2[Bits]
           ns == read[t]
           n == next_seq(ns)
           epc == format_epc_24(ns, n, salt)
<1>1. /\ ns # NoTime
      /\ last_ns' = ns /\ seq' = n
      /\ repeated' = (repeated \/ epc \in issued)
      /\ issued' = issued \cup {epc}
      /\ ordered' = (ordered /\ ns >= last_ns)
      /\ top' = IF n > top THEN n ELSE top
      /\ read' = [read EXCEPT ![t] = NoTime]
      /\ UNCHANGED <<clock, salt, calls, backs>>
  BY DEF next_at_unix_ns
<1>2. EpcType /\ seq <= top
  BY DEF EpcInv
<1>3. Bits \in Nat /\ RotSeq \in 1..(Bits - 1) /\ Start \in Nat /\ MaxClock \in Nat
  BY EpcAssumption
<1>4. ns \in Start..MaxClock /\ ns \in Nat
  BY <1>1, <1>2, <1>3 DEF EpcType
<1>5. P \in Nat \ {0} /\ W \in Nat \ {0} /\ P < W
  <2>1. Bits \in 0..Bits /\ Bits - RotSeq \in 0..Bits /\ Bits - RotSeq < Bits
    BY <1>3
  <2>2. QED
    BY <1>3, <2>1, PowersOfTwo, PowersGrow
<1>6. n = IF ns # last_ns THEN 0 ELSE (seq + 1) % W
  BY DEF next_seq
<1> HIDE DEF P, W, n, epc
<1>7. n \in Nat /\ n <= top' /\ top <= top' /\ top' \in Nat
  BY <1>1, <1>2, <1>5, <1>6 DEF EpcType
<1>8. EpcType'
  BY <1>1, <1>2, <1>4, <1>7 DEF EpcType
<1>9. ASSUME ordered', top' < P
      PROVE  /\ ~repeated'
             /\ \A e \in issued' : \E ms \in Start..MaxClock, m \in 0..top' :
                  /\ e = format_epc_24(ms, m, salt)
                  /\ ms <= ns
                  /\ ms = ns => m <= n
  <2>1. ordered /\ ns >= last_ns /\ top < P /\ n < P
    <3>1. ordered /\ ns >= last_ns
      BY <1>1, <1>9, Zenon
    <3>2. top \in Nat /\ top < P /\ n < P
      BY <1>2, <1>5, <1>7, <1>9 DEF EpcType
    <3>3. QED
      BY <3>1, <3>2
  <2>2. /\ ~repeated
        /\ \A e \in issued : \E ms \in Start..MaxClock, m \in 0..top :
             /\ e = format_epc_24(ms, m, salt)
             /\ ms <= last_ns
             /\ ms = last_ns => m <= seq
    BY <2>1 DEF EpcInv, P
  <2>3. ns = last_ns => n = seq + 1
    BY <1>2, <1>5, <1>6, <2>1 DEF EpcType
  <2>4. epc \notin issued
    <3> SUFFICES ASSUME epc \in issued PROVE FALSE
      OBVIOUS
    <3>1. PICK ms \in Start..MaxClock, m \in 0..top :
            epc = format_epc_24(ms, m, salt) /\ ms <= last_ns /\ (ms = last_ns => m <= seq)
      BY <2>2
    <3>2. m \in Nat /\ m < P /\ ms \in Nat
      BY <1>2, <1>3, <1>5, <2>1 DEF EpcType
    <3>3. format_epc_24(ns, n, salt) = format_epc_24(ms, m, salt)
      BY <3>1 DEF epc
    <3>4. n < pow2[Bits - RotSeq] /\ m < pow2[Bits - RotSeq]
      BY <2>1, <3>2 DEF P
    <3>5. ns = ms /\ n = m
      BY <1>4, <1>7, <3>2, <3>3, <3>4, FormatInjective
    <3>6. QED
      BY <1>2, <1>4, <2>1, <2>3, <3>1, <3>2, <3>5 DEF EpcType
  <2>5. ASSUME NEW e \in issued'
        PROVE  \E ms \in Start..MaxClock, m \in 0..top' :
                 /\ e = format_epc_24(ms, m, salt)
                 /\ ms <= ns
                 /\ ms = ns => m <= n
    <3>1. CASE e = epc
      <4>1. n \in 0..top' /\ ns <= ns
        BY <1>4, <1>7
      <4>2. QED
        BY <1>4, <3>1, <4>1 DEF epc
    <3>2. CASE e \in issued
      <4>1. PICK ms \in Start..MaxClock, m \in 0..top :
              e = format_epc_24(ms, m, salt) /\ ms <= last_ns /\ (ms = last_ns => m <= seq)
        BY <2>2, <3>2
      <4>2. m \in 0..top' /\ ms <= ns /\ (ms = ns => m <= n)
        BY <1>2, <1>3, <1>4, <1>7, <2>1, <2>3, <4>1 DEF EpcType
      <4>3. QED
        BY <4>1, <4>2
    <3>3. QED
      BY <1>1, <2>5, <3>1, <3>2
  <2>6. QED
    BY <1>1, <2>2, <2>4, <2>5
<1>10. seq' <= top'
  BY <1>1, <1>7
<1>11. (ordered /\ top < pow2[Bits - RotSeq])' => ordered' /\ top' < P
  BY DEF P
<1>12. QED
  BY <1>1, <1>8, <1>9, <1>10, <1>11 DEF EpcInv

\* It is preserved by every step.
LEMMA EpcStep ==
  ASSUME EpcInv, [EpcNext]_epc_vars
  PROVE  EpcInv'
<1>1. CASE tick
  <2>1. EpcType'
    BY <1>1, EpcAssumption DEF tick, EpcInv, EpcType
  <2>2. UNCHANGED <<last_ns, seq, salt, issued, repeated, ordered, top>>
    BY <1>1 DEF tick
  <2>3. QED
    BY <2>1, <2>2 DEF EpcInv
<1>2. CASE set_back
  <2>1. EpcType'
    BY <1>2, EpcAssumption DEF set_back, EpcInv, EpcType
  <2>2. UNCHANGED <<last_ns, seq, salt, issued, repeated, ordered, top>>
    BY <1>2 DEF set_back
  <2>3. QED
    BY <2>1, <2>2 DEF EpcInv
<1>3. ASSUME NEW t \in Threads, now_unix_ns(t) PROVE EpcInv'
  <2>1. EpcType'
    BY <1>3 DEF now_unix_ns, EpcInv, EpcType
  <2>2. UNCHANGED <<last_ns, seq, salt, issued, repeated, ordered, top>>
    BY <1>3 DEF now_unix_ns
  <2>3. QED
    BY <2>1, <2>2 DEF EpcInv
<1>4. CASE UNCHANGED epc_vars
  <2>1. UNCHANGED <<clock, read, last_ns, seq, salt, issued, repeated, ordered, top>>
    BY <1>4 DEF epc_vars
  <2>2. QED
    BY <2>1 DEF EpcInv, EpcType
<1>5. QED
  BY <1>1, <1>2, <1>3, <1>4, EpcCall DEF EpcNext

\* As long as timestamps reach the generator in order and no nanosecond has too
\* many calls, no EPC is given out twice, for words and rotations of any size and
\* any salt (epc.rs next_at_unix_ns, format_epc_24).
THEOREM UniqueCorrect == EpcSpec => []UniqueInOrder
<1>1. EpcInit => EpcInv
  BY InitEpcInv
<1>2. EpcInv /\ [EpcNext]_epc_vars => EpcInv'
  BY EpcStep
<1>3. EpcInv => UniqueInOrder
  BY DEF EpcInv, UniqueInOrder
<1>4. QED
  BY <1>1, <1>2, <1>3, PTL DEF EpcSpec
===============================================================================
