------------------------------- MODULE Catalog -------------------------------
(***************************************************************************)
(* The models: provider_models (per vendor, with the price an admin gave), *)
(* provider_model_faces (which face offers which model), and the copy of   *)
(* both that the manager routes and bills by.  Orders within a face and    *)
(* the default model are left out.                                         *)
(***************************************************************************)
EXTENDS Providers

CONSTANTS Models,
          Prices,    \* what an admin enters
          Absent     \* no row

Unpriced == "unpriced"

VARIABLES modelRows,   \* [vendor, model] -> price, Unpriced or Absent
          faceRows,    \* rows <<face, model>>
          pricing,     \* the manager's copy of modelRows
          faceModels,  \* the manager's copy of faceRows
          priced       \* [vendor, model] -> the price saved for the row, if nobody
                       \* else was at work; Absent otherwise (history)

catalog == <<modelRows, faceRows, pricing, faceModels, priced>>

CatalogInit == /\ modelRows \in {[vm \in Vendors \X Models |-> IF vm[2] \in ms THEN Unpriced ELSE Absent] :
                                    ms \in SUBSET Models}
               /\ faceRows = {}
               /\ pricing = modelRows
               /\ faceModels = faceRows
               /\ priced = [vm \in Vendors \X Models |-> Absent]

Rows(v) == {m \in Models : modelRows[<<v, m>>] # Absent}
FaceRows(v) == {r \in faceRows : r[1] \in FacesOf[v]}

\* ModelsFor: a face without rows of its own offers all of its vendor's models.
Offers(f) == LET own == {m \in Models : <<f, m>> \in faceModels}
             IN  IF own # {} THEN own
                 ELSE {m \in Models : VendorFor(f) \in Vendors /\ pricing[<<VendorFor(f), m>>] # Absent}

Cached == UNCHANGED <<pricing, faceModels>>

ReplaceFaceModels(f, ms) == /\ faceRows' = {r \in faceRows : r[1] # f} \cup ({f} \X ms)
                            /\ UNCHANGED <<modelRows, priced>> /\ Cached

DeleteFaceModels(f) == ReplaceFaceModels(f, {})

\* Slip: the upstream list overwrites the price of a row that is there already.
UpsertModelsPlain(v, ms, seen) ==
    /\ modelRows' = [vm \in DOMAIN modelRows |->
                        IF vm[1] = v /\ vm[2] \in ms THEN Unpriced ELSE modelRows[vm]]
    /\ UNCHANGED <<faceRows, priced>> /\ Cached

\* The transaction of UpsertModels: seen are the rows as read before it began; it
\* adds rows, takes none away, and writes the prices seen.
UpsertModels(v, ms, seen) ==
    /\ modelRows' = [vm \in DOMAIN modelRows |->
                        CASE vm[1] # v \/ vm[2] \notin ms -> modelRows[vm]
                          [] vm[1] = v /\ vm[2] \in ms /\ seen[vm] # Absent -> seen[vm]
                          [] OTHER -> IF modelRows[vm] = Absent THEN Unpriced ELSE modelRows[vm]]
    /\ UNCHANGED <<faceRows, priced>> /\ Cached

SavePricing(v, m, p, undisturbed) ==
    /\ modelRows' = [modelRows EXCEPT ![<<v, m>>] = IF @ = Absent THEN Absent ELSE p]
    /\ priced' = [priced EXCEPT ![<<v, m>>] = IF undisturbed THEN modelRows'[<<v, m>>] ELSE Absent]
    /\ UNCHANGED faceRows /\ Cached

\* The DELETE of PruneOrphanModels; an empty list of faces makes every row an orphan.
DeleteOrphans(v) ==
    LET kept == {r[2] : r \in FaceRows(v)}
        left(vm, x) == IF vm[1] = v /\ vm[2] \notin kept THEN Absent ELSE x
    IN  /\ modelRows' = [vm \in DOMAIN modelRows |-> left(vm, modelRows[vm])]
        /\ priced' = [vm \in DOMAIN priced |-> left(vm, priced[vm])]
        /\ UNCHANGED faceRows /\ Cached

\* Slip: the faces' models stay as they were.
InstallModelsPrices(rows, frows) == /\ pricing' = rows
                                    /\ UNCHANGED <<faceModels, modelRows, faceRows, priced>>

\* The end of LoadModelsFromStore: what the two queries returned is installed.
InstallModels(rows, frows) == /\ pricing' = rows
                              /\ faceModels' = frows
                              /\ UNCHANGED <<modelRows, faceRows, priced>>
=============================================================================
