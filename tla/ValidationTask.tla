--------------------------- MODULE ValidationTask ---------------------------
(***************************************************************************)
(* Structured-data validations (apps/validator): the row of a              *)
(* ValidationJob, its SchemaItem rows and process_validation.  A page has  *)
(* up to MaxItems objects and may change between two deliveries; what the  *)
(* extractors and the rules make of it is in StructuredData, SchemaRules.  *)
(***************************************************************************)
EXTENDS TaskLife

CONSTANT MaxItems    \* bound: objects of a page

ASSUME ItemsAssumption == MaxItems \in Nat

VARIABLES
    validation,  \* job -> its committed ValidationJob row
    items,       \* job -> its committed SchemaItem rows
    instance     \* worker -> total_schemas_found of the instance in its memory

validationVars == <<validation, items, instance>>

ValidationRow == [status : {"none", "pending", "processing", "completed", "failed"},
                  total : 0..MaxItems]

InitValidation == /\ validation = [j \in Jobs |-> [status |-> "none", total |-> 0]]
                  /\ items = [j \in Jobs |-> 0]
                  /\ instance = [w \in Workers |-> 0]

ValidationTypeOK == /\ validation \in [Jobs -> ValidationRow]
                    /\ items \in [Jobs -> 0..MaxItems]
                    /\ instance \in [Workers -> 0..MaxItems]

SubmitValidation(j) ==
    /\ CommitSubmission(j)
    /\ validation' = [validation EXCEPT ![j].status = "pending"]
    /\ UNCHANGED <<items, instance>>

StartValidation(w, m) ==
    /\ Take(w, m, "validating")
    /\ validation' = [validation EXCEPT ![m[1]].status = "processing"]
    /\ instance' = [instance EXCEPT ![w] = validation[m[1]].total]
    /\ UNCHANGED items

\* The page is fetched and validated; the transaction deletes the items of the
\* job, inserts n of them and sets the counts on the instance: not committed.
ReplaceItems(w, n) ==
    /\ Working(w, "validating")
    /\ instance' = [instance EXCEPT ![w] = n]
    /\ Continue(w, "replacing")
    /\ UNCHANGED <<validation, items>>

\* Mutant: the items of an earlier delivery stay.
CommitItemsAdded(w) ==
    /\ Working(w, "replacing")
    /\ items' = [items EXCEPT ![JobOf(w)] = @ + instance[w]]
    /\ validation' = [validation EXCEPT ![JobOf(w)] =
                         [status |-> "completed", total |-> instance[w]]]
    /\ instance' = [instance EXCEPT ![w] = 0]
    /\ Continue(w, "finished")

\* job.save() and COMMIT: items and counts appear together.
CommitItems(w) ==
    /\ Working(w, "replacing")
    /\ items' = [items EXCEPT ![JobOf(w)] = instance[w]]
    /\ validation' = [validation EXCEPT ![JobOf(w)] =
                         [status |-> "completed", total |-> instance[w]]]
    /\ instance' = [instance EXCEPT ![w] = 0]
    /\ Continue(w, "finished")

ValidationPlaces == {"validating", "replacing"}

\* The fetch, the rules or the transaction raise.  What it wrote is rolled back;
\* the counts stay on the instance, and the save names only the outcome.
ValidationFails(w) ==
    /\ \E place \in ValidationPlaces : Working(w, place)
    /\ validation' = [validation EXCEPT ![JobOf(w)].status = "failed"]
    /\ instance' = [instance EXCEPT ![w] = 0]
    /\ Continue(w, "finished")
    /\ UNCHANGED items

\* The database refuses that write as well.
ValidationRaises(w) ==
    /\ \E place \in ValidationPlaces : Working(w, place)
    /\ Raise(w)
    /\ instance' = [instance EXCEPT ![w] = 0]
    /\ UNCHANGED <<validation, items>>

ValidationStep(w) == \/ \E n \in 0..MaxItems : ReplaceItems(w, n)
                     \/ CommitItems(w) \/ ValidationFails(w) \/ ValidationRaises(w)

-----------------------------------------------------------------------------
\* The counts on the job are those of the items kept, whatever deliveries
\* before it failed, died or were rolled back (validation_service.py, "Replace
\* any prior results (safe on re-run)").
ResultsMatchJob == \A j \in Jobs : validation[j].total = items[j]
=============================================================================
