------------------------- MODULE PartitionCatalog -------------------------
(***************************************************************************)
(* The partition templates a catalog stores for one namespace and its     *)
(* tables (data_types/src/partition_template.rs): the namespace override, *)
(* built by NamespacePartitionTemplateOverride::try_from or left None,    *)
(* and each table's override, resolved by                                 *)
(* TablePartitionTemplateOverride::try_new from the table's own request   *)
(* and the namespace's override.  The partitioner of a table iterates     *)
(* parts() of its override.  last records the last create call: what    *)
(* try_from returned to its caller, and, as an observer, what the spec    *)
(* finds wrong with the template it received.                             *)
(***************************************************************************)
EXTENDS PartitionTemplate

CONSTANTS
    Requests,   \* the protobuf templates clients may send
    Tables,     \* the tables of the namespace
    Uncreated,  \* the namespace does not exist yet
    Absent,     \* the table does not exist
    NoRequest   \* the request carries no template

VARIABLES namespace, table, last

vars == <<namespace, table, last>>

(* A create call with request req: the result try_from hands back (Ok or *)
(* the error) beside the spec's defects of req and the first of them.     *)
Call(req) ==
    IF req = NoRequest THEN [reply |-> Ok, defects |-> {}, first |-> Ok]
    ELSE [reply |-> Validate(req), defects |-> SpecDefects(req),
          first |-> SpecError(req)]

Init ==
    /\ namespace = Uncreated
    /\ table = [tb \in Tables |-> Absent]
    /\ last = Call(NoRequest)

(* A namespace is created with no template (the Default impl, an inner   *)
(* None), or with the one a client sent, through                        *)
(* NamespacePartitionTemplateOverride::try_from; an invalid template     *)
(* fails the creation and is returned to the caller.                      *)
CreateNamespace(req) ==
    /\ namespace = Uncreated
    /\ namespace' = CASE req = NoRequest   -> NoOverride
                       [] Validate(req) = Ok -> req
                       [] OTHER             -> Uncreated
    /\ last' = Call(req)
    /\ UNCHANGED table

(* TablePartitionTemplateOverride::try_new: the table's own template,    *)
(* validated, else a clone of the namespace's, else none (the default).  *)
(* An invalid custom template is an error, represented here by Absent.   *)
TryNew(custom, ns) ==
    CASE custom # NoRequest -> IF Validate(custom) = Ok THEN custom ELSE Absent
      [] ns # NoOverride    -> ns
      [] OTHER              -> NoOverride

(* A table is created in an existing namespace; when try_new fails the   *)
(* table is not created and the caller gets the error.                    *)
CreateTable(tb, custom) ==
    /\ namespace # Uncreated
    /\ table[tb] = Absent
    /\ table' = [table EXCEPT ![tb] = TryNew(custom, namespace)]
    /\ last' = Call(custom)
    /\ UNCHANGED namespace

Next ==
    \/ \E req \in Requests \cup {NoRequest} : CreateNamespace(req)
    \/ \E tb \in Tables, custom \in Requests \cup {NoRequest} :
          CreateTable(tb, custom)

Spec == Init /\ [][Next]_vars

-----------------------------------------------------------------------------
(* Wrapper::try_from accepts exactly the templates in which the spec      *)
(* finds no defect, and every error it returns to a create call names a   *)
(* defect the template really has: the per-part loop, its seen_tags set   *)
(* and the bucket range together implement the spec's whole-template      *)
(* rules.                                                                  *)
ValidationAgreesWithSpec ==
    /\ last.reply = Ok <=> last.defects = {}
    /\ last.reply # Ok => last.reply \in last.defects

(* The spec's priority (section 4.2): when a template has several defects *)
(* the create call is refused with the first of them in the spec's order. *)
ValidationErrorPriority == last.reply = last.first

(* TablePartitionTemplateOverride::len: "there must always be >0 parts"; *)
(* the partitioner of a created table iterates at least one part.        *)
TemplateHasParts ==
    \A tb \in Tables : table[tb] # Absent => Len(Parts(table[tb])) >= 1
=============================================================================
