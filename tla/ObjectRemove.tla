---------------------------- MODULE ObjectRemove -----------------------------
(***************************************************************************)
(* Removing a path on S3, Azure and GCS, which have no paths: the objects  *)
(* below it are listed page by page and deleted while the next page is     *)
(* already asked for.  A request may be served when its answer is lost and *)
(* is then served again; a delete may be refused.                          *)
(***************************************************************************)
EXTENDS Naturals, Sequences, SequencesExt, FiniteSets

CONSTANTS
    Object,         \* names, in the order of the listing
    Sibling,        \* names that begin with the name of the path but are not below it
    Elsewhere,      \* other names
    PageSize,       \* names in a page of a listing
    DeleteMax,      \* names in a delete request of S3
    MaxServed       \* how often a request is served

VARIABLES
    rmDriver,
    bucket,         \* the objects there are
    rmpc,
    list,           \* the list request
    page,           \* the names of the page that have not been passed to the callback
    xml,            \* the names gathered for the next delete request
    delete          \* the delete request

removeVars == <<rmDriver, bucket, rmpc, list, page, xml, delete>>

NoToken == 0
EmptyToken == Cardinality(Object) + 1

RemoveInit ==
    /\ rmDriver \in {"s3", "azure", "gcs"}
    /\ bucket \in SUBSET Object
    /\ rmpc = "list"
    /\ list = [state |-> "sent", served |-> 0, after |-> 0, names |-> <<>>, next |-> 0]
    /\ page = <<>>
    /\ xml = {}
    /\ delete = [state |-> "none", served |-> 0, names |-> {}, error |-> FALSE]

(***************************************************************************)
(* The server: a page has the first names after the continuation token.    *)
(***************************************************************************)

\* Is a name found by the base prefix, which ends with a slash?
HasPrefix(name) == name \notin Sibling \cup Elsewhere

NamesAfter(after) == SetToSortSeq({o \in bucket : o > after /\ HasPrefix(o)}, <)

ServeList ==
    /\ list.state \in {"sent", "served"}
    /\ list.served < MaxServed
    /\ LET names == NamesAfter(list.after)
           some == SubSeq(names, 1, IF Len(names) < PageSize THEN Len(names) ELSE PageSize)
       IN  list' = [list EXCEPT !.state = "served", !.served = @ + 1, !.names = some,
                                !.next = IF Len(names) > PageSize THEN Last(some)
                                         ELSE IF rmDriver = "azure" THEN EmptyToken ELSE NoToken]
    /\ UNCHANGED <<rmDriver, bucket, rmpc, page, xml, delete>>

\* A delete removes the names, or all but one of them and says so
ServeDelete ==
    /\ delete.state \in {"sent", "served"}
    /\ delete.served < MaxServed
    /\ \E kept \in {{}} \cup {{o} : o \in delete.names} :
        /\ bucket' = bucket \ (delete.names \ kept)
        /\ delete' = [delete EXCEPT !.state = "served", !.served = @ + 1, !.error = kept # {}]
    /\ UNCHANGED <<rmDriver, rmpc, list, page, xml>>

(***************************************************************************)
(* The client.                                                             *)
(***************************************************************************)

\* The answer for a page is taken, and the next one is asked for before any
\* name of this page is passed on.  Only Azure sends a token in any case, which
\* is empty at the end.
GetPage(token) ==
    /\ rmpc = "list"
    /\ page = <<>>
    /\ list.state = "served"
    /\ page' = list.names
    /\ list' = IF token
               THEN [list EXCEPT !.state = "sent", !.served = 0, !.after = list.next]
               ELSE [list EXCEPT !.state = "none"]
    /\ UNCHANGED <<rmDriver, bucket, rmpc, xml, delete>>

ListS3 == rmDriver = "s3" /\ GetPage(list.next # NoToken)
ListAzure == rmDriver = "azure" /\ GetPage(list.next # EmptyToken)
ListGcs == rmDriver = "gcs" /\ GetPage(list.next # NoToken)

NoDelete == [state |-> "none", served |-> 0, names |-> {}, error |-> FALSE]
DeleteOf(names) == [state |-> "sent", served |-> 0, names |-> names, error |-> FALSE]

\* The answer to the delete request under way, if there is one, is checked
\* before another is sent (storageS3PathRemoveInternal())
Replace(names) ==
    /\ delete.state \in {"none", "served"}
    /\ ~delete.error
    /\ delete' = IF names = {} THEN NoDelete ELSE DeleteOf(names)

\* storageS3PathRemoveCallback(): names are gathered for one request
CallbackS3 ==
    /\ rmpc = "list" /\ rmDriver = "s3"
    /\ page # <<>>
    /\ page' = Tail(page)
    /\ LET names == xml \cup {Head(page)}
       IN  IF Cardinality(names) = DeleteMax
           THEN xml' = {} /\ Replace(names)
           ELSE xml' = names /\ UNCHANGED delete
    /\ UNCHANGED <<rmDriver, bucket, rmpc, list>>

\* storageAzurePathRemoveCallback() and storageGcsPathRemoveCallback(): a
\* request for each name
CallbackOne ==
    /\ rmpc = "list"
    /\ page # <<>>
    /\ page' = Tail(page)
    /\ Replace({Head(page)})
    /\ UNCHANGED <<rmDriver, bucket, rmpc, list, xml>>

CallbackAzure == rmDriver = "azure" /\ CallbackOne
CallbackGcs == rmDriver = "gcs" /\ CallbackOne

\* What follows the listing: the last names are deleted and the last answer is
\* checked
Listed == rmpc = "list" /\ page = <<>> /\ list.state = "none"

PathRemoveS3 ==
    /\ Listed /\ rmDriver = "s3"
    /\ Replace(xml)
    /\ xml' = {}
    /\ rmpc' = IF xml = {} THEN "done" ELSE rmpc
    /\ UNCHANGED <<rmDriver, bucket, list, page>>

PathRemoveAzureEarly ==
    /\ Listed /\ rmDriver = "azure"
    /\ rmpc' = "done"
    /\ UNCHANGED <<rmDriver, bucket, list, page, xml, delete>>

PathRemoveAzure ==
    /\ Listed /\ rmDriver = "azure"
    /\ Replace({})
    /\ rmpc' = "done"
    /\ UNCHANGED <<rmDriver, bucket, list, page, xml>>

PathRemoveGcs ==
    /\ Listed /\ rmDriver = "gcs"
    /\ Replace({})
    /\ rmpc' = "done"
    /\ UNCHANGED <<rmDriver, bucket, list, page, xml>>

\* An answer that never came, or a delete that was refused
RemoveFail ==
    /\ rmpc = "list"
    /\ list.state = "sent" \/ delete.state = "sent" \/ delete.error
    /\ rmpc' = "failed"
    /\ UNCHANGED <<rmDriver, bucket, list, page, xml, delete>>

RemoveNext ==
    \/ ServeList \/ ServeDelete
    \/ ListS3 \/ ListAzure \/ ListGcs \/ CallbackS3 \/ CallbackAzure \/ CallbackGcs \/ PathRemoveS3 \/ PathRemoveAzure \/ PathRemoveGcs \/ RemoveFail

RemoveEnd == rmpc \in {"done", "failed"}

(***************************************************************************)
(* Properties.                                                             *)
(***************************************************************************)

\* When a path was removed, no object is left below it, although objects were
\* deleted while they were listed, in requests whose answers came later
\* (storageS3PathRemove(), storageAzurePathRemove(), storageGcsPathRemove()).
NoneLeft == rmpc = "done" => bucket \subseteq Sibling \cup Elsewhere

=============================================================================
