----------------------------- MODULE AuthorityBook -----------------------------
(***************************************************************************)
(* What the authenticated context promises: the database's records grow by *)
(* whole transactions, each of which acted as one identity.  An identity   *)
(* is a credential on record or the provisioning of a tenant that was not  *)
(* there; what it records is in its own tenant, and what it grants it      *)
(* holds itself.                                                           *)
(***************************************************************************)
CONSTANTS
    None,               \* no binding: the provisioning actor
    DelegableScopes     \* scopes a credential may carry

VARIABLE book           \* the committed records

Of(kind) == {e \in book : e.kind = kind}
TenantsOnRecord == {e.tenant : e \in Of("tenant")}

\* The credential or the provisioning that i says it is.
Genuine(i) ==
    IF i.binding = None
    THEN i.tenant \notin TenantsOnRecord
    ELSE \E e \in Of("binding") :
            e.id = i.binding /\ e.tenant = i.tenant /\ e.scopes = i.scopes

Granted(e, i) == e.scopes \subseteq DelegableScopes
                 /\ (i.binding # None => e.scopes \subseteq i.scopes)

Act(i, new) ==
    /\ Genuine(i)
    /\ \A e \in new :
          /\ e.by = i
          /\ e.tenant = i.tenant
          /\ e.kind = "tenant" => i.binding = None
          /\ e.kind = "binding" => Granted(e, i) /\ \A d \in Of("binding") : d.id # e.id
          /\ e.kind = "revocation" =>
                \E d \in Of("binding") \union new : d.kind = "binding" /\ d.id = e.id /\ d.tenant = i.tenant

Next ==
    /\ book \subseteq book'
    /\ \E i \in {e.by : e \in book' \ book} : Act(i, book' \ book)
Spec == [][Next]_book

=============================================================================
