--------------------------- MODULE MCMockService ---------------------------
(* MockService on small instances. *)
EXTENDS MockService, TLC

\* Requests, ids and addresses are interchangeable.
Symmetry == Permutations(Req) \cup Permutations(MockId)

-----------------------------------------------------------------------------
(* The owner's side alone, without readers and traffic, so that several slugs  *)
(* fit in one instance.                                                        *)

OwnerStep(p) ==
    \/ \E slug \in Slug \cup {NoSlug}, ip \in Ip, ttl \in TTL :
          CreateCount(p, slug, ip, ttl, FALSE)
    \/ CreateName(p)
    \/ CreateInsert(p)
    \/ \E slug \in Slug, token \in MockId, ttl \in TTL : UpdateRead(p, slug, token, ttl, FALSE)
    \/ UpdateWrite(p)
    \/ \E slug \in Slug, token \in MockId : ExtendRead(p, slug, token)
    \/ ExtendWrite(p)
    \/ \E slug \in Slug, token \in MockId : DeleteRead(p, slug, token)
    \/ DeleteWrite(p)
    \/ Abort(p)

OwnerNext == (\E p \in Req : OwnerStep(p)) \/ DeleteExpired \/ Tick

OwnerSpec == Init /\ [][OwnerNext]_vars /\ WF_vars(DeleteExpired)
=============================================================================
