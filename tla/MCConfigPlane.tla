----------------------------- MODULE MCConfigPlane -----------------------------
(* Requests and instances of ConfigPlane for TLC. *)
EXTENDS ConfigPlane

Request(op, key) ==
    [op |-> op, key |-> key, dep |-> None, from |-> None, val |-> None, list |-> <<>>, allowed |-> TRUE]

Deployment(key, services) == [Request("register_deployment", key) EXCEPT !.list = services]
Namespace(dep, key) == [Request("register_id_namespace", key) EXCEPT !.dep = dep]
Parameters(from) == Request("create_parameter_version", from)
License(dep, from) == [Request("declare_license", dep) EXCEPT !.dep = dep, !.from = from]
Licensed(dep, from, refs) == [License(dep, from) EXCEPT !.list = refs]
Update(dep, fields) == [Request("update_deployment", None) EXCEPT !.dep = dep, !.val = fields]
Change(deps) == [Request("declare_change_event", None) EXCEPT !.list = deps]
Correction(deps) == [Change(deps) EXCEPT !.val = "supersedes"]
Roster(entries) == [Request("upsert_roster", None) EXCEPT !.list = entries]
Entry(user, kind, identifiers) == [user |-> user, kind |-> kind, identifiers |-> identifiers]

Denied(r) == [r EXCEPT !.allowed = FALSE]

Registered == {Row(1, "deployments", "d1", None, None, None)}

\* A deployment that is registered twice while its service account is declared.
Onboarding ==
    {Deployment("d2", <<"svc">>), Deployment(None, <<"svc", "svc">>), Namespace("d2", "user_ref of d2"), Namespace(None, "user_ref"),
     Roster(<<Entry("svc", "service", <<>>)>>)}

\* Declarations by natural key, and by a key that is never looked up; an empty
\* roster.
Declarations ==
    {Request("create_webhook", "w"), Request("delete_webhook", None),
     Request("create_mapping_contract", "s.v1"), Request("register_label_schema", "q"),
     Roster(<<>>)}

\* Rates, the current license, and who may touch them.
Terms ==
    {Parameters("january"), Parameters("july"), Denied(Parameters("july")), License("d1", 4), License("d1", 5)}

Upkeep ==
    {Licensed("d1", 5, <<"u1", "u1">>), Denied(License("d1", 4)), Update("d1", {"name"}), Update("d1", {"type"}),
     Update("d9", {"name", "type"})}

\* Corrections of one change, for a deployment, an unknown one, one without a
\* grant, and one twice.
Corrections ==
    {Change(<<>>), Correction(<<"d1">>), Correction(<<"d9">>), Denied(Change(<<"d1">>)),
     Change(<<"d1", "d1">>)}

\* Batches that claim the same identifiers in opposite order; one of them has
\* an entry that the database refuses.
Rosters ==
    {Roster(<<Entry("u1", "person", <<"i1", "i2">>)>>),
     Roster(<<Entry("u2", "person", <<"i2", "i1">>), Entry("u1", "shared", <<"i3">>)>>),
     Roster(<<Entry("u3", "person", <<"i3", "i2">>), Entry("u4", "unknown", <<>>)>>)}

All == {Onboarding, Declarations, Terms, Upkeep, Corrections, Rosters}
===============================================================================
