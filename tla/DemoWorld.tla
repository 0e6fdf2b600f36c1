------------------------------ MODULE DemoWorld ------------------------------
(***************************************************************************)
(* The seed that DemoState._init_state (demo_adapter/state.py) writes down  *)
(* before it generates events and incidents: sites, capabilities,          *)
(* resources, storage locations, access endpoints, projects and their      *)
(* allocations.  Amounts, dates and descriptions are left out.             *)
(***************************************************************************)
EXTENDS SequencesExt, Lists

\* An id is computed from a kind and a name, and never the same for two pairs.
demo_uuid(kind, name) == <<kind, name>>

DEMO_USER == "gtorok"

-----------------------------------------------------------------------------

SiteNames   == <<"demo_site_1", "demo_site_2">>
CapabilityNames == <<"cpu", "gpu", "hpss", "gpfs">>

\* name is one word for r.name, which events are about, and for the name in the id.
Resource(name, site, caps, type) ==
  [id |-> demo_uuid("resource", name), name |-> name, resource_type |-> type,
   site_id |-> demo_uuid("site", site),
   capability_ids |-> [n \in DOMAIN caps |-> demo_uuid("capability", caps[n])]]

resources ==
  <<Resource("perlmutter", "demo_site_1", <<"cpu", "gpu">>, "compute"),
    Resource("hpss",       "demo_site_1", <<"hpss">>,       "storage_system"),
    Resource("cfs",        "demo_site_1", <<"gpfs">>,       "storage_system"),
    Resource("login",      "demo_site_2", <<>>,             "system"),
    Resource("iris",       "demo_site_2", <<>>,             "website"),
    Resource("sfapi",      "demo_site_2", <<>>,             "service")>>

capabilities == [n \in DOMAIN CapabilityNames |-> demo_uuid("capability", CapabilityNames[n])]

Ids(list) == [n \in DOMAIN list |-> list[n].id]

\* Mutant of SiteResources: looks at the kind of the resource, not at its site.
SiteResourcesByType(site) ==
  Ids(SelectSeq(resources, LAMBDA r : (r.resource_type \in {"compute", "storage_system", "system"})
                                        <=> site = demo_uuid("site", "demo_site_1")))

\* The loop that fills in resource_ids once the resources are there.
SiteResources(site) ==
  Ids(Keep(resources, {n \in DOMAIN resources : resources[n].site_id = site}))

sites == [n \in DOMAIN SiteNames |->
            LET id == demo_uuid("site", SiteNames[n])
            IN [id |-> id, resource_ids |-> SiteResources(id)]]

facility == [id |-> demo_uuid("facility", "demo_facility"), site_ids |-> Ids(sites)]

-----------------------------------------------------------------------------

\* A path template; scoped: it contains {project}.
Template(name, path, scoped, write) ==
  [logical_name |-> name, path |-> path, scoped |-> scoped, write |-> write]

ro == FALSE
rw == TRUE
Everywhere(home) ==
  <<Template("home",     "homes",       FALSE, home),
    Template("scratch",  "pscratch",    FALSE, rw),
    Template("project",  "projectdirs", TRUE,  rw),
    Template("campaign", "campaign",    TRUE,  rw)>>

InJob  == Everywhere(ro)
OnTape == <<Template("archive", "hpss_home", FALSE, rw)>>
OnDisk == Everywhere(rw) \o <<Template("shared", "shared", TRUE, ro),
                              Template("temporary", "tmp", FALSE, rw)>>

\* Keyed by the name of the resource; the others have no key.
locations == [perlmutter |-> InJob, hpss |-> OnTape, cfs |-> OnDisk, login |-> OnDisk]

AccessEndpoint(id, name, protocol) ==
  [id |-> <<"endpoint", id>>, resource_id |-> demo_uuid("resource", name), protocol |-> protocol]

access_endpoints ==
  [cfs  |-> <<AccessEndpoint("globus-cfs-demo", "cfs", "globus"),
              AccessEndpoint("xrootd-cfs-demo", "cfs", "xrootd"),
              AccessEndpoint("s3-cfs-demo",     "cfs", "s3")>>,
   hpss |-> <<AccessEndpoint("globus-hpss-demo", "hpss", "globus")>>]

-----------------------------------------------------------------------------

projects ==
  <<[id |-> demo_uuid("project", "staff_research"), name |-> "Staff research project",
     user_ids |-> {DEMO_USER}],
    [id |-> demo_uuid("project", "test_project"), name |-> "Test project",
     user_ids |-> {DEMO_USER}]>>

\* One allocation of each project for each capability, in this order, and in it
\* one of the user.
ProjectAllocation(project, capability) ==
  [id |-> demo_uuid("project_allocation", <<project, capability>>),
   project_id |-> project, capability_id |-> capability]

project_allocations ==
  FlattenSeq([n \in DOMAIN projects |->
                [m \in DOMAIN capabilities |-> ProjectAllocation(projects[n].id, capabilities[m])]])

user_allocations ==
  [n \in DOMAIN project_allocations |->
     LET pa == project_allocations[n]
     IN [id |-> demo_uuid("user_allocation", <<pa.id, DEMO_USER>>),
         project_id |-> pa.project_id, project_allocation_id |-> pa.id, user_id |-> DEMO_USER]]
=============================================================================
