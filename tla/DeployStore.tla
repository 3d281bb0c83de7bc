---------------------------- MODULE DeployStore ----------------------------
(***************************************************************************)
(* The deploys table of central/db.py.  A row keeps the columns that       *)
(* control what happens next: the status, the spec (as its generation: 1   *)
(* when created, a new number for every redeploy), the port and the        *)
(* endpoint (as the port it points at).  The other columns are payload.    *)
(***************************************************************************)
EXTENDS SpecRecord

VARIABLE
  rows          \* DeployIds -> Row

Statuses == {"pending", "checking", "provisioning", "healthy", "failed",
             "destroying", "redeploying"}

Row == [status   : Statuses \cup {"absent"},
        gen      : Gens \cup {0},
        port     : PortRange \cup {NoPort},
        endpoint : PortRange \cup {NoPort}]

\* What store.get returns for an id with no row: None.
Absent == [status |-> "absent", gen |-> 0, port |-> NoPort, endpoint |-> NoPort]

Exists(d) == rows[d].status # "absent"

\* taken_ports: allocated, or hashed for a row whose port column is NULL.
taken_ports(exclude) ==
  {deploy_port(e, rows[e].port) : e \in {x \in DeployIds \ exclude : Exists(x)}}

\* Where a (re)deploy goes: the port it has, else the lowest free one.  Its
\* mutant allocates on every redeploy.
FreshPort(d) == first_free(taken_ports({}))
PortFor(d) == IF in_range(rows[d].port) THEN rows[d].port
              ELSE first_free(taken_ports({d}))

\* Mutant of Conflicts: no UNIQUE index.
NoIndex(d, row) == FALSE

\* The UNIQUE index on the port column: IntegrityError.
Conflicts(d, row) ==
  /\ row.port # NoPort
  /\ \E e \in DeployIds \ {d} : Exists(e) /\ rows[e].port = row.port

\* INSERT ... ON CONFLICT(id) DO UPDATE: update() and create() both end here,
\* so updating a row that is gone inserts it again.
upsert(d, row) ==
  rows' = IF Conflicts(d, row) THEN rows ELSE [rows EXCEPT ![d] = row]

delete(d) == rows' = [rows EXCEPT ![d] = Absent]
=============================================================================
