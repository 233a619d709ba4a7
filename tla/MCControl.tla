-------------------------------- MODULE MCControl --------------------------------
(* Instances of Control for TLC. *)
EXTENDS ControlProperties

CONSTANTS r1, r2, b1, h1, mo1, mo2, e1, po1, po2, ao1, ao2, pid1, pid2, g1, g2

MCEndpoints == [port: Ports, host: Hosts, gateway: Gateways]

RawOf(policy, wellFormed) ==
  [run |-> r1, sha |-> <<policy, wellFormed>>, branch |-> b1, baseline |-> h1,
   policy |-> policy, model |-> mo1, effort |-> e1, wellFormed |-> wellFormed]

MCRawSpecs == {RawOf("unset", TRUE), RawOf("allow_dirty_recorded", TRUE), RawOf("odd", TRUE),
               RawOf("unset", FALSE)}
MCShas == {raw.sha : raw \in MCRawSpecs}
MCSpecs == {Parse(raw) : raw \in {r \in MCRawSpecs : Accepted(r)}}

Input(flag, env, runFile, gateway) ==
  [flag |-> flag, env |-> env, runFile |-> runFile, gateway |-> gateway]

Plain(url) == [text |-> url, blanks |-> FALSE]
Padded(url) == [text |-> url, blanks |-> TRUE]

\* Each source in front of the next one.
MCTried ==
  {Input(po1, po2, TRUE, Plain("invalid")), Input("invalid", po1, TRUE, Unset),
   Input("unset", po2, TRUE, Plain(g2)), Input("unset", "unset", TRUE, Padded(g2)),
   Input("unset", "unset", FALSE, Unset)}

\* A gateway URL with blanks around it and without, nothing but blanks, or none.
MCTyped ==
  {Input(po1, "unset", FALSE, Plain(g2))}
    \cup {Input("unset", "unset", FALSE, gateway) :
            gateway \in {Unset, Plain(g2), Padded(g2), Padded("")}}

Entry(pid, port) == [pid |-> pid, port |-> port]

Machine(port2, dev, main) ==
  [serves |-> [n \in Ports |-> IF n = po1 THEN ao1 ELSE port2],
   files |-> [f \in RunFiles |-> CASE f = "env" -> Entry(pid1, po1) [] f = "dev" -> dev [] f = "main" -> main],
   alive |-> Pids, gateways |-> [g \in Gateways |-> "up"]]

\* One daemon, or two.
MCMachines ==
  {Machine("silent", Entry(pid1, po1), Absent), Machine(ao2, Entry(pid1, po1), Entry(pid2, po2))}

Ready ==
  {[session |-> [x \in Sessions |-> [branch |-> b1, model |-> mo1, live |-> TRUE]],
    settings |-> [x \in Sessions |-> [model |-> mo1, effort |-> e1]],
    catalog |-> Models,
    trees |-> [t \in Places |-> [branch |-> IF t = "workspace" THEN b1 ELSE NoBranch,
                                 head |-> h1]],
    rootClean |-> TRUE, edits |-> {}, leases |-> [r \in Runs |-> "FREE"]]}
=============================================================================
