------------------------------ MODULE BuildPlan ------------------------------
(***************************************************************************)
(* From Move.toml and the command line to the named addresses a package is *)
(* compiled with (nexus-move-package lib.rs and build.rs): the line parser *)
(* inspect_move_toml, parse_named_address_assignments, the default for     *)
(* std, merged_named_addresses, and the map the compiler makes of the      *)
(* list it is handed.                                                      *)
(*                                                                         *)
(* Move.toml is a sequence of lines chosen as it is read, the command line *)
(* a sequence of assignments.  TOML has no table and no key of a table     *)
(* twice, but the parser does not look: either can come again.             *)
(***************************************************************************)
EXTENDS Naturals, Sequences

CONSTANTS
    Names, Std,          \* named addresses, "std" among them
    Addrs, StdAddr,      \* addresses that parse; 0x1
    Bad,                 \* a value that is no address, "_" among them
    None,
    PolicyValues,        \* values written for upgrade_policy
    MaxLines, MaxCli     \* bounds: lines of Move.toml, assignments

BuildPlanAssumption ==
    /\ Std \in Names /\ StdAddr \in Addrs
    /\ Bad \notin Addrs /\ None \notin Addrs
    /\ MaxLines \in Nat /\ MaxCli \in Nat

Tables == {"package", "addresses", "dev-addresses"}
Values == Addrs \cup {Bad}
Line == [table : Tables \cup {"dependencies"}]
        \cup [key : Names, value : Values]
        \cup [policy : PolicyValues]

VARIABLES
    lines,       \* the lines of Move.toml read so far
    section,     \* current_section
    policy,      \* package_policy
    addresses, devAddresses,
    cli,         \* the assignments of the command line
    options,     \* BuildOptions.named_addresses: those, and std's default
    merged,      \* named_addresses of the compiled package
    next,        \* the assignment merged_named_addresses comes to next
    phase        \* "toml", "cli", "merge", "done", "err"

vars == <<lines, section, policy, addresses, devAddresses, cli, options, merged, next, phase>>

Init ==
    /\ lines = <<>> /\ section = "" /\ policy = "Immutable"
    /\ addresses = <<>> /\ devAddresses = <<>>
    /\ cli = <<>> /\ options = <<>> /\ merged = <<>> /\ next = 1
    /\ phase = "toml"

-----------------------------------------------------------------------------
(* inspect_move_toml                                                       *)

\* The table the k-th line stands in, and the pairs of a table in file order.
IsHeader(k) == "table" \in DOMAIN lines[k]
TableAt(k) ==
    LET above == {j \in 1..k : IsHeader(j)} IN
    IF above = {} THEN "" ELSE lines[CHOOSE j \in above : \A i \in above : i <= j].table

\* push_named_address
PushNamedAddress(list, line) ==
    IF line.value \in Addrs THEN Append(list, [name |-> line.key, address |-> line.value])
    ELSE list

\* The match on the value of upgrade_policy.
PolicyOf(value) ==
    CASE value = "compatible"                        -> "Compatible"
      [] value \in {"governance", "governance_only"} -> "GovernanceOnly"
      [] OTHER                                       -> "Immutable"

\* One turn of the loop; a line of any other form, and a pair of any other
\* table, is skipped.
ReadLine(line) ==
    /\ phase = "toml" /\ Len(lines) < MaxLines
    /\ lines' = Append(lines, line)
    /\ section' = IF "table" \in DOMAIN line THEN line.table ELSE section
    /\ policy' = IF "policy" \in DOMAIN line /\ section = "package"
                 THEN PolicyOf(line.policy) ELSE policy
    /\ addresses' = IF "key" \in DOMAIN line /\ section = "addresses"
                    THEN PushNamedAddress(addresses, line) ELSE addresses
    /\ devAddresses' = IF "key" \in DOMAIN line /\ section = "dev-addresses"
                       THEN PushNamedAddress(devAddresses, line) ELSE devAddresses
    /\ UNCHANGED <<cli, options, merged, next, phase>>

\* MoveTomlInfo.named_addresses: the dev table, if it assigns anything at all.
TomlAddresses == IF devAddresses = <<>> THEN addresses ELSE devAddresses

EndOfToml ==
    /\ phase = "toml"
    /\ phase' = "cli"
    /\ UNCHANGED <<lines, section, policy, addresses, devAddresses, cli, options, merged, next>>

-----------------------------------------------------------------------------
(* The command line and build_package's options.                           *)

\* parse_named_address_assignment; the first that fails fails them all.
ParseAssignment(n, v) ==
    /\ phase = "cli" /\ Len(cli) < MaxCli
    /\ IF v \in Addrs
       THEN cli' = Append(cli, [name |-> n, address |-> v]) /\ UNCHANGED phase
       ELSE phase' = "err" /\ UNCHANGED cli
    /\ UNCHANGED <<lines, section, policy, addresses, devAddresses, options, merged, next>>

Assigns(list, n) == \E k \in DOMAIN list : list[k].name = n

\* Mutant: only the command line is asked.
HasStdOnCli == Assigns(cli, Std)

HasStd == Assigns(cli, Std) \/ Assigns(TomlAddresses, Std)

\* std = 0x1 is added to the options; make_build_plan follows.
StartMerge ==
    /\ phase = "cli"
    /\ options' = IF HasStd THEN cli ELSE Append(cli, [name |-> Std, address |-> StdAddr])
    /\ merged' = TomlAddresses
    /\ phase' = "merge"
    /\ UNCHANGED <<lines, section, policy, addresses, devAddresses, cli, next>>

\* The body of merged_named_addresses' loop: find takes the first match.
Put(list, a) ==
    IF Assigns(list, a.name)
    THEN LET first == CHOOSE k \in DOMAIN list :
                         list[k].name = a.name /\ \A j \in 1..(k-1) : list[j].name # a.name
         IN [list EXCEPT ![first] = a]
    ELSE Append(list, a)

MergeOverride ==
    /\ phase = "merge" /\ next <= Len(options)
    /\ merged' = Put(merged, options[next])
    /\ next' = next + 1
    /\ UNCHANGED <<lines, section, policy, addresses, devAddresses, cli, options, phase>>

EndMerge ==
    /\ phase = "merge" /\ next > Len(options)
    /\ phase' = "done"
    /\ UNCHANGED <<lines, section, policy, addresses, devAddresses, cli, options, merged, next>>

Next ==
    \/ \E line \in Line : ReadLine(line)
    \/ EndOfToml
    \/ \E n \in Names, v \in Values : ParseAssignment(n, v)
    \/ StartMerge
    \/ MergeOverride
    \/ EndMerge

Spec == Init /\ [][Next]_vars

\* parse_addresses_from_options of the compiler: a map, later entries replacing.
LastAddress(list, n) ==
    IF Assigns(list, n)
    THEN list[CHOOSE k \in DOMAIN list :
                 list[k].name = n /\ \A j \in DOMAIN list : list[j].name = n => j <= k].address
    ELSE None

-----------------------------------------------------------------------------
(* Properties.                                                             *)

\* What Move.toml says, read as a whole: the lines of a table that give n an
\* address, and the last of these addresses.
WritingLines(table, n) ==
    {k \in DOMAIN lines : /\ TableAt(k) = table /\ "key" \in DOMAIN lines[k]
                          /\ lines[k].key = n /\ lines[k].value \in Addrs}
WrittenTwice(table, n) == \E j, k \in WritingLines(table, n) : j # k
WrittenIn(table, n) ==
    LET at == WritingLines(table, n) IN
    IF at = {} THEN None ELSE lines[CHOOSE k \in at : \A j \in at : j <= k].value

UsedTable ==
    IF \E n \in Names : WrittenIn("dev-addresses", n) # None
    THEN "dev-addresses" ELSE "addresses"

\* Every named address the compiler resolves is the one the developer wrote:
\* the last assignment of the command line, else Move.toml's, from
\* [dev-addresses] whenever that table assigns an address and from [addresses]
\* otherwise, else 0x1 for std (build.rs:40, merged_named_addresses).  But a
\* name its table gives an address twice keeps the last of them whatever the
\* command line says: an override takes the place of the first, and the
\* compiler reads the last.  Only such a name is listed twice in the package
\* metadata.  The upgrade policy is the last one written in [package].
CompiledAsWritten ==
    phase = "done" =>
        /\ LET at == {k \in DOMAIN lines : "policy" \in DOMAIN lines[k]
                                           /\ TableAt(k) = "package"}
           IN policy = IF at = {} THEN "Immutable"
                       ELSE PolicyOf(lines[CHOOSE k \in at : \A j \in at : j <= k].policy)
        /\ \A n \in Names :
            LastAddress(merged, n) =
                IF LastAddress(cli, n) # None /\ ~WrittenTwice(UsedTable, n)
                THEN LastAddress(cli, n)
                ELSE IF WrittenIn(UsedTable, n) # None THEN WrittenIn(UsedTable, n)
                ELSE IF n = Std THEN StdAddr ELSE None
        /\ \A j, k \in DOMAIN merged :
            merged[j].name = merged[k].name => j = k \/ WrittenTwice(UsedTable, merged[j].name)

=============================================================================
