------------------------- MODULE MCLicenseLifetime --------------------------
(***************************************************************************)
(* Licenses of all three types with every combination of present and       *)
(* absent bounds, well formed or not, issued inside and outside the window *)
(* of the key; builds on both sides of every version bound; a device that  *)
(* is the bound one, another one, or none; callers that name no product,   *)
(* of a Manager that allows it or not.                                     *)
(* A perpetual license under version strings around every boundary of      *)
(* their syntax: numbers at and beyond the largest uint64 (2 here), a core *)
(* of two parts, leading zeros, a trailing '-', as many identifiers as fit *)
(* and one more, bad metadata, a string that is too long.                  *)
(* And a perpetual license bound to machines of each platform, whose       *)
(* sources show nothing, junk, or one of two identifiers, one of them in   *)
(* two spellings.                                                          *)
(***************************************************************************)
EXTENDS LicenseLifetime

CONSTANTS d1, d2, K, L1, P1, P2, N1, N2, S1, junk, A, B

Config == [licenseId |-> L1, productId |-> P1, edition |-> TRUE,
           licenseType |-> "lifetime", mode |-> Nil, deviceIds |-> <<>>,
           capped |-> TRUE, limitsInRange |-> TRUE, compact |-> TRUE,
           notBefore |-> Nil, expiresAt |-> Nil, graceDays |-> 0,
           minVersion |-> Nil, maxVersion |-> Nil,
           maintenanceUntil |-> Nil, coveredMaxVersion |-> Nil]

Plain == toRequest(Config)

Custom(d) == Opaque(N1, d)

Fp(version, algorithm, digest, hex) ==
    [family |-> "fp", version |-> version, algorithm |-> algorithm,
     digest |-> digest, hex |-> hex]

Ids ==
    {Custom(d2), Opaque(Nil, d2), Opaque(N1, Nil), [family |-> "other"],
     Fp(2, "sha256", d2, TRUE), Fp(3, "sha256", d2, TRUE),
     Fp(Nil, "sha256", d2, TRUE), Fp(1, Nil, d2, TRUE), Fp(1, "md5", d2, TRUE),
     Fp(1, "hmac-sha256", Nil, TRUE), Fp(1, "sha256", d2, FALSE)}

InTime ==
    {[Plain EXCEPT !.licenseType = ty, !.notBefore = nb, !.expiresAt = ex,
                   !.graceDays = g, !.mode = m, !.deviceIds = ds] :
        ty \in LicenseTypes, nb \in {Nil, 2, 3}, ex \in {Nil, 2, 4, 5},
        g \in {0, 1, 2}, m \in {"none", "single"}, ds \in {<<>>, <<Custom(d1)>>}}

-----------------------------------------------------------------------------
Numeral(n) == [value |-> n, wellFormed |-> TRUE]
Num(n) == [digits |-> TRUE, value |-> n, wellFormed |-> TRUE]
Alpha(k) == [digits |-> FALSE, value |-> k, wellFormed |-> TRUE]
LeadingZero(n) == [Num(n) EXCEPT !.wellFormed = FALSE]

Version(major, minor, patch, pre) ==
    [core |-> <<Numeral(major), Numeral(minor), Numeral(patch)>>,
     pre |-> pre, build |-> TRUE, short |-> TRUE]

V(n) == Version(0, 0, n, Nil)
Bad == [V(1) EXCEPT !.core = <<Numeral(1), Numeral(0)>>]

Prereleases ==
    {Version(1, 0, 0, <<id>>) :
        id \in {Num(0), Num(2), Num(3), Num(4), Alpha(0), Alpha(1)}}
    \cup {Version(1, 0, 0, <<Num(2), id>>) : id \in {Num(0), Num(3), Alpha(0)}}
    \cup {Version(1, 0, 0, <<Alpha(0), id>>) : id \in {Num(1), Alpha(1)}}

Releases ==
    {Version(1, 0, 0, Nil), Version(0, 2, 2, Nil), Version(0, 1, 2, Nil),
     Version(1, 0, 2, Nil), Version(1, 1, 0, <<Alpha(0)>>)}

Malformed ==
    {Bad, Version(1, 0, 3, Nil), Version(1, 0, 0, <<>>),
     Version(1, 0, 0, <<LeadingZero(1)>>),
     Version(1, 0, 0, <<Num(0), Num(0), Num(0)>>),
     [Version(1, 0, 0, Nil) EXCEPT !.core[3].wellFormed = FALSE],
     [Version(1, 0, 0, Nil) EXCEPT !.build = FALSE],
     [Version(1, 0, 0, Nil) EXCEPT !.short = FALSE]}

Bounds ==
    {Version(1, 0, 0, Nil), Version(0, 2, 2, Nil), Version(1, 0, 0, <<Num(2)>>),
     Version(1, 0, 0, <<Num(3)>>), Version(1, 0, 0, <<Alpha(0)>>),
     Version(1, 0, 0, <<Num(2), Alpha(0)>>), Version(1, 0, 0, <<Num(0)>>),
     Version(1, 0, 0, <<>>)}

InVersions ==
    {[Plain EXCEPT !.licenseType = term[1], !.expiresAt = term[2],
                   !.graceDays = term[3],
                   !.minVersion = mn, !.maxVersion = mx,
                   !.maintenanceUntil = mu, !.coveredMaxVersion = cv] :
        term \in {<<"subscription", 5, 0>>, <<"subscription", 5, 1>>,
                  <<"lifetime", Nil, 0>>},
        mn \in {Nil, V(1), V(2)}, mx \in {Nil, V(2), Bad},
        mu \in {Nil, 3}, cv \in {Nil, V(1), V(2), Bad}}

InSyntax ==
    {[Plain EXCEPT !.minVersion = v] : v \in Bounds}
    \cup {[Plain EXCEPT !.maxVersion = v] : v \in Bounds}
    \cup {[Plain EXCEPT !.coveredMaxVersion = v, !.maintenanceUntil = 2] : v \in Bounds}

-----------------------------------------------------------------------------
Bare == [product |-> P1, version |-> Nil, device |-> Nil, revoked |-> {},
         skew |-> 0]

OnDevices ==
    {[Bare EXCEPT !.device = d, !.skew = s] :
        d \in {Nil, Custom(d1), Custom(d2)}, s \in {0, 2}}

Elsewhere ==
    {[Bare EXCEPT !.device = Custom(d1), !.product = pr, !.revoked = r] :
        pr \in {P1, P2}, r \in {{}, {L1}}}

NoProduct == [Bare EXCEPT !.product = Nil]

Running(v) == [Bare EXCEPT !.version = v]

MCRing == K :> [sized |-> TRUE, enabled |-> TRUE, revoked |-> FALSE, notBefore |-> 1, notAfter |-> 4]

Case(requests, route, clocks, contexts, available, end) ==
    [request : requests, through : route, clock : clocks, context : contexts,
     builds : {available}, app : {Nil}, bound : {Nil}, home : {Nil},
     shows : {{}}, until : {end}, unscopedProduct : {FALSE}]

Unscoped(cases) == {[c EXCEPT !.unscopedProduct = TRUE] : c \in cases}

-----------------------------------------------------------------------------
Reading(id, spelling) == [id |-> id, spelling |-> spelling]

Readings == {Nil, Reading(junk, 0), Reading(A, 0), Reading(A, 1), Reading(B, 0)}

Machine(platform, reads) == [platform |-> platform, reads |-> reads]

Linux(etc, dbus, board, product) ==
    Machine("linux", "/etc/machine-id" :> etc @@ "/var/lib/dbus/machine-id" :> dbus
                     @@ "board_serial" :> board @@ "product_uuid" :> product)

Homes ==
    LET a == Reading(A, 0)  b == Reading(B, 0)  j == Reading(junk, 0) IN
    {Linux(a, a, a, a), Linux(Nil, b, a, Nil), Linux(j, a, b, a),
     Linux(Nil, Nil, a, b), Linux(Nil, Nil, a, j), Linux(j, Nil, j, j)}
    \cup {Machine("darwin", "IOPlatformUUID" :> r) : r \in {a, j}}
    \cup {Machine("windows", "MachineGuid" :> r) : r \in {b, j}}

App(namespace, version, key) ==
    [namespace |-> namespace, version |-> version, key |-> key]

Apps == {<<App(N1, 1, Nil), App(N1, 1, Nil)>>, <<App(N1, 2, Nil), App(N1, 2, Nil)>>,
         <<App(N1, 2, S1), App(N1, 2, S1)>>, <<App(N1, 2, Nil), App(N1, 1, Nil)>>,
         <<App(N1, 2, Nil), App(N1, 2, S1)>>, <<App(N1, 2, Nil), App(N2, 2, Nil)>>}

OnHardware(home, then, thereafter) ==
    [request |-> [Plain EXCEPT !.mode = "single", !.licenseId = Nil,
                               !.deviceIds = <<DeviceId(then, home)>>],
     through |-> "Issue", clock |-> 1, context |-> Bare, builds |-> {},
     app |-> thereafter, bound |-> then, home |-> home, shows |-> Readings,
     until |-> 0, unscopedProduct |-> FALSE]

Bindings ==
    {OnHardware(home, apps[1], apps[2]) :
        <<home, apps>> \in {x \in Homes \X Apps : DeviceId(x[2][1], x[1]) # Nil}}

-----------------------------------------------------------------------------
Issued == {"Issue"}
Foreign == {"SignLicenseBytes"}

OnMany(d) == [Plain EXCEPT !.mode = "multi", !.deviceIds = <<Custom(d1), d>>]

Odd ==
    {[Plain EXCEPT !.compact = FALSE], [Plain EXCEPT !.mode = Nil],
     [Plain EXCEPT !.issuedAt = 3], [Plain EXCEPT !.productId = Nil],
     [Plain EXCEPT !.licenseId = Nil]}

MCCases ==
    Case(InTime, Issued, {2}, OnDevices \cup Elsewhere, {}, 12)
    \cup Case(InTime, Foreign, {2}, {Bare, [Bare EXCEPT !.skew = 2]}, {}, 12)
    \cup Case(InTime, Issued, {0, 5}, {Bare}, {}, 12)
    \cup Case(Odd \cup {OnMany(d) : d \in Ids}, Issued \cup Foreign, {2}, OnDevices, {}, 4)
    \cup Case(InVersions, Issued, {2}, {Bare}, {}, 4)
    \cup Case(InVersions, Issued, {2}, {Running(V(1))}, {V(1), V(2), V(3), Bad}, 9)
    \cup Case(InSyntax, Issued, {2}, {Running(Version(1, 0, 0, Nil))},
              Prereleases \cup Releases \cup Malformed, 4)
    \cup Case({Plain} \cup Odd, Issued \cup Foreign, {2}, {NoProduct}, {}, 4)
    \cup Unscoped(Case({Plain} \cup Odd, Issued \cup Foreign, {2}, {Bare, NoProduct},
                       {}, 4))
    \cup Bindings
=============================================================================
