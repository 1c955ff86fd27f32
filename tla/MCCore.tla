------------------------------- MODULE MCCore -------------------------------
(* The four parts of the core.                                             *)
EXTENDS Core

VARIABLE side

MCCodecs == {<<"json", None>>, <<"octets", "modbus">>}
Typed == [type |-> "json", scheme |-> "http", form |-> TRUE, schema |-> "typed"]
MCOutputs ==
    {Typed, [Typed EXCEPT !.form = FALSE], [Typed EXCEPT !.schema = "untyped"], [Typed EXCEPT !.schema = "absent"],
     [Typed EXCEPT !.type = "octets"], [Typed EXCEPT !.type = "octets", !.scheme = "modbus"]}

Cases == INSTANCE OctetCases
MCExchanges == Cases!CasesOfCodec

F(scheme, ops, single, security, type) ==
    [scheme |-> scheme, mentions |-> {scheme}, ops |-> ops, single |-> single, security |-> security, type |-> type]

\* Its href names a resource of another scheme.
Proxied(form, scheme) == [form EXCEPT !.mentions = @ \cup {scheme}]

MCAffordances ==
    [p |-> [kind |-> "property",
            forms |-> <<F("http", {}, FALSE, <<>>, "json"),
                        F("ws", {"unobserveproperty"}, TRUE, <<>>, "json"),
                        F("ws", {"observeproperty"}, FALSE, <<>>, "json"),
                        F("http", {"observeproperty"}, FALSE, <<"key">>, "text")>>],
     q |-> [kind |-> "property", forms |-> <<F("ws", {}, FALSE, <<"login">>, "json")>>],
     e |-> [kind |-> "event",
            forms |-> <<Proxied(F("ws", {"subscribeevent"}, FALSE, <<>>, "text"), "http"),
                        F("http", {}, FALSE, <<>>, "json"),
                        F("ws", {"unsubscribeevent"}, FALSE, <<>>, "text")>>],
     n |-> [kind |-> "action", forms |-> <<>>]]

MCDefinitions ==
    [login |-> [scheme |-> "basic", parts |-> <<>>, valid |-> TRUE],
     key |-> [scheme |-> "combo", parts |-> <<"none", "key">>, valid |-> TRUE],
     bad |-> [scheme |-> "combo", parts |-> <<"key">>, valid |-> FALSE],
     none |-> [scheme |-> "nosec", parts |-> <<>>, valid |-> TRUE]]

\* The forms of http have no security of their own, or that of the Thing.
Plain == [MCAffordances EXCEPT !.p.forms[4].security = <<>>, !.q.forms[1].security = <<>>]

MCThings ==
    {[affordances |-> a, definitions |-> MCDefinitions, security |-> s] :
        a \in {MCAffordances, Plain}, s \in {<<"login">>, <<"bad">>}}
    \cup {[affordances |-> Plain, definitions |-> MCDefinitions, security |-> s] :
             s \in {<<"none", "none">>, <<"lost", "lost", "none">>}}

\* Only one of the parts does something in a behaviour.
Blank(part) ==
    /\ part # "consumed" => /\ td = CHOOSE t \in Things : TRUE
                            /\ factories = {} /\ subs = {} /\ call = NoCall
                            /\ clients = [s \in Schemes |-> None]
    /\ part # "data" => /\ output = Typed /\ arrived = 0 /\ state = "paused"
                        /\ dataUsed = FALSE /\ cached = None /\ buffer = None /\ stream = FALSE
                        /\ reader = [r \in Readers |-> Data!NewReader] /\ overlapped = FALSE
    /\ part # "codec" => exchange = None /\ wire = None /\ got = None

MCInit ==
    /\ Exposed!Init
    /\ \/ side = "consumed" /\ Init
       \/ side = "exposed"
       \/ side = "data" /\ Data!Init
       \/ side = "codec" /\ Codec!Init
    /\ Blank(side)

MCNext ==
    /\ \/ side = "consumed" /\ Next /\ UNCHANGED <<exposedVars, dataVars, codecVars>>
       \/ side = "exposed" /\ Exposed!Next /\ UNCHANGED <<vars, dataVars, codecVars>>
       \/ side = "data" /\ Data!Next /\ UNCHANGED <<vars, exposedVars, codecVars>>
       \/ side = "codec" /\ Codec!Next /\ UNCHANGED <<vars, exposedVars, dataVars>>
    /\ UNCHANGED side

MCSpec == MCInit /\ [][MCNext]_<<side, vars, exposedVars, dataVars, codecVars>>
=============================================================================
