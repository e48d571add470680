\* One MQTT message.
SPECIFICATION Spec
CONSTANTS
    Users = {admin, bob}
    Default = admin
    Anon = anon
    Phantom = rules
    Chains = {c1}
    ToChain = c1
    Reqs = {r1}
    None = None
SYMMETRY Symmetry
INVARIANT
    MqttReachesChain
\* Every request has been answered: the server idles.
CHECK_DEADLOCK FALSE
