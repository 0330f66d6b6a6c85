CONSTANTS
    server = server
    cli = cli
    placeholder = placeholder
    Unbounded = Unbounded
    Modules <- MainModules
    Workers <- MainWorkers
    MaxIdle <- MainIdle
    HeartbeatTtl = 3
SPECIFICATION Spec
PROPERTY AlwaysRespawned
