CONSTANTS
    server = server
    cli = cli
    placeholder = placeholder
    Unbounded = Unbounded
    Modules <- MixedModules
    Workers <- MixedWorkers
    MaxIdle <- MixedIdle
    HeartbeatTtl = 3
SPECIFICATION Spec
INVARIANTS TypeOK NeverJoinsLiving
PROPERTY Respawned
