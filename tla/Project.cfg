SPECIFICATION Spec
CONSTANTS
    Components <- TwoPaths
    Words <- SomeWords
    Texts <- SomeTexts
    Starters <- OneStarter
    Files = {"revelt.json", "build.mjs", "embed.go"}
    MaxChanges = 3
    MaxCommands = 3
INVARIANTS DiscoveryAgrees IslandsAsDeclared OutputsUsable
CHECK_DEADLOCK FALSE
