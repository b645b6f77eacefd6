SPECIFICATION Spec
CONSTANTS
    Requests = {1, 2}
    MaxStages = 1
    Conversations = {c1, c2}
    First = c1
    None = None
    Fresh = {c1}
INVARIANTS SessionOutlivesTask ShownIsStored
PROPERTIES StreamsClose ComposerComesBack
