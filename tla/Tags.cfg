SPECIFICATION Spec
CONSTANTS
    NoPayload = NoPayload
    NotJson = NotJson
    Names <- MCNames
    Fold <- MCFold
    Payloads <- MCPayloads
    ConfigKeys <- MCConfigKeys
    ConfigSet <- MCConfigSet
    Faults = TRUE
INVARIANTS NamesDistinct StoredTagsExpire
PROPERTIES ImplementsTagMap
