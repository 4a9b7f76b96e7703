--------------------------- MODULE AdapterHelpers ---------------------------
(***************************************************************************)
(* What the target adapters share (internal/adapter/adapter.go): adding    *)
(* and reading string extensions, choosing the kind of data for a payload, *)
(* reconciling an extension with retained metadata, and reporting what a   *)
(* target cannot represent.  A map of strings is a function on the names   *)
(* it holds.                                                               *)
(***************************************************************************)
EXTENDS Bindings

ErrInvalidAdapterInput == "ErrInvalidAdapterInput"
ErrMetadataCollision   == "ErrMetadataCollision"
ErrUntrustedMetadata   == "ErrUntrustedMetadata"

ASSUME AdapterErrorAssumption ==
  Nil \notin {ErrInvalidAdapterInput, ErrMetadataCollision, ErrUntrustedMetadata}

-----------------------------------------------------------------------------
(* Extensions.                                                              *)

\* Mutant: only the wire spelling is compared.
AttributesEqualText(left, right) == left.text = right.text

\* Kind, text and bytes.
AttributesEqual(left, right) == left = right

RebuildEvent(event, extensions) ==
  NewEvent(Attributes(event.id, event.source, event.type, event.dataContentType,
                      event.dataSchema, event.subject, event.time, extensions), event.data)

stringAttributes(strings) == [n \in DOMAIN strings |-> Attribute("string", strings[n])]

\* Mutant: a conflicting extension is overwritten.
AddStringExtensionsOver(event, additions) ==
  RebuildEvent(event, stringAttributes(additions) ++ event.extensions)

\* The additions are a Go map: whichever failing name comes first decides.
AddStringExtensions(event, additions) ==
  LET extensions == event.extensions
      failure(n) ==
           When(~validAttribute(Attribute("string", additions[n])), ErrInvalidAdapterInput)
        ?? When(/\ n \in DOMAIN extensions
                /\ ~AttributesEqual(extensions[n], Attribute("string", additions[n])),
                ErrMetadataCollision)
      failures ==
           When(Validate(event) # {}, ErrInvalidAdapterInput)
        ?? (UNION {failure(n) : n \in DOMAIN additions})
  IN  IF failures # {} THEN Returns(failures, Nil)
      ELSE RebuildEvent(event, extensions ++ stringAttributes(additions))

\* The text of an extension, "" when it is absent: a present one is never empty.
StringExtension(event, name) ==
  LET attribute == event.extensions[name] IN
  IF name \notin DOMAIN event.extensions THEN [value |-> "", err |-> Nil]
  ELSE IF attribute.kind # "string" \/ attribute.text = ""
       THEN [value |-> "", err |-> ErrInvalidAdapterInput]
  ELSE [value |-> attribute.text, err |-> Nil]

\* Mutant: an extension is adopted without trust.
MappedStringTrusting(event, name, retained, trusted) ==
  LET extension == StringExtension(event, name)
      value     == extension.value
  IN  IF extension.err # Nil THEN extension
      ELSE IF value # retained /\ retained # "" THEN [value |-> "", err |-> ErrMetadataCollision]
      ELSE [value |-> value, err |-> Nil]

MappedString(event, name, retained, trusted) ==
  LET extension == StringExtension(event, name)
      value     == extension.value
      fail(err) == [value |-> "", err |-> err]
  IN  IF extension.err # Nil THEN extension
      ELSE IF value # "" /\ retained # "" /\ value # retained THEN fail(ErrMetadataCollision)
      ELSE IF value # "" /\ retained = "" /\ ~trusted THEN fail(ErrUntrustedMetadata)
      ELSE IF value = "" /\ retained # "" THEN fail(ErrMetadataCollision)
      ELSE [value |-> value, err |-> Nil]

-----------------------------------------------------------------------------
(* Payloads.  The adapters' notion of JSON is narrower than the bindings':  *)
(* an empty type is binary, and the subtype json counts in application only.*)

IsJSONContentType(value) ==
  MediaClass(value) \in {"json", "text+json", "ce+json", "ce-batch+json", "ce-other+json"}

payloadKind(contentType) ==
  IF IsJSONContentType(contentType) THEN "json"
  ELSE IF isTextMediaType(contentType) THEN "text"
  ELSE "binary"

\* A byte slice of an envelope: nil and empty are told apart.
NilSlice     == [nil |-> TRUE, bytes |-> ""]
Slice(bytes) == [nil |-> FALSE, bytes |-> bytes]

DataFromPayload(contentType, bytes) ==
  IF MediaClass(contentType) = "malformed" THEN Returns({ErrInvalidAdapterInput}, Nil)
  ELSE CASE payloadKind(contentType) = "json" -> NewJSONData(bytes)
         [] payloadKind(contentType) = "text" -> NewTextData(bytes)
         [] OTHER                             -> Returns({}, NewBinaryData(bytes))

\* Mutant: an empty payload always comes back non-nil.
RestoreRetainedNilNever(data, retainedNil) == Slice(data.bytes)

RestoreRetainedNil(data, retainedNil) ==
  IF retainedNil /\ data.bytes = "" THEN NilSlice ELSE Slice(data.bytes)

-----------------------------------------------------------------------------
(* Losses.                                                                  *)

DataKindField == <<"data", "kind">>

AppendOptionalContextLosses(event) ==
  When(event.dataSchema # "", Core("dataschema"))
  \cup When(event.subject # "", Core("subject"))
  \cup When(event.time # "", Core("time"))

\* Mutant: the bindings' classes of content types decide the kind that returns.
AppendDataKindLossByBinding(event, contentTypePreserved) ==
  When(/\ present(event.data)
       /\ \/ ~contentTypePreserved /\ event.data.kind # "binary"
          \/ contentTypePreserved
             /\ ~dataKindMatchesContentType(event.data.kind, event.dataContentType), DataKindField)

AppendDataKindLoss(event, contentTypePreserved) ==
  When(/\ present(event.data)
       /\ event.data.kind # (IF contentTypePreserved THEN payloadKind(event.dataContentType)
                             ELSE "binary"), DataKindField)

AppendExtensionLosses(event, selected) ==
  {Ext(n) : n \in DOMAIN event.extensions \ selected}
=============================================================================
